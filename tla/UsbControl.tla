----------------------------- MODULE UsbControl -----------------------------
(***************************************************************************)
(* The control endpoint of the device (usb_device_tiny/usb_device.c): SETUP *)
(* packets, the stages of a control transfer, address and configuration,   *)
(* and the host that makes the requests.  What a request does to an        *)
(* interface or a bulk endpoint is up to the module that extends this one. *)
(*                                                                         *)
(* A request is a record of its name and one argument.  The data of a      *)
(* reply is left out: descriptors and status words are one packet each.    *)
(* The host may give a request up at any time and send the next SETUP.     *)
(***************************************************************************)
EXTENDS Naturals

CONSTANTS
    Address,   \* the addresses the host gives out
    NoRequest

Endpoints == {"IN", "OUT"}

Request ==
         [name : {"GET_DESCRIPTOR", "GET_MAX_LUN", "UNKNOWN", "MSC_RESET"}, arg : {0}]
    \cup [name : {"SET_ADDRESS"}, arg : Address]
    \cup [name : {"SET_CONFIGURATION"}, arg : {0, 1}]
    \cup [name : {"CLEAR_HALT"}, arg : Endpoints]

ASSUME ControlAssumption ==
    /\ Address \subseteq 1..127
    /\ NoRequest \notin Request

VARIABLES
    control,   \* the transfers of usb_control_in and usb_control_out, and their stall
    device,    \* _device: current_address, pending_address, current_config_num
    asking     \* the host: the request it waits for, the address it uses

controlVars == <<control, device, asking>>

ControlTypeOK ==
    /\ control \in [in : {"none", "data", "ack", "set_address"},
                    out : {"none", "ack"}, stalled : BOOLEAN]
    /\ device \in [address : Address \cup {0}, pending : Address \cup {0},
                   config : {0, 1}]
    /\ asking \in [request : Request \cup {NoRequest}, address : Address \cup {0}]

\* usb_device_start, as far as the control endpoint goes.
ControlInit ==
    /\ control = [in |-> "none", out |-> "none", stalled |-> FALSE]
    /\ device = [address |-> 0, pending |-> 0, config |-> 0]
    /\ asking = [request |-> NoRequest, address |-> 0]

Configured == device.config # 0

-----------------------------------------------------------------------------
(***************************************************************************)
(* SETUP.  Whatever was in progress is reset, and the request is answered   *)
(* with data, with an empty packet, or by stalling both directions.        *)
(***************************************************************************)

Replies == [in |-> "data", out |-> "none", stalled |-> FALSE]
Acks    == [in |-> "ack", out |-> "none", stalled |-> FALSE]
Stalls  == [in |-> "none", out |-> "none", stalled |-> TRUE]

\* Requests to an interface or an endpoint find it in the configuration only.
Answer(r) ==
    CASE r.name = "GET_DESCRIPTOR" -> Replies
      [] r.name = "SET_ADDRESS" -> [Acks EXCEPT !.in = "set_address"]
      [] r.name = "SET_CONFIGURATION" -> Acks
      [] r.name = "GET_MAX_LUN" /\ Configured -> Replies
      [] r.name \in {"MSC_RESET", "CLEAR_HALT"} /\ Configured -> Acks
      [] OTHER -> Stalls

\* Mutant of DeviceAfter: the address changes before the status stage.
DeviceAfterAtOnce(r) ==
    CASE r.name = "SET_ADDRESS" -> [device EXCEPT !.address = r.arg, !.pending = r.arg]
      [] r.name = "SET_CONFIGURATION" -> [device EXCEPT !.config = r.arg]
      [] OTHER -> device

DeviceAfter(r) ==
    CASE r.name = "SET_ADDRESS" -> [device EXCEPT !.pending = r.arg]
      [] r.name = "SET_CONFIGURATION" -> [device EXCEPT !.config = r.arg]
      [] OTHER -> device

\* _usb_handle_setup_packet, if the host still talks to this address.
HostSetup(r) ==
    /\ asking.address = device.address
    /\ r.name = "SET_ADDRESS" => ~Configured
    /\ control' = Answer(r)
    /\ device' = DeviceAfter(r)
    /\ asking' = [asking EXCEPT !.request = r]

-----------------------------------------------------------------------------
(***************************************************************************)
(* The stages that follow.                                                 *)
(***************************************************************************)

Asked == asking.request # NoRequest /\ asking.address = device.address

\* The host takes a reply, and _tf_send_control_in_ack readies the status stage.
HostTakesData ==
    /\ Asked
    /\ control.in = "data"
    /\ control' = [control EXCEPT !.in = "none", !.out = "ack"]
    /\ UNCHANGED <<device, asking>>

HostSendsStatus ==
    /\ Asked
    /\ control.out = "ack"
    /\ control' = [control EXCEPT !.out = "none"]
    /\ asking' = [asking EXCEPT !.request = NoRequest]
    /\ UNCHANGED device

HostTakesStatus ==
    /\ Asked
    /\ control.in = "ack"
    /\ control' = [control EXCEPT !.in = "none"]
    /\ asking' = [asking EXCEPT !.request = NoRequest]
    /\ UNCHANGED device

\* The status stage of SET_ADDRESS: _tf_set_address takes the pending address.
HostTakesNewAddress ==
    /\ Asked
    /\ control.in = "set_address"
    /\ control' = [control EXCEPT !.in = "none"]
    /\ device' = [device EXCEPT !.address = device.pending]
    /\ asking' = [request |-> NoRequest, address |-> asking.request.arg]

\* usb_stall_control_pipe: the next SETUP ends the stall.
HostSeesStall ==
    /\ Asked
    /\ control.stalled
    /\ asking' = [asking EXCEPT !.request = NoRequest]
    /\ UNCHANGED <<control, device>>

HostEnds ==
    \/ HostSendsStatus \/ HostTakesStatus \/ HostTakesNewAddress \/ HostSeesStall

HostGoesOn == HostTakesData \/ HostEnds

\* _usb_handle_bus_reset leaves the control endpoint as it is.
BusReset ==
    /\ device' = [device EXCEPT !.address = 0, !.config = 0]
    /\ asking' = [request |-> NoRequest, address |-> 0]
    /\ UNCHANGED control

-----------------------------------------------------------------------------
(***************************************************************************)
(* Properties.                                                             *)
(***************************************************************************)

\* The device answers to the address the host uses, through requests the host
\* gave up, bus resets, and the change itself (_tf_set_address).
AddressAgreed == asking.address = device.address

\* A request the host waits for gets its reply, its status or a stall, and is
\* not left in a stage that never comes (the completions of the control endpoint).
ControlEnds == asking.request # NoRequest ~> asking.request = NoRequest

=============================================================================
