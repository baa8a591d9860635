---------------------------- MODULE MCUsbEndpoint ----------------------------
(***************************************************************************)
(* UsbEndpoint for TLC: its constants are numbers, given in the cfgs.      *)
(***************************************************************************)
EXTENDS UsbEndpoint

=============================================================================
