-------------------------------- MODULE Rom --------------------------------
(***************************************************************************)
(* The start of the chip together with what the ROM computes for whoever   *)
(* it hands the chip to: a program finds its functions in the ROM          *)
(* (RomWords), a host on USB its disk (DiskImage).                         *)
(***************************************************************************)
EXTENDS RomStart, RomWords, DiskImage

\* A program that runs finds the functions in order (FunctionsAgree).
ProgramHasFunctions == at = "program" => FunctionsAgree

\* A host finds its files on the disk whenever USB runs (HostFindsFiles).
UsbHasDisk == at = "usb" => HostFindsFiles

=============================================================================
