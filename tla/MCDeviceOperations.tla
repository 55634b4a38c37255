------------------------- MODULE MCDeviceOperations -------------------------
(***************************************************************************)
(* The device's outputs on small instances.  The width of the display is   *)
(* shortened: a scroll of n characters takes (Width + 1) * (n + 1) steps.  *)
(***************************************************************************)
EXTENDS DeviceOperations, TLC

MCDurations == {-1, 0, 2}
=============================================================================
