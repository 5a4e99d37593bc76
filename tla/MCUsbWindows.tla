---------------------------- MODULE MCUsbWindows ----------------------------
(***************************************************************************)
(* UsbWindows for TLC: all values are given in the configuration.          *)
(***************************************************************************)
EXTENDS UsbWindows
=============================================================================
