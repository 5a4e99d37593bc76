----------------------------- MODULE MCUsbLinux -----------------------------
(***************************************************************************)
(* UsbLinux for TLC: one device node, at which boards come and go.         *)
(***************************************************************************)
EXTENDS UsbLinux

CONSTANT n1

OneNode == {n1}
=============================================================================
