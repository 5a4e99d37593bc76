-------------------------- MODULE MCWinOutputPath --------------------------
(***************************************************************************)
(* WinOutputPath for TLC: two packets and a ring of three slots, which     *)
(* fills with two packets.                                                 *)
(***************************************************************************)
EXTENDS WinOutputPath, TLC

CONSTANTS p1, p2, none

MCPacket == {p1, p2}
=============================================================================
