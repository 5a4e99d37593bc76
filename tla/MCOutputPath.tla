---------------------------- MODULE MCOutputPath ----------------------------
(***************************************************************************)
(* OutputPath for TLC: two packets and a ring of four slots, so that the   *)
(* ring fills (three packets), wraps around and runs empty.                *)
(***************************************************************************)
EXTENDS OutputPath, TLC

CONSTANTS p1, p2, none

MCPacket == {p1, p2}
=============================================================================
