---------------------------- MODULE MCInputPath ----------------------------
(***************************************************************************)
(* InputPath for TLC: reports of eight bytes; long commands of two to      *)
(* four reports, short ones around them.                                   *)
(***************************************************************************)
EXTENDS InputPath

CONSTANT notail

MCLength == <<6, 12, 18, 18, 3>>
=============================================================================
