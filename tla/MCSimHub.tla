------------------------------ MODULE MCSimHub ------------------------------
(***************************************************************************)
(* SimHub for TLC: a mapping that is not read from the simulator before    *)
(* three that are: an int in the units "10khz" (a factor of 2 stands for   *)
(* its 10), a float, and an int that writes another variable in other      *)
(* units.  The four share no value.                                        *)
(***************************************************************************)
EXTENDS SimHub

CONSTANTS none, nodata

MCValue == 0 .. 60
MCReadMapping == {2, 3, 4}
MCWritesRead == {2, 3}
MCReadScale == <<1, 2, 1, 1>>
MCWriteScale == <<1, 2, 1, 2>>
MCTypeOf == <<"int", "int", "float", "int">>
MCSimStart == <<57, 6, 24, 42>>
MCSimValue == <<{}, {0}, {}, {48}>>
MCKnobValue == <<{}, {3, 6}, {28}, {18}>>

\* The float nearest to 27 units is not a multiple of a thousandth.
MCNarrow == [v \in MCValue |-> IF v = 27 THEN 26 ELSE v]
WithTestValue == <<54, none, none, none>>

\* The first mapping has a write variable only.
NoTestValue == <<none, none, none, none>>
=============================================================================
