------------------------------ MODULE MCPiHub ------------------------------
(***************************************************************************)
(* PiHub for TLC: two Teensys with the same data reference (one id), an    *)
(* int or a float, or one Teensy with an int and a float.                  *)
(***************************************************************************)
EXTENDS PiHub

CONSTANTS a, b, none, unmapped

MCValue == 0 .. MaxValue

\* A whole number is a float; a thousandth that is none becomes a little less.
MCNarrow == [v \in 0 .. MaxValue \cup {NoValue} |->
               IF v # NoValue /\ v > 0 /\ v % Thousandth = 0 /\ v % One # 0
               THEN v - 1 ELSE v]

\* One id, the same data reference on every Teensy.
OneId == {1}
OneRef == {a}
SharedRef == [t \in Teensy |-> [id \in {1} |-> a]]
OneInt == [t \in Teensy |-> [id \in {1} |-> "int"]]
FloatThenInt == [t \in Teensy |-> [id \in {1} |->
                   IF t = 1 THEN "float" ELSE "int"]]
NoTestValue == [r \in {a} |-> none]
NoInitValue == [r \in {a} |-> none]
ZeroTestValue == [r \in {a} |-> 0]
NoButton == [r \in {} |-> {}]
UpButton == [r \in {a} |-> {0, Thousandth}]

\* Two mapped ids, an int and a float, and one the mapping file lacks.
ThreeIds == {1, 2, 3}
TwoRefs == {a, b}
OwnRefs == [t \in Teensy |-> [id \in {1, 2, 3} |->
              CASE id = 1 -> a [] id = 2 -> b [] id = 3 -> unmapped]]
IntAndFloat == [t \in Teensy |-> [id \in {1, 2, 3} |->
                  IF id = 1 THEN "int" ELSE "float"]]
OneTestValue == [r \in {a, b} |-> IF r = a THEN 0 ELSE none]
OneInitValue == [r \in {a, b} |-> IF r = a THEN Thousandth ELSE none]
UpAndDown == [r \in {a, b} |-> {0, Thousandth, 0 - Thousandth}]
=============================================================================
