------------------------------ MODULE MCLoader ------------------------------
(***************************************************************************)
(* Loader for TLC: mapping lines are put together from all shapes each of  *)
(* their parts can have, and so are button lines.                          *)
(***************************************************************************)
EXTENDS Loader, TLC

MCDigit == {"3", "12"}
MCNumberOf == ("3" :> 3) @@ ("12" :> 12)

Refs == {<<"a">>, <<" ", "b", " ">>, <<>>}
Reads == {<<>>, <<"r">>, <<"r", ",">>, <<"r", ",", " ", "u", " ">>,
          <<"r", " ", ",", "u">>, <<"r", ",", "u", ",", "v">>,
          <<",", "u">>, <<"3">>, <<" ", "3", "-", "12">>, <<"3", "+", "x">>}
Writes == {<<>>, <<"w">>, <<"w", ",">>, <<"w", ",", "v">>, <<",", "v">>,
           <<"w", " ", ",", "v">>, <<"w", ",", "v", ";">>}
Tails == {<<>>, <<" ", "#", ";">>}

MCMappingLine ==
  {a \o <<";">> \o r \o t : a \in Refs, r \in Reads, t \in Tails}
  \cup {a \o <<";">> \o r \o <<";">> \o w \o t :
          a \in Refs, r \in Reads, w \in Writes, t \in Tails}
  \cup Refs \cup Tails

MCButtonLine ==
  {b \o e \o r \o x \o t :
     b \in {<<"3">>, <<" ", "12">>, <<>>}, e \in {<<"=">>, <<>>},
     r \in {<<"a">>, <<" ", "b">>},
     x \in {<<>>, <<" ", "3">>, <<" ", "3", "+", "12">>, <<" ", "-", "12">>},
     t \in {<<>>, <<".wav">>}}
=============================================================================
