-------------------------- MODULE MCPartialRollout --------------------------
(***************************************************************************)
(* The model-checked instances of PartialRollout: a first turn with a tool *)
(* call and a short second one; a length that cuts the first turn, one     *)
(* that leaves no room for the tool's answer, and one that cuts nothing.   *)
(***************************************************************************)
EXTENDS PartialRollout

CallThenText == << <<"open", "close">>, <<"text">> >>
BothLoops == {"single", "tool"}
ThreeLengths == {1, 3, 6}
TwoOrOne == [l \in BothLoops |-> IF l = "single" THEN 2 ELSE 1]
=============================================================================
