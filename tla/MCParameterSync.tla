-------------------------- MODULE MCParameterSync --------------------------
(***************************************************************************)
(* The model-checked instances of ParameterSync and of the weight transfer *)
(* in it.  Sizes are in bytes of a toy alignment of 2.                     *)
(***************************************************************************)
EXTENDS ParameterSync

ThreeParameters == <<3, 4, 1>>
BothModes == {TRUE, FALSE}
=============================================================================
