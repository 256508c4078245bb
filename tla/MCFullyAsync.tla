--------------------------- MODULE MCFullyAsync ---------------------------
(***************************************************************************)
(* The model-checked instances of FullyAsync: every constant is a number   *)
(* or a switch, given by the .cfg files that name this module.  Samples    *)
(* are numbered in the order of the dataset, so there is no symmetry.      *)
(***************************************************************************)
EXTENDS FullyAsync
=============================================================================
