---------------------- MODULE MCForcedOutputCheckpoint ----------------------
(***************************************************************************)
(* Instances of ForcedOutputCheckpoint: the numbers are in the .cfg files. *)
(***************************************************************************)
EXTENDS ForcedOutputCheckpoint
=============================================================================
