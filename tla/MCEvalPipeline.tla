-------------------------- MODULE MCEvalPipeline --------------------------
(***************************************************************************)
(* Instances of EvalPipeline: the probe dataset and another one, three     *)
(* runs of which one may be interrupted: one run to do damage, one to meet *)
(* it, one to finish.                                                      *)
(***************************************************************************)
EXTENDS EvalPipeline
=============================================================================
