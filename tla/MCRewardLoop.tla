---------------------------- MODULE MCRewardLoop ----------------------------
(***************************************************************************)
(* The model-checked instance of RewardLoop: the requests bucket holds one *)
(* request and a half, the tokens bucket less than one.                    *)
(***************************************************************************)
EXTENDS RewardLoop

AllModes == {"async", "sync", "disrm"}
TwoCosts == [rpm |-> 2, tpm |-> 4]
DictKeys == {"score", "acc"}
=============================================================================
