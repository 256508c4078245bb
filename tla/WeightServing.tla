---------------------------- MODULE WeightServing ----------------------------
(***************************************************************************)
(* What the rollouter may rely on: while the rollout ranks serve, all of   *)
(* them hold one version of every parameter, the announced one, and        *)
(* neither the weights nor the announcement change.                        *)
(***************************************************************************)
CONSTANTS Ranks, Params, Versions

VARIABLES
    serving,        \* samples may be generated
    weights,        \* rank -> parameter -> version
    announced       \* the version samples are labelled with

servingVars == <<serving, weights, announced>>

ServingInit ==
    /\ serving = FALSE
    /\ weights \in [Ranks -> [Params -> Versions]]
    /\ announced \in Versions

Pause == serving' = FALSE /\ UNCHANGED <<weights, announced>>

Load(r) ==
    /\ ~serving
    /\ weights' \in [Ranks -> [Params -> Versions]]
    /\ \A s \in Ranks \ {r} : weights'[s] = weights[s]
    /\ UNCHANGED <<serving, announced>>

Announce ==
    /\ ~serving
    /\ announced' \in Versions
    /\ UNCHANGED <<serving, weights>>

Resume ==
    /\ \A r \in Ranks, p \in Params : weights[r][p] = announced
    /\ serving' = TRUE
    /\ UNCHANGED <<weights, announced>>

ServingNext == Pause \/ (\E r \in Ranks : Load(r)) \/ Announce \/ Resume

ServingSpec == ServingInit /\ [][ServingNext]_servingVars
=============================================================================
