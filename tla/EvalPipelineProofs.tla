------------------------- MODULE EvalPipelineProofs -------------------------
(***************************************************************************)
(* Theorems about EvalPipeline for any datasets, either mode and any       *)
(* number of runs and interruptions.                                       *)
(*                                                                         *)
(* What makes re-runs cheap is that no unforced run touches an output that *)
(* is there.  The two steps that write a file do not look at it, so this   *)
(* rests on what the check before them established and nobody changed      *)
(* since: WriteInv.                                                        *)
(*                                                                         *)
(* What makes them right is harder, because a file may be replaced without *)
(* what was computed from it: a forced run does so, stage by stage.  The   *)
(* numbers in results.json match all the same, since such a run either     *)
(* comes to every later stage or is interrupted: TodoInv, ForceInv and     *)
(* LineInv.                                                                *)
(***************************************************************************)
EXTENDS EvalPipeline, SequenceTheorems, TLAPS

WriteInv ==
    /\ TypeOK
    /\ phase = "script" =>
         \A d \in Datasets, k \in Stages : IsNext(d, k) => force \/ out[d][k] = Empty
    /\ phase = "writing" =>
         \A d \in Datasets, k \in Stages : IsNext(d, k) => out[d][k] = Empty

-----------------------------------------------------------------------------
(* At most one stage is next.                                              *)
LEMMA OneIsNext ==
    ASSUME NEW d \in Datasets, NEW k \in Stages, IsNext(d, k),
           NEW e \in Datasets, NEW l \in Stages, IsNext(e, l)
    PROVE  d = e /\ k = l
  <1>1. d \in Nat /\ e \in Nat /\ k \in Nat /\ l \in Nat
    BY DatasetsAssumption DEF Stages, Rollouts, Probe
  <1>2. d < e \/ (d = e /\ k <= l)
    BY DEF IsNext
  <1>3. e < d \/ (e = d /\ l <= k)
    BY DEF IsNext
  <1> QED
    BY <1>1, <1>2, <1>3

LEMMA EmptyIsFile == Empty \in Files
  BY DEF Empty, Files

(* What a script computes is a file if its input is one.                   *)
LEMMA ComputedIsFile ==
    ASSUME WriteInv, NEW d \in Datasets, NEW k \in Stages
    PROVE  Computed(d, k) \in Files
  <1>1. CASE k = Rollouts
    BY <1>1 DEF Computed, WriteInv, TypeOK, Files
  <1>2. CASE k # Rollouts
    <2>1. k - 1 \in Stages
      BY <1>2 DEF Stages, Rollouts, Probe
    <2>2. Input(d, k) \in Files
      BY <2>1 DEF Input, WriteInv, TypeOK
    <2>3. Append(Input(d, k).lineage, run) \in Seq(Nat)
      BY <2>2 DEF Files, WriteInv, TypeOK
    <2> QED
      BY <1>2, <2>2, <2>3 DEF Computed, Files
  <1> QED
    BY <1>1, <1>2

-----------------------------------------------------------------------------
LEMMA InitWriteInv == Init => WriteInv
  BY EmptyIsFile DEF Init, WriteInv, TypeOK

(* Once a stage is due, its script and its write come before anything else *)
(* changes the file.                                                       *)
LEMMA StageWriteInv ==
    ASSUME WriteInv, NEW d \in Datasets, NEW k \in Stages, Stage(d, k)
    PROVE  WriteInv'
  <1> USE DEF WriteInv, TypeOK, optionVars
  <1>0. <<d, k>> \in Items
    BY DEF Items
  <1>1. CASE StageSkips(d, k) \/ StagePrints(d, k) \/ WriteMarker(d, k)
    <2>1. marker' \subseteq Items
      BY <1>0, <1>1 DEF StageSkips, StagePrints, WriteMarker, Backfilled
    <2> QED
      BY <1>1, <2>1 DEF StageSkips, StagePrints, WriteMarker
  <1>2. CASE StageRuns(d, k)
    <2>1. /\ UNCHANGED <<out, fresh, run, force, todo>> /\ phase' = "script"
          /\ marker' \subseteq Items
      BY <1>0, <1>2 DEF StageRuns, Backfilled
    <2>2. force \/ out[d][k] = Empty
      BY <1>2 DEF StageRuns, Skips, IsDone, Nonempty
    <2>3. ASSUME NEW e \in Datasets, NEW l \in Stages, IsNext(e, l)'
          PROVE  (force \/ out[e][l] = Empty)'
      <3>1. IsNext(e, l) /\ IsNext(d, k)
        BY <1>2, <2>1, <2>3 DEF StageRuns, IsNext
      <3>2. e = d /\ l = k
        BY <3>1, OneIsNext
      <3> QED
        BY <2>1, <2>2, <3>2
    <2> QED
      BY <2>1, <2>3
  <1>3. CASE ScriptRaises(d, k)
    BY <1>3, EmptyIsFile DEF ScriptRaises, Fails, Exits
  <1>4. CASE ScriptOpens(d, k)
    <2>1. /\ out' = [out EXCEPT ![d][k] = Empty]
          /\ fresh' = Computed(d, k)
          /\ phase' = "writing"
          /\ UNCHANGED <<run, todo, marker>>
      BY <1>4 DEF ScriptOpens
    <2>2. fresh' \in Files
      BY <2>1, ComputedIsFile
    <2>3. out' \in [Datasets -> [Stages -> Files]]
      BY <2>1, EmptyIsFile
    <2>4. ASSUME NEW e \in Datasets, NEW l \in Stages, IsNext(e, l)'
          PROVE  out'[e][l] = Empty
      <3>1. IsNext(e, l) /\ IsNext(d, k)
        BY <1>4, <2>1, <2>4 DEF ScriptOpens, IsNext
      <3>2. e = d /\ l = k
        BY <3>1, OneIsNext
      <3> QED
        BY <2>1, <3>2
    <2> QED
      BY <2>1, <2>2, <2>3, <2>4
  <1>5. CASE ScriptCloses(d, k)
    BY <1>5, EmptyIsFile DEF ScriptCloses
  <1> QED
    BY <1>1, <1>2, <1>3, <1>4, <1>5 DEF Stage

(* A torn write leaves a file.                                             *)
LEMMA InterruptWriteInv == WriteInv /\ Interrupt => WriteInv'
  <1> SUFFICES ASSUME WriteInv, Interrupt
               PROVE  WriteInv'
    OBVIOUS
  <1>1. phase' = "idle" /\ fresh' = Empty /\ todo' = {} /\ UNCHANGED <<run, marker>>
    BY DEF Interrupt, Exits
  <1>2. out' \in [Datasets -> [Stages -> Files]]
    <2>1. CASE phase = "writing"
      <3>1. PICK d \in Datasets, k \in Stages : \E c \in Torn(k) :
              out' = [out EXCEPT ![d][k] = c]
        BY <2>1 DEF Interrupt
      <3>2. Torn(k) \subseteq Files
        BY EmptyIsFile DEF Torn, WriteInv, TypeOK, Files
      <3> QED
        BY <3>1, <3>2 DEF WriteInv, TypeOK
    <2>2. CASE phase # "writing"
      BY <2>2 DEF Interrupt, WriteInv, TypeOK
    <2> QED
      BY <2>1, <2>2
  <1> QED
    BY <1>1, <1>2, EmptyIsFile DEF WriteInv, TypeOK

LEMMA NextWriteInv == WriteInv /\ [Next]_vars => WriteInv'
  <1> SUFFICES ASSUME WriteInv, [Next]_vars
               PROVE  WriteInv'
    OBVIOUS
  <1> USE DEF WriteInv, TypeOK
  <1>1. CASE Start
    BY <1>1 DEF Start
  <1>2. CASE StageMerge \/ MergeEnds
    BY <1>2 DEF StageMerge, MergeEnds, optionVars
  <1>3. ASSUME NEW d \in Datasets, NEW k \in Stages, Stage(d, k)
        PROVE  WriteInv'
    BY <1>3, StageWriteInv
  <1>4. CASE DryRunEnds \/ NaturalEval \/ NaturalEvalRaises
    BY <1>4, EmptyIsFile DEF DryRunEnds, NaturalEval, NaturalEvalRaises, Fails, Exits
  <1>5. CASE Interrupt
    BY <1>5, InterruptWriteInv
  <1>6. CASE UNCHANGED vars
    BY <1>6 DEF vars, optionVars, IsNext
  <1> QED
    BY <1>1, <1>2, <1>3, <1>4, <1>5, <1>6 DEF Next, Proceeds

(* The invariant holds in every sequence of runs.                          *)
THEOREM WriteInvariant == Spec => []WriteInv
  BY InitWriteInv, NextWriteInv, PTL DEF Spec

(* Types: files, markers and options keep their types in any runs.         *)
THEOREM TypeCorrect == Spec => []TypeOK
  BY WriteInvariant, PTL DEF WriteInv

-----------------------------------------------------------------------------
(* One step of an unforced run leaves every output that is there alone.    *)
LEMMA StepKeepsFinished ==
    ASSUME WriteInv, Next,
           NEW d \in Datasets, NEW k \in Stages, Nonempty(out[d][k]), ~force
    PROVE  out'[d][k] = out[d][k]
  <1> USE DEF WriteInv, TypeOK, Nonempty
  <1>1. CASE phase = "script"
    <2>1. ~IsNext(d, k)
      BY <1>1
    <2>2. ASSUME NEW e \in Datasets, NEW l \in Stages, ScriptOpens(e, l)
          PROVE  out'[d][k] = out[d][k]
      <3>1. d # e \/ k # l
        BY <2>1, <2>2 DEF ScriptOpens
      <3> QED
        BY <2>2, <3>1 DEF ScriptOpens
    <2>3. UNCHANGED out \/ \E e \in Datasets, l \in Stages : ScriptOpens(e, l)
      BY <1>1 DEF Next, Start, Proceeds, StageMerge, MergeEnds, Stage, StageSkips,
          StagePrints, StageRuns, ScriptRaises, ScriptCloses,
          WriteMarker, DryRunEnds, NaturalEval, NaturalEvalRaises, AllStagesDone,
          Fails, Exits, Interrupt
    <2> QED
      BY <2>2, <2>3
  <1>2. CASE phase = "writing"
    <2>1. ~IsNext(d, k)
      BY <1>2
    <2>2. \/ UNCHANGED out
          \/ \E e \in Datasets, l \in Stages : \E c \in {fresh} \cup Torn(l) :
               IsNext(e, l) /\ out' = [out EXCEPT ![e][l] = c]
      <3>1. CASE Interrupt
        BY <1>2, <3>1 DEF Interrupt
      <3>2. CASE Start \/ Proceeds
        BY <1>2, <3>2 DEF Start, Proceeds, StageMerge, MergeEnds, Stage, StageSkips,
            StagePrints, StageRuns, ScriptOpens, ScriptRaises,
            ScriptCloses, WriteMarker, DryRunEnds, NaturalEval, NaturalEvalRaises,
            AllStagesDone, Fails, Exits
      <3> QED
        BY <3>1, <3>2 DEF Next
    <2>3. CASE \E e \in Datasets, l \in Stages : \E c \in {fresh} \cup Torn(l) :
                 IsNext(e, l) /\ out' = [out EXCEPT ![e][l] = c]
      <3>1. PICK e \in Datasets, l \in Stages : \E c \in {fresh} \cup Torn(l) :
              IsNext(e, l) /\ out' = [out EXCEPT ![e][l] = c]
        BY <2>3
      <3>2. d # e \/ k # l
        BY <2>1, <3>1
      <3> QED
        BY <3>1, <3>2
    <2> QED
      BY <2>2, <2>3
  <1>3. CASE phase \notin {"script", "writing"}
    BY <1>3 DEF Next, Start, Proceeds, StageMerge, MergeEnds, Stage, StageSkips,
        StagePrints, StageRuns, ScriptOpens, ScriptRaises,
        ScriptCloses, WriteMarker, DryRunEnds, NaturalEval, NaturalEvalRaises,
        AllStagesDone, Fails, Exits, Interrupt
  <1> QED
    BY <1>1, <1>2, <1>3

(* Without --force no run, interrupted or not, touches an output that is   *)
(* there, for any number of runs and interruptions.                        *)
THEOREM OutputsKept == Spec => FinishedKept
  <1>1. WriteInv /\ [Next]_vars =>
          [\A d \in Datasets, k \in Stages :
             Nonempty(out[d][k]) /\ ~force => out'[d][k] = out[d][k]]_vars
    BY StepKeepsFinished
  <1> QED
    BY <1>1, WriteInvariant, PTL DEF Spec, FinishedKept

-----------------------------------------------------------------------------
(* Why no stage misses its input: a stage leaves todo only with an output  *)
(* to show, except in a dry run.                                           *)
ChainInv ==
    /\ ~dry => \A d \in Datasets, k, l \in Stages :
                 <<d, k>> \in todo /\ l < k => <<d, l>> \in todo \/ Nonempty(out[d][l])
    /\ phase = "writing" => Nonempty(fresh)
    /\ phase = "marking" =>
         \A d \in Datasets, k \in Stages : IsNext(d, k) => Nonempty(out[d][k])

LEMMA InitChainInv == Init => ChainInv
  BY DEF Init, ChainInv

(* A script that could load its input computes a non-empty output.         *)
LEMMA ComputedIsNonempty ==
    ASSUME WriteInv, NEW d \in Datasets, NEW k \in Stages, CanLoad(d, k)
    PROVE  Nonempty(Computed(d, k))
  <1>1. CASE k = Rollouts
    BY <1>1 DEF Computed, Nonempty, Empty
  <1>2. CASE k # Rollouts
    <2>1. k - 1 \in Stages
      BY <1>2 DEF Stages, Rollouts, Probe
    <2>2. Input(d, k) \in Files /\ Input(d, k).extent \in {"all", "short"}
      BY <1>2, <2>1 DEF Input, WriteInv, TypeOK, CanLoad, Readable
    <2>3. Computed(d, k).extent = Input(d, k).extent
      BY <1>2, <2>2 DEF Computed, Files
    <2> QED
      BY <2>2, <2>3 DEF Nonempty, Empty
  <1> QED
    BY <1>1, <1>2

LEMMA StageChainInv ==
    ASSUME WriteInv, ChainInv, NEW d \in Datasets, NEW k \in Stages, Stage(d, k)
    PROVE  ChainInv'
  <1> USE DEF ChainInv, optionVars
  <1>1. CASE StageSkips(d, k)
    BY <1>1 DEF StageSkips, Skips, IsDone
  <1>2. CASE StagePrints(d, k)
    BY <1>2 DEF StagePrints
  <1>3. CASE StageRuns(d, k)
    BY <1>3 DEF StageRuns
  <1>4. CASE ScriptOpens(d, k)
    <2>1. /\ out' = [out EXCEPT ![d][k] = Empty]
          /\ phase' = "writing"
          /\ UNCHANGED <<dry, todo>>
          /\ <<d, k>> \in todo
      BY <1>4 DEF ScriptOpens, IsNext
    <2>2. Nonempty(fresh)'
      BY <1>4, ComputedIsNonempty DEF ScriptOpens, Nonempty, Empty
    <2>3. \A e \in Datasets, l \in Stages :
            out'[e][l] = out[e][l] \/ <<e, l>> \in todo
      BY <2>1 DEF WriteInv, TypeOK
    <2> QED
      BY <2>1, <2>2, <2>3 DEF Nonempty, Empty
  <1>5. CASE ScriptRaises(d, k)
    BY <1>5 DEF ScriptRaises, Fails, Exits
  <1>6. CASE ScriptCloses(d, k)
    <2>1. /\ out' = [out EXCEPT ![d][k] = fresh]
          /\ phase' = "marking"
          /\ UNCHANGED <<dry, todo>>
          /\ IsNext(d, k)
          /\ Nonempty(fresh)
      BY <1>6 DEF ScriptCloses
    <2>2. out'[d][k] = fresh
      BY <2>1 DEF WriteInv, TypeOK
    <2>3. \A e \in Datasets, l \in Stages :
            out'[e][l] = out[e][l] \/ <<e, l>> \in todo
      BY <2>1 DEF WriteInv, TypeOK, IsNext
    <2>4. ASSUME NEW e \in Datasets, NEW l \in Stages, IsNext(e, l)'
          PROVE  Nonempty(out[e][l])'
      <3>1. IsNext(e, l)
        BY <2>1, <2>4 DEF IsNext
      <3>2. e = d /\ l = k
        BY <2>1, <3>1, OneIsNext
      <3> QED
        BY <2>1, <2>2, <3>2 DEF Nonempty, Empty
    <2> QED
      BY <2>1, <2>3, <2>4 DEF Nonempty, Empty
  <1>7. CASE WriteMarker(d, k)
    <2>1. /\ UNCHANGED <<out, dry>>
          /\ todo' = todo \ {<<d, k>>}
          /\ phase' = "stages"
          /\ Nonempty(out[d][k])
      BY <1>7 DEF WriteMarker
    <2> QED
      BY <2>1 DEF Nonempty, Empty
  <1> QED
    BY <1>1, <1>2, <1>3, <1>4, <1>5, <1>6, <1>7 DEF Stage

LEMMA NextChainInv == WriteInv /\ ChainInv /\ [Next]_vars => ChainInv'
  <1> SUFFICES ASSUME WriteInv, ChainInv, [Next]_vars
               PROVE  ChainInv'
    OBVIOUS
  <1> USE DEF ChainInv
  <1>1. CASE Start
    <2>1. /\ todo' = {i \in Items : i[1] \in chosen' /\ i[2] \in StagesOf(i[1])}
          /\ phase' = "merge"
      BY <1>1 DEF Start
    <2>2. \A d \in Datasets, k, l \in Stages :
            k \in StagesOf(d) /\ l < k => l \in StagesOf(d)
      BY DEF StagesOf, Stages, Rollouts, BudgetEval, Hidden, Probe
    <2>3. ASSUME NEW d \in Datasets, NEW k \in Stages, NEW l \in Stages,
                 <<d, k>> \in todo', l < k
          PROVE  <<d, l>> \in todo'
      BY <2>1, <2>2, <2>3 DEF Items
    <2> QED
      BY <2>1, <2>3
  <1>2. CASE StageMerge \/ MergeEnds
    BY <1>2 DEF StageMerge, MergeEnds, optionVars
  <1>3. ASSUME NEW d \in Datasets, NEW k \in Stages, Stage(d, k)
        PROVE  ChainInv'
    BY <1>3, StageChainInv
  <1>4. CASE DryRunEnds \/ NaturalEval \/ NaturalEvalRaises \/ Interrupt
    BY <1>4 DEF DryRunEnds, NaturalEval, NaturalEvalRaises, Interrupt, Fails, Exits
  <1>5. CASE UNCHANGED vars
    BY <1>5 DEF vars, optionVars, IsNext
  <1> QED
    BY <1>1, <1>2, <1>3, <1>4, <1>5 DEF Next, Proceeds

(* No stage of any run meets a missing input, so that the three checks of  *)
(* evaluate.py that would raise are never needed.                          *)
THEOREM InputsThere == Spec => []InputsReady
  <1>1. ChainInv => InputsReady
    <2> SUFFICES ASSUME ChainInv, NEW d \in Datasets, NEW k \in Stages,
                        IsNext(d, k), ~dry, k # Rollouts
                 PROVE  Nonempty(Input(d, k))
      BY DEF InputsReady, InputMissing
    <2>1. k - 1 \in Stages /\ k - 1 < k /\ ~(k <= k - 1)
      BY DEF Stages, Rollouts, Probe
    <2>2. <<d, k>> \in todo /\ <<d, k - 1>> \notin todo
      BY <2>1, DatasetsAssumption DEF IsNext
    <2> QED
      BY <2>1, <2>2 DEF ChainInv, Input
  <1>2. Spec => []ChainInv
    BY InitChainInv, NextChainInv, WriteInvariant, PTL DEF Spec
  <1> QED
    BY <1>1, <1>2, PTL

-----------------------------------------------------------------------------
(* What a report is computed from.  LineInv: an output that is there was   *)
(* computed from the output of the stage before it as that one is now,     *)
(* unless a --force run is about to write it again.  ForceInv: such a run  *)
(* gets there unless it is interrupted, because from its first write on    *)
(* the model is merged and what it has written can be read.                *)
ItemsOf(ds) == {i \in Items : i[1] \in ds /\ i[2] \in StagesOf(i[1])}

Forcing == force /\ ~dry

\* The run has come to its first stage and beyond its check.
Begun == phase \in {"writing", "marking"} \/ todo # ItemsOf(chosen)

\* The output is still the one of an earlier run, and will be replaced.
Redone(d, k) == Forcing /\ Begun /\ <<d, k>> \in todo

Follows(line, d, k) ==
    k # Rollouts => Nonempty(Input(d, k)) /\ Front(line) = Input(d, k).lineage
Matches(d, k) == Nonempty(out[d][k]) => Follows(out[d][k].lineage, d, k)

TodoInv ==
    /\ phase = "idle" => ~force
    /\ phase \in {"script", "writing", "marking"} => ~dry
    /\ phase \in {"merge", "merging"} => todo = ItemsOf(chosen)
    /\ chosen \subseteq Datasets /\ todo \subseteq ItemsOf(chosen)
    /\ \A d \in Datasets, k, l \in Stages :
         <<d, k>> \in todo /\ l \in StagesOf(d) /\ k < l => <<d, l>> \in todo

ForceInv ==
    Forcing =>
      /\ Begun => merge = "whole"
      /\ \A d \in chosen, k \in Stages :
           k \in StagesOf(d) /\ <<d, k>> \notin todo => out[d][k].extent = "all"
      /\ phase = "writing" => fresh.extent = "all"
      /\ phase = "marking" =>
           \A d \in Datasets, k \in Stages : IsNext(d, k) => out[d][k].extent = "all"

LineInv ==
    /\ \A d \in Datasets, k \in Stages : k \notin StagesOf(d) => out[d][k] = Empty
    /\ phase = "writing" =>
         \A d \in Datasets, k \in Stages : IsNext(d, k) => Follows(fresh.lineage, d, k)
    /\ phase = "marking" =>
         \A d \in Datasets, k \in Stages : IsNext(d, k) => Matches(d, k)
    /\ ~forceInterrupted =>
         \A d \in Datasets, k \in Stages : Redone(d, k) \/ Matches(d, k)

WholeInv ==
    /\ interrupts \in Nat
    /\ interrupts = 0 =>
         /\ \A d \in Datasets, k \in Stages : out[d][k].extent \in {"none", "all"}
         /\ fresh.extent \in {"none", "all"}

ResultsInv ==
    WriteInv /\ TodoInv /\ ForceInv /\ LineInv /\ WholeInv /\ ResultsSound

LEMMA StageNumbers ==
    /\ \A k \in Stages : k \in Nat /\ (k # Rollouts => k - 1 \in Stages /\ k - 1 < k)
    /\ \A d, k : k \in StagesOf(d) => k \in Stages /\ (k # Rollouts => k - 1 \in StagesOf(d))
    /\ \A d : Rollouts \in StagesOf(d)
  BY DEF Stages, StagesOf, Rollouts, BudgetEval, Hidden, Probe

(* What is next is the first of its dataset that is left.                  *)
LEMMA NextFacts ==
    ASSUME WriteInv, TodoInv, NEW d \in Datasets, NEW k \in Stages, IsNext(d, k)
    PROVE  /\ <<d, k>> \in todo /\ <<d, k>> \in ItemsOf(chosen)
           /\ d \in chosen /\ k \in StagesOf(d)
           /\ \A l \in Stages : l < k => <<d, l>> \notin todo
           /\ \A l \in Stages : l \in StagesOf(d) /\ k < l => <<d, l>> \in todo
           /\ k # Rollouts => todo # ItemsOf(chosen)
  <1>1. <<d, k>> \in todo /\ \A i \in todo : d < i[1] \/ (d = i[1] /\ k <= i[2])
    BY DEF IsNext
  <1>2. <<d, k>> \in ItemsOf(chosen) /\ d \in chosen /\ k \in StagesOf(d)
    BY <1>1 DEF TodoInv, ItemsOf
  <1>3. ASSUME NEW l \in Stages, l < k, <<d, l>> \in todo
        PROVE  FALSE
    <2>1. d < d \/ k <= l
      BY <1>1, <1>3
    <2> QED
      BY <1>3, <2>1, StageNumbers, DatasetsAssumption
  <1>4. k # Rollouts => todo # ItemsOf(chosen)
    <2>1. <<d, Rollouts>> \in ItemsOf(chosen) /\ Rollouts \in Stages /\ (k # Rollouts => Rollouts < k)
      BY <1>2 DEF ItemsOf, Items, Stages, StagesOf, Rollouts, BudgetEval, Hidden, Probe
    <2> QED
      BY <1>3, <2>1
  <1> QED
    BY <1>1, <1>2, <1>3, <1>4 DEF TodoInv

LEMMA TodoShrinks ==
    ASSUME WriteInv, TodoInv, NEW d \in Datasets, NEW k \in Stages, IsNext(d, k),
           todo' = todo \ {<<d, k>>}, UNCHANGED <<force, dry, chosen>>, phase' = "stages"
    PROVE  TodoInv'
  <1>1. ASSUME NEW e \in Datasets, NEW l \in Stages, NEW m \in Stages,
               <<e, l>> \in todo', m \in StagesOf(e), l < m
        PROVE  <<e, m>> \in todo'
    <2>1. <<e, l>> \in todo /\ <<e, m>> \in todo
      BY <1>1 DEF TodoInv
    <2>2. ~(e = d /\ m = k)
      BY <1>1, <2>1, NextFacts
    <2> QED
      BY <2>1, <2>2
  <1> QED
    BY <1>1 DEF TodoInv, ItemsOf

LEMMA TodoStep == WriteInv /\ TodoInv /\ [Next]_vars => TodoInv'
  <1> SUFFICES ASSUME WriteInv, TodoInv, [Next]_vars
               PROVE  TodoInv'
    OBVIOUS
  <1>1. CASE Start
    <2>1. /\ todo' = ItemsOf(chosen') /\ phase' = "merge" /\ chosen' \subseteq Datasets
      BY <1>1 DEF Start, ItemsOf
    <2>2. ASSUME NEW d \in Datasets, NEW k \in Stages, NEW l \in Stages,
                 <<d, k>> \in todo', l \in StagesOf(d), k < l
          PROVE  <<d, l>> \in todo'
      BY <2>1, <2>2 DEF ItemsOf, Items
    <2> QED
      BY <2>1, <2>2 DEF TodoInv, ItemsOf
  <1>2. CASE StageMerge \/ MergeEnds
    BY <1>2 DEF StageMerge, MergeEnds, optionVars, TodoInv, ItemsOf
  <1>3. ASSUME NEW d \in Datasets, NEW k \in Stages, Stage(d, k)
        PROVE  TodoInv'
    <2>1. CASE StageSkips(d, k) \/ StagePrints(d, k) \/ WriteMarker(d, k)
      BY <2>1, TodoShrinks DEF StageSkips, StagePrints, WriteMarker, optionVars
    <2>2. CASE StageRuns(d, k) \/ ScriptOpens(d, k) \/ ScriptCloses(d, k)
      BY <2>2 DEF StageRuns, ScriptOpens, ScriptCloses, optionVars, TodoInv, ItemsOf
    <2>3. CASE ScriptRaises(d, k)
      BY <2>3 DEF ScriptRaises, Fails, Exits, TodoInv, ItemsOf
    <2> QED
      BY <1>3, <2>1, <2>2, <2>3 DEF Stage
  <1>4. CASE DryRunEnds \/ NaturalEval \/ NaturalEvalRaises \/ Interrupt
    BY <1>4 DEF DryRunEnds, NaturalEval, NaturalEvalRaises, Interrupt, Fails, Exits, TodoInv,
        ItemsOf
  <1>5. CASE UNCHANGED vars
    BY <1>5 DEF vars, optionVars, TodoInv, ItemsOf
  <1> QED
    BY <1>1, <1>2, <1>3, <1>4, <1>5 DEF Next, Proceeds

-----------------------------------------------------------------------------
(* A forced run never raises once it has begun to write.                   *)
LEMMA ForcedLoads ==
    ASSUME WriteInv, TodoInv, ForceInv, Forcing, Begun,
           NEW d \in Datasets, NEW k \in Stages, IsNext(d, k)
    PROVE  CanLoad(d, k) /\ (k # Rollouts => Input(d, k).extent = "all")
  <1>1. merge = "whole"
    BY DEF ForceInv
  <1>2. CASE k = Rollouts
    BY <1>1, <1>2 DEF CanLoad
  <1>3. CASE k # Rollouts
    <2>1. /\ k - 1 \in Stages /\ k - 1 \in StagesOf(d) /\ d \in chosen
          /\ <<d, k - 1>> \notin todo
      BY <1>3, StageNumbers, NextFacts
    <2>2. Input(d, k).extent = "all"
      BY <2>1 DEF ForceInv, Input
    <2> QED
      BY <1>1, <2>2 DEF CanLoad, Readable
  <1> QED
    BY <1>2, <1>3

LEMMA ForceStep ==
    WriteInv /\ TodoInv /\ TodoInv' /\ ForceInv /\ [Next]_vars => ForceInv'
  <1> SUFFICES ASSUME WriteInv, TodoInv, TodoInv', ForceInv, [Next]_vars
               PROVE  ForceInv'
    OBVIOUS
  <1>0. CASE ~Forcing'
    BY <1>0 DEF ForceInv
  <1>1. CASE Start
    <2>1. todo' = ItemsOf(chosen') /\ phase' = "merge" /\ chosen' \subseteq Datasets
      BY <1>1 DEF Start, ItemsOf
    <2>2. ~Begun'
      BY <2>1 DEF Begun, ItemsOf
    <2>3. \A d \in chosen', k \in Stages : k \in StagesOf(d) => <<d, k>> \in todo'
      BY <2>1 DEF ItemsOf, Items
    <2> QED
      BY <2>1, <2>2, <2>3 DEF ForceInv
  <1>2. CASE StageMerge
    <2>1. /\ phase = "merge" /\ phase' \in {"stages", "merging"}
          /\ UNCHANGED <<merge, out, todo, force, dry, chosen>>
      BY <1>2 DEF StageMerge, optionVars
    <2>2. Begun' => Begun
      BY <2>1 DEF Begun, ItemsOf
    <2> QED
      BY <2>1, <2>2 DEF ForceInv, Forcing
  <1>3. CASE MergeEnds
    BY <1>3 DEF MergeEnds, optionVars, ForceInv, Forcing
  <1>4. ASSUME NEW d \in Datasets, NEW k \in Stages, Stage(d, k), Forcing'
        PROVE  ForceInv'
    <2>1. CASE StageSkips(d, k) \/ StagePrints(d, k) \/ ScriptRaises(d, k)
      <3>1. force' /\ ~dry'
        BY <1>4 DEF Forcing
      <3>2. ~StageSkips(d, k)
        BY <3>1 DEF StageSkips, Skips, optionVars
      <3>3. ~StagePrints(d, k)
        <4>1. StagePrints(d, k) => dry /\ dry' = dry
          BY DEF StagePrints, optionVars
        <4> QED
          BY <3>1, <4>1
      <3>4. ~ScriptRaises(d, k)
        BY <3>1 DEF ScriptRaises, Fails, Exits
      <3> QED
        BY <2>1, <3>2, <3>3, <3>4
    <2>2. CASE StageRuns(d, k)
      <3>1. /\ phase = "stages" /\ phase' = "script"
            /\ UNCHANGED <<merge, out, todo, force, dry, chosen>>
        BY <2>2 DEF StageRuns, optionVars
      <3>2. Begun' => Begun
        BY <3>1 DEF Begun, ItemsOf
      <3> QED
        BY <3>1, <3>2 DEF ForceInv, Forcing
    <2>3. CASE ScriptOpens(d, k)
      <3>1. /\ IsNext(d, k) /\ CanLoad(d, k) /\ fresh' = Computed(d, k)
            /\ out' = [out EXCEPT ![d][k] = Empty] /\ phase' = "writing"
            /\ UNCHANGED <<merge, todo, force, dry, chosen>>
        BY <2>3 DEF ScriptOpens, optionVars
      <3>2. Forcing
        BY <1>4, <3>1 DEF Forcing
      <3>3. k # Rollouts => Begun
        BY <3>1, NextFacts DEF Begun
      <3>4. merge = "whole"
        <4>1. k = Rollouts => k # Probe
          BY DEF Rollouts, Probe
        <4> QED
          BY <3>1, <3>2, <3>3, <4>1 DEF CanLoad, ForceInv
      <3>5. fresh'.extent = "all"
        <4>1. CASE k = Rollouts
          BY <3>1, <4>1 DEF Computed
        <4>2. CASE k # Rollouts
          <5>1. Input(d, k).extent = "all"
            BY <3>1, <3>2, <3>3, <4>2, ForcedLoads
          <5>2. Input(d, k) \in Files
            BY <4>2, StageNumbers DEF Input, WriteInv, TypeOK
          <5>3. Computed(d, k).extent = Input(d, k).extent
            BY <4>2, <5>2 DEF Computed, Files
          <5> QED
            BY <3>1, <5>1, <5>3
        <4> QED
          BY <4>1, <4>2
      <3>6. ASSUME NEW e \in chosen, NEW l \in Stages, l \in StagesOf(e), <<e, l>> \notin todo
            PROVE  out'[e][l].extent = "all"
        <4>1. e \in Datasets /\ <<d, k>> \in todo
          BY <3>1, NextFacts DEF TodoInv
        <4>2. out'[e][l] = out[e][l]
          BY <3>1, <3>6, <4>1 DEF WriteInv, TypeOK
        <4> QED
          BY <3>2, <3>6, <4>2 DEF ForceInv
      <3> QED
        BY <3>1, <3>4, <3>5, <3>6 DEF ForceInv
    <2>4. CASE ScriptCloses(d, k)
      <3>1. /\ phase = "writing" /\ IsNext(d, k)
            /\ out' = [out EXCEPT ![d][k] = fresh] /\ phase' = "marking"
            /\ UNCHANGED <<merge, todo, force, dry, chosen>>
        BY <2>4 DEF ScriptCloses, optionVars
      <3>2. Forcing
        BY <1>4, <3>1 DEF Forcing
      <3>3. merge = "whole" /\ fresh.extent = "all"
        BY <3>1, <3>2 DEF ForceInv, Begun
      <3>4. ASSUME NEW e \in chosen, NEW l \in Stages, l \in StagesOf(e), <<e, l>> \notin todo
            PROVE  out'[e][l].extent = "all"
        <4>1. e \in Datasets /\ <<d, k>> \in todo
          BY <3>1, NextFacts DEF TodoInv
        <4>2. out'[e][l] = out[e][l]
          BY <3>1, <3>4, <4>1 DEF WriteInv, TypeOK
        <4> QED
          BY <3>2, <3>4, <4>2 DEF ForceInv
      <3>5. ASSUME NEW e \in Datasets, NEW l \in Stages, IsNext(e, l)'
            PROVE  out'[e][l].extent = "all"
        <4>1. IsNext(e, l)
          BY <3>1, <3>5 DEF IsNext
        <4>2. e = d /\ l = k
          BY <3>1, <4>1, OneIsNext
        <4> QED
          BY <3>1, <3>3, <4>2 DEF WriteInv, TypeOK
      <3> QED
        BY <3>1, <3>3, <3>4, <3>5 DEF ForceInv
    <2>5. CASE WriteMarker(d, k)
      <3>1. /\ phase = "marking" /\ IsNext(d, k) /\ todo' = todo \ {<<d, k>>}
            /\ phase' = "stages" /\ UNCHANGED <<merge, out, force, dry, chosen>>
        BY <2>5 DEF WriteMarker, optionVars
      <3>2. Forcing
        BY <1>4, <3>1 DEF Forcing
      <3>3. merge = "whole" /\ out[d][k].extent = "all"
        BY <3>1, <3>2 DEF ForceInv, Begun
      <3>4. ASSUME NEW e \in chosen, NEW l \in Stages, l \in StagesOf(e), <<e, l>> \notin todo'
            PROVE  out[e][l].extent = "all"
        <4>1. (e = d /\ l = k) \/ <<e, l>> \notin todo
          BY <3>1, <3>4
        <4> QED
          BY <3>2, <3>3, <3>4, <4>1 DEF ForceInv
      <3> QED
        BY <3>1, <3>3, <3>4 DEF ForceInv
    <2> QED
      BY <1>4, <2>1, <2>2, <2>3, <2>4, <2>5 DEF Stage
  <1>5. CASE DryRunEnds \/ NaturalEval \/ NaturalEvalRaises \/ Interrupt
    BY <1>5 DEF DryRunEnds, NaturalEval, NaturalEvalRaises, Interrupt, Fails, Exits, ForceInv,
        Forcing
  <1>6. CASE UNCHANGED vars
    BY <1>6 DEF vars, optionVars, ForceInv, Forcing, Begun, ItemsOf, IsNext
  <1> QED
    BY <1>0, <1>1, <1>2, <1>3, <1>4, <1>5, <1>6 DEF Next, Proceeds

-----------------------------------------------------------------------------
LEMMA FrontOfAppend ==
    ASSUME NEW S, NEW s \in Seq(S), NEW x \in S
    PROVE  Front(Append(s, x)) = s
  <1> DEFINE t == Append(s, x)
  <1>1. /\ t \in Seq(S) /\ Len(t) = Len(s) + 1 /\ Len(s) \in Nat
        /\ \A i \in 1..Len(s) : t[i] = s[i] /\ t[i] \in S
    BY AppendProperties, ElementOfSeq
  <1>2. Front(t) = SubSeq(t, 1, Len(s))
    BY <1>1 DEF Front
  <1> HIDE DEF t
  <1>3. /\ SubSeq(t, 1, Len(s)) \in Seq(S) /\ Len(SubSeq(t, 1, Len(s))) = Len(s)
        /\ \A i \in 1..Len(s) : SubSeq(t, 1, Len(s))[i] = t[i]
    <2>1. /\ SubSeq(t, 1, Len(s)) \in Seq(S)
          /\ Len(SubSeq(t, 1, Len(s))) = IF 1 <= Len(s) THEN Len(s) - 1 + 1 ELSE 0
          /\ \A i \in 1..Len(s) - 1 + 1 : SubSeq(t, 1, Len(s))[i] = t[1 + i - 1]
      BY <1>1, SubSeqProperties
    <2> QED
      BY <1>1, <2>1
  <1>4. SubSeq(t, 1, Len(s)) = s
    BY <1>1, <1>3, SeqEqual
  <1> QED
    BY <1>2, <1>4 DEF t

(* Writing one file moves the match of that file and of the next stage's.  *)
LEMMA OneInput ==
    ASSUME WriteInv, NEW d \in Datasets, NEW k \in Stages, NEW c,
           out' = [out EXCEPT ![d][k] = c],
           NEW e \in Datasets, NEW l \in Stages, l # Rollouts, e # d \/ l - 1 # k
    PROVE  Input(e, l)' = Input(e, l)
  BY StageNumbers DEF Input, WriteInv, TypeOK

LEMMA OneMatch ==
    ASSUME WriteInv, NEW d \in Datasets, NEW k \in Stages, NEW c,
           out' = [out EXCEPT ![d][k] = c],
           NEW e \in Datasets, NEW l \in Stages, Matches(e, l),
           e # d \/ l # k, l # Rollouts => e # d \/ l - 1 # k
    PROVE  Matches(e, l)'
  <1>1. out'[e][l] = out[e][l]
    BY DEF WriteInv, TypeOK
  <1>2. l # Rollouts => Input(e, l)' = Input(e, l)
    BY OneInput
  <1> QED
    BY <1>1, <1>2 DEF Matches, Follows, Nonempty, Empty

(* The stage after one that is written has nothing to match: it has no     *)
(* output, or a forced run will write it again.                            *)
LEMMA LaterStage ==
    ASSUME WriteInv, TodoInv, LineInv, ~forceInterrupted, phase \in {"script", "writing"},
           NEW d \in Datasets, NEW k \in Stages, IsNext(d, k),
           NEW l \in Stages, l # Rollouts, l - 1 = k
    PROVE  out[d][l] = Empty \/ (Forcing /\ <<d, l>> \in todo)
  <1>1. ~dry
    BY DEF TodoInv
  <1>2. CASE force
    <2>1. CASE l \in StagesOf(d)
      <3>1. <<d, l>> \in todo
        BY <2>1, StageNumbers, NextFacts
      <3> QED
        BY <1>1, <1>2, <3>1 DEF Forcing
    <2>2. CASE l \notin StagesOf(d)
      BY <2>2 DEF LineInv
    <2> QED
      BY <2>1, <2>2
  <1>3. CASE ~force
    <2>1. Matches(d, l)
      BY <1>3 DEF LineInv, Redone, Forcing
    <2>2. Input(d, l) = Empty
      BY <1>3 DEF WriteInv, Input
    <2> QED
      BY <2>1, <2>2 DEF Matches, Follows, Nonempty
  <1> QED
    BY <1>2, <1>3

LEMMA LineWrite ==
    ASSUME WriteInv, TodoInv, LineInv, phase \in {"script", "writing"},
           NEW d \in Datasets, NEW k \in Stages, IsNext(d, k), NEW c,
           out' = [out EXCEPT ![d][k] = c],
           ~forceInterrupted' =>
              /\ ~forceInterrupted
              /\ Nonempty(c) => Follows(c.lineage, d, k)
              /\ Forcing => UNCHANGED <<force, dry, todo, chosen>> /\ phase' \in {"writing", "marking"}
    PROVE  /\ \A e \in Datasets, l \in Stages : l \notin StagesOf(e) => out'[e][l] = Empty
           /\ ~forceInterrupted' =>
                \A e \in Datasets, l \in Stages : Redone(e, l)' \/ Matches(e, l)'
  <1>0. /\ out'[d][k] = c
        /\ \A e \in Datasets, l \in Stages : e # d \/ l # k => out'[e][l] = out[e][l]
    BY DEF WriteInv, TypeOK
  <1>1. ASSUME NEW e \in Datasets, NEW l \in Stages, l \notin StagesOf(e)
        PROVE  out'[e][l] = Empty
    BY <1>1, <1>0, NextFacts DEF LineInv
  <1>2. ASSUME ~forceInterrupted', NEW e \in Datasets, NEW l \in Stages
        PROVE  Redone(e, l)' \/ Matches(e, l)'
    <2>1. Forcing /\ <<e, l>> \in todo => Redone(e, l)'
      BY <1>2 DEF Redone, Begun, Forcing
    <2>2. Redone(e, l) => Forcing /\ <<e, l>> \in todo
      BY DEF Redone
    <2>3. CASE e = d /\ l = k
      <3>1. l # Rollouts => Input(e, l)' = Input(e, l)
        <4>1. l # Rollouts => l - 1 # k
          BY <2>3, StageNumbers
        <4> QED
          BY <2>3, <4>1, OneInput
      <3>2. out'[e][l] = c
        BY <2>3, <1>0
      <3> QED
        BY <1>2, <2>3, <3>1, <3>2 DEF Matches, Follows, Nonempty, Empty
    <2>4. CASE e = d /\ l # Rollouts /\ l - 1 = k
      <3>1. out[e][l] = Empty \/ (Forcing /\ <<e, l>> \in todo)
        BY <1>2, <2>4, LaterStage
      <3>2. out'[e][l] = out[e][l]
        <4>1. l # k
          BY <2>4, StageNumbers
        <4> QED
          BY <4>1, <1>0
      <3> QED
        BY <2>1, <3>1, <3>2 DEF Matches, Nonempty, Empty
    <2>5. CASE ~(e = d /\ l = k) /\ ~(e = d /\ l # Rollouts /\ l - 1 = k)
      <3>1. Redone(e, l) \/ Matches(e, l)
        BY <1>2 DEF LineInv
      <3>2. Matches(e, l) => Matches(e, l)'
        BY <2>5, OneMatch
      <3> QED
        BY <2>1, <2>2, <3>1, <3>2
    <2> QED
      BY <2>3, <2>4, <2>5
  <1> QED
    BY <1>1, <1>2

LEMMA LineKept ==
    ASSUME LineInv, UNCHANGED <<out, forceInterrupted>>, phase' \notin {"writing", "marking"},
           ~forceInterrupted =>
             \A e \in Datasets, l \in Stages : Redone(e, l) => Redone(e, l)' \/ Matches(e, l)
    PROVE  LineInv'
  <1>1. \A e \in Datasets, l \in Stages : Matches(e, l)' <=> Matches(e, l)
    BY DEF Matches, Follows, Nonempty, Input, Empty
  <1> QED
    BY <1>1 DEF LineInv, Empty

LEMMA LineStage ==
    ASSUME WriteInv, TodoInv, ForceInv, LineInv,
           NEW d \in Datasets, NEW k \in Stages, Stage(d, k)
    PROVE  LineInv'
  <1>0. UNCHANGED forceInterrupted
    BY DEF Stage, StageSkips, StagePrints, StageRuns, ScriptOpens, ScriptRaises, ScriptCloses,
        WriteMarker, Fails, history
  <1>1. CASE StageSkips(d, k)
    BY <1>1, <1>0, LineKept DEF StageSkips, Skips, Redone, Forcing
  <1>2. CASE StagePrints(d, k)
    BY <1>2, <1>0, LineKept DEF StagePrints, Redone, Forcing
  <1>3. CASE StageRuns(d, k)
    <2>1. /\ phase = "stages" /\ phase' = "script"
          /\ UNCHANGED <<out, todo, force, dry, chosen>>
      BY <1>3 DEF StageRuns, optionVars
    <2>2. \A e \in Datasets, l \in Stages : Redone(e, l) => Redone(e, l)'
      BY <2>1 DEF Redone, Begun, Forcing, ItemsOf
    <2> QED
      BY <1>0, <2>1, <2>2, LineKept
  <1>4. CASE ScriptOpens(d, k)
    <2>1. /\ phase = "script" /\ IsNext(d, k) /\ CanLoad(d, k) /\ fresh' = Computed(d, k)
          /\ out' = [out EXCEPT ![d][k] = Empty] /\ phase' = "writing"
          /\ UNCHANGED <<todo, force, dry, chosen>>
      BY <1>4 DEF ScriptOpens, optionVars
    <2>2. Follows(fresh.lineage, d, k)'
      <3>0. CASE k = Rollouts
        BY <3>0 DEF Follows
      <3>1. CASE k # Rollouts
        <4>2. k - 1 \in Stages /\ k - 1 # k
          BY <3>1, StageNumbers
        <4>3. Input(d, k)' = Input(d, k) /\ Input(d, k) \in Files
          BY <2>1, <3>1, <4>2, OneInput DEF Input, WriteInv, TypeOK
        <4>4. Input(d, k) # Empty
          BY <2>1, <3>1 DEF CanLoad, Readable, Empty
        <4>5. fresh'.lineage = Append(Input(d, k).lineage, run)
          BY <2>1, <3>1, <4>3 DEF Computed, Files
        <4>6. Front(fresh'.lineage) = Input(d, k).lineage
          BY <4>3, <4>5, FrontOfAppend DEF Files, WriteInv, TypeOK
        <4>7. Input(d, k)' # Empty /\ Front(fresh'.lineage) = Input(d, k)'.lineage
          BY <4>3, <4>4, <4>6
        <4> QED
          BY <4>7 DEF Follows, Nonempty, Empty
      <3> QED
        BY <3>0, <3>1
    <2>3. ASSUME NEW e \in Datasets, NEW l \in Stages, IsNext(e, l)'
          PROVE  Follows(fresh.lineage, e, l)'
      <3>1. IsNext(e, l)
        BY <2>1, <2>3 DEF IsNext
      <3>2. e = d /\ l = k
        BY <2>1, <3>1, OneIsNext
      <3> QED
        BY <2>2, <3>2
    <2>4. /\ \A e \in Datasets, l \in Stages : l \notin StagesOf(e) => out'[e][l] = Empty
          /\ ~forceInterrupted' =>
               \A e \in Datasets, l \in Stages : Redone(e, l)' \/ Matches(e, l)'
      BY <1>0, <2>1, LineWrite DEF Nonempty
    <2> QED
      BY <2>1, <2>3, <2>4 DEF LineInv, Empty
  <1>5. CASE ScriptRaises(d, k)
    <2>1. /\ phase = "script" /\ IsNext(d, k) /\ ~CanLoad(d, k) /\ out' = out
          /\ phase' = "idle"
      BY <1>5 DEF ScriptRaises, Fails, Exits
    <2>2. ~(Forcing /\ Begun)
      BY <2>1, ForcedLoads
    <2> QED
      BY <1>0, <2>1, <2>2, LineKept DEF Redone
  <1>6. CASE ScriptCloses(d, k)
    <2>1. /\ phase = "writing" /\ IsNext(d, k)
          /\ out' = [out EXCEPT ![d][k] = fresh] /\ phase' = "marking"
          /\ UNCHANGED <<todo, force, dry, chosen>>
      BY <1>6 DEF ScriptCloses, optionVars
    <2>2. Follows(fresh.lineage, d, k)
      BY <2>1 DEF LineInv
    <2>3. Matches(d, k)'
      <3>1. k # Rollouts => k - 1 # k
        BY StageNumbers
      <3>2. out'[d][k] = fresh
        BY <2>1 DEF WriteInv, TypeOK
      <3>3. k # Rollouts => Input(d, k)' = Input(d, k)
        BY <2>1, <3>1, OneInput
      <3> QED
        BY <2>2, <3>2, <3>3 DEF Matches, Follows, Nonempty, Empty
    <2>4. ASSUME NEW e \in Datasets, NEW l \in Stages, IsNext(e, l)'
          PROVE  Matches(e, l)'
      <3>1. IsNext(e, l)
        BY <2>1, <2>4 DEF IsNext
      <3>2. e = d /\ l = k
        BY <2>1, <3>1, OneIsNext
      <3> QED
        BY <2>3, <3>2
    <2>5. /\ \A e \in Datasets, l \in Stages : l \notin StagesOf(e) => out'[e][l] = Empty
          /\ ~forceInterrupted' =>
               \A e \in Datasets, l \in Stages : Redone(e, l)' \/ Matches(e, l)'
      BY <1>0, <2>1, <2>2, LineWrite
    <2> QED
      BY <2>1, <2>4, <2>5 DEF LineInv, Empty
  <1>7. CASE WriteMarker(d, k)
    <2>1. /\ phase = "marking" /\ IsNext(d, k) /\ todo' = todo \ {<<d, k>>}
          /\ phase' = "stages" /\ UNCHANGED <<out, force, dry, chosen>>
      BY <1>7 DEF WriteMarker, optionVars
    <2>2. Matches(d, k) /\ Begun'
      <3>1. todo' # ItemsOf(chosen')
        BY <2>1, NextFacts
      <3> QED
        BY <2>1, <3>1 DEF LineInv, Begun, ItemsOf
    <2>3. \A e \in Datasets, l \in Stages : Redone(e, l) => Redone(e, l)' \/ Matches(e, l)
      BY <2>1, <2>2 DEF Redone, Forcing
    <2> QED
      BY <1>0, <2>1, <2>3, LineKept
  <1> QED
    BY <1>1, <1>2, <1>3, <1>4, <1>5, <1>6, <1>7 DEF Stage

LEMMA LineInterrupt ==
    ASSUME WriteInv, TodoInv, LineInv, Interrupt
    PROVE  LineInv'
  <1>1. /\ phase' = "idle" /\ forceInterrupted' = (forceInterrupted \/ force)
    BY DEF Interrupt, Exits
  <1>2. CASE phase = "writing"
    <2>1. PICK d \in Datasets, k \in Stages : \E c \in Torn(k) :
            IsNext(d, k) /\ out' = [out EXCEPT ![d][k] = c]
      BY <1>2 DEF Interrupt
    <2>2. PICK c \in Torn(k) : IsNext(d, k) /\ out' = [out EXCEPT ![d][k] = c]
      BY <2>1
    <2>3. Nonempty(c) => c.lineage = fresh.lineage
      BY DEF Torn, Nonempty, WriteInv, TypeOK, Files
    <2>4. Follows(fresh.lineage, d, k)
      BY <1>2, <2>2 DEF LineInv
    <2>5. ~forceInterrupted' => ~forceInterrupted /\ ~Forcing
      BY <1>1 DEF Forcing
    <2>6. /\ \A e \in Datasets, l \in Stages : l \notin StagesOf(e) => out'[e][l] = Empty
          /\ ~forceInterrupted' =>
               \A e \in Datasets, l \in Stages : Redone(e, l)' \/ Matches(e, l)'
      BY <1>2, <2>2, <2>3, <2>4, <2>5, LineWrite
    <2> QED
      BY <1>1, <2>6 DEF LineInv, Empty
  <1>3. CASE phase # "writing"
    <2>1. out' = out
      BY <1>3 DEF Interrupt
    <2>2. \A e \in Datasets, l \in Stages : Matches(e, l)' <=> Matches(e, l)
      BY <2>1 DEF Matches, Follows, Nonempty, Input, Empty
    <2>3. ~forceInterrupted' => ~forceInterrupted /\ ~Forcing
      BY <1>1 DEF Forcing
    <2> QED
      BY <1>1, <2>1, <2>2, <2>3 DEF LineInv, Redone, Empty
  <1> QED
    BY <1>2, <1>3

LEMMA LineStep ==
    WriteInv /\ TodoInv /\ ForceInv /\ LineInv /\ [Next]_vars => LineInv'
  <1> SUFFICES ASSUME WriteInv, TodoInv, ForceInv, LineInv, [Next]_vars
               PROVE  LineInv'
    OBVIOUS
  <1>1. CASE Start
    <2>1. phase = "idle" /\ phase' = "merge" /\ UNCHANGED <<out, forceInterrupted>>
      BY <1>1 DEF Start, history
    <2>2. \A e \in Datasets, l \in Stages : ~Redone(e, l)
      BY <2>1 DEF TodoInv, Redone, Forcing
    <2> QED
      BY <2>1, <2>2, LineKept
  <1>2. CASE StageMerge \/ MergeEnds
    <2>1. /\ phase \in {"merge", "merging"} /\ phase' \in {"stages", "merging"}
          /\ UNCHANGED <<out, forceInterrupted, todo, force, dry, chosen>>
      BY <1>2 DEF StageMerge, MergeEnds, optionVars, history
    <2>2. \A e \in Datasets, l \in Stages : Redone(e, l) => Redone(e, l)'
      BY <2>1 DEF Redone, Begun, Forcing, ItemsOf
    <2> QED
      BY <2>1, <2>2, LineKept
  <1>3. ASSUME NEW d \in Datasets, NEW k \in Stages, Stage(d, k)
        PROVE  LineInv'
    BY <1>3, LineStage
  <1>4. CASE DryRunEnds \/ NaturalEval \/ NaturalEvalRaises
    <2>1. todo = {} /\ phase' = "idle" /\ UNCHANGED <<out, forceInterrupted>>
      BY <1>4 DEF DryRunEnds, NaturalEval, NaturalEvalRaises, AllStagesDone, Fails, Exits,
          history
    <2> QED
      BY <2>1, LineKept DEF Redone
  <1>5. CASE Interrupt
    BY <1>5, LineInterrupt
  <1>6. CASE UNCHANGED vars
    <2>1. UNCHANGED <<phase, fresh, out, forceInterrupted, todo, force, dry, chosen>>
      BY <1>6 DEF vars, optionVars, history
    <2> QED
      BY <2>1 DEF LineInv, Redone, Begun, Forcing, ItemsOf, IsNext, Matches, Follows, Nonempty,
         Input, Empty
  <1> QED
    BY <1>1, <1>2, <1>3, <1>4, <1>5, <1>6 DEF Next, Proceeds


-----------------------------------------------------------------------------
LEMMA WholeStep == WriteInv /\ WholeInv /\ [Next]_vars => WholeInv'
  <1> SUFFICES ASSUME WriteInv, WholeInv, [Next]_vars
               PROVE  WholeInv'
    OBVIOUS
  <1>1. CASE Interrupt
    BY <1>1 DEF Interrupt, WholeInv
  <1>2. CASE UNCHANGED <<out, interrupts>> /\ fresh' \in {fresh, Empty}
    BY <1>2 DEF WholeInv, Empty
  <1>3. ASSUME NEW d \in Datasets, NEW k \in Stages, ScriptOpens(d, k)
        PROVE  WholeInv'
    <2>1. /\ fresh' = Computed(d, k) /\ interrupts' = interrupts
          /\ out' = [out EXCEPT ![d][k] = Empty]
      BY <1>3 DEF ScriptOpens, history
    <2>2. ASSUME interrupts = 0
          PROVE  Computed(d, k).extent \in {"none", "all"}
      <3>1. CASE k = Rollouts
        BY <3>1 DEF Computed
      <3>2. CASE k # Rollouts
        <4>1. /\ Input(d, k) \in Files /\ Input(d, k).extent \in {"none", "all"}
          BY <2>2, <3>2, StageNumbers DEF Input, WholeInv, WriteInv, TypeOK
        <4>2. Computed(d, k).extent = Input(d, k).extent
          BY <3>2, <4>1 DEF Computed, Files
        <4> QED
          BY <4>1, <4>2
      <3> QED
        BY <3>1, <3>2
    <2>3. ASSUME interrupts = 0, NEW e \in Datasets, NEW l \in Stages
          PROVE  out'[e][l].extent \in {"none", "all"}
      <3>1. out'[e][l] = Empty \/ out'[e][l] = out[e][l]
        BY <2>1 DEF WriteInv, TypeOK
      <3> QED
        BY <2>3, <3>1 DEF WholeInv, Empty
    <2> QED
      BY <2>1, <2>2, <2>3 DEF WholeInv
  <1>4. ASSUME NEW d \in Datasets, NEW k \in Stages, ScriptCloses(d, k)
        PROVE  WholeInv'
    <2>1. /\ fresh' = Empty /\ interrupts' = interrupts
          /\ out' = [out EXCEPT ![d][k] = fresh]
      BY <1>4 DEF ScriptCloses, history
    <2>2. ASSUME interrupts = 0, NEW e \in Datasets, NEW l \in Stages
          PROVE  out'[e][l].extent \in {"none", "all"}
      <3>1. out'[e][l] = fresh \/ out'[e][l] = out[e][l]
        BY <2>1 DEF WriteInv, TypeOK
      <3> QED
        BY <2>2, <3>1 DEF WholeInv
    <2> QED
      BY <2>1, <2>2 DEF WholeInv, Empty
  <1>5. \/ UNCHANGED <<out, interrupts>> /\ fresh' \in {fresh, Empty}
        \/ Interrupt
        \/ \E d \in Datasets, k \in Stages : ScriptOpens(d, k) \/ ScriptCloses(d, k)
    BY DEF Next, Proceeds, Start, StageMerge, MergeEnds, Stage, StageSkips, StagePrints,
       StageRuns, ScriptRaises, WriteMarker, DryRunEnds, NaturalEval, NaturalEvalRaises,
       Fails, Exits, history, vars
  <1> QED
    BY <1>1, <1>2, <1>3, <1>4, <1>5

(* The step that writes results.json finds every output computed from the  *)
(* one before it: nothing is left to be written again.                     *)
LEMMA NaturalEvalSound ==
    ASSUME WriteInv, TodoInv, LineInv, WholeInv, NaturalEval
    PROVE  ResultsSound'
  <1>1. /\ todo = {} /\ CanReport /\ chosen \subseteq Datasets
        /\ results' = [run |-> run, inputs |-> [d \in chosen |-> out[d]],
                       probe |-> out[ProbeDataset][Probe]]
        /\ UNCHANGED <<interrupts, forceInterrupted>>
    BY DEF NaturalEval, AllStagesDone, history, TodoInv
  <1>2. /\ DOMAIN results'.inputs = chosen
        /\ \A d \in chosen : results'.inputs[d] = out[d]
        /\ results'.probe = out[ProbeDataset][Probe]
    BY <1>1
  <1>3. ASSUME ~forceInterrupted, NEW d \in Datasets, NEW k \in Stages, k # Rollouts,
               Readable(out[d][k])
        PROVE  Front(out[d][k].lineage) = out[d][k - 1].lineage
    <2>1. Matches(d, k)
      BY <1>1, <1>3 DEF LineInv, Redone
    <2>2. Nonempty(out[d][k])
      BY <1>3 DEF Readable, Nonempty, Empty
    <2> QED
      BY <1>3, <2>1, <2>2 DEF Matches, Follows, Input
  <1>4. ASSUME NEW d \in chosen
        PROVE  SameLineage(d)' \/ forceInterrupted'
    <2>1. ASSUME ~forceInterrupted, NEW k \in StagesOf(d) \ {Rollouts, Probe}
          PROVE  Front(out[d][k].lineage) = out[d][k - 1].lineage
      <3>1. Readable(out[d][k])
        BY <1>1 DEF CanReport, ReportInputs
      <3> QED
        BY <1>1, <1>3, <2>1, <3>1, StageNumbers
    <2> QED
      BY <1>1, <1>2, <2>1 DEF SameLineage
  <1>5. ASSUME NEW d \in chosen
        PROVE  Whole(d)' \/ interrupts' > 0
    <2>1. ASSUME interrupts = 0, NEW k \in StagesOf(d) \ {Probe}
          PROVE  out[d][k].extent = "all"
      <3>1. Readable(out[d][k])
        BY <1>1 DEF CanReport, ReportInputs
      <3> QED
        BY <1>1, <2>1, <3>1, StageNumbers DEF Readable, WholeInv
    <2>2. interrupts = 0 \/ interrupts > 0
      BY DEF WholeInv
    <2> QED
      BY <1>1, <1>2, <2>1, <2>2 DEF Whole
  <1>6. ASSUME ProbeDataset \in chosen, ~Rlcr, ~forceInterrupted
        PROVE  Front(out[ProbeDataset][Probe].lineage) = out[ProbeDataset][Hidden].lineage
    <2>1. /\ Probe \in Stages /\ Probe # Rollouts /\ Probe - 1 = Hidden
      BY DEF Stages, Probe, Rollouts, Hidden
    <2>2. Readable(out[ProbeDataset][Probe])
      BY <1>1, <1>6 DEF CanReport
    <2> QED
      BY <1>1, <1>3, <1>6, <2>1, <2>2
  <1> QED
    BY <1>1, <1>2, <1>4, <1>5, <1>6 DEF ResultsSound

LEMMA ResultsStep == ResultsInv /\ [Next]_vars => ResultsSound'
  <1> SUFFICES ASSUME ResultsInv, [Next]_vars
               PROVE  ResultsSound'
    OBVIOUS
  <1>1. CASE NaturalEval
    BY <1>1, NaturalEvalSound DEF ResultsInv
  <1>2. CASE ~NaturalEval
    <2>1. /\ results' = results /\ (forceInterrupted => forceInterrupted')
          /\ interrupts' \in {interrupts, interrupts + 1}
      <3>1. CASE Interrupt
        BY <3>1 DEF Interrupt
      <3>2. ASSUME NEW d \in Datasets, NEW k \in Stages, Stage(d, k)
            PROVE  UNCHANGED <<results, history>>
        BY <3>2 DEF Stage, StageSkips, StagePrints, StageRuns, ScriptOpens, ScriptCloses,
           ScriptRaises, WriteMarker, Fails, Exits
      <3>3. CASE Start \/ StageMerge \/ MergeEnds \/ DryRunEnds \/ NaturalEvalRaises
        BY <3>3 DEF Start, StageMerge, MergeEnds, DryRunEnds, NaturalEvalRaises, Fails,
           history
      <3>4. CASE UNCHANGED vars
        BY <3>4 DEF vars, history
      <3> QED
        BY <1>2, <3>1, <3>2, <3>3, <3>4 DEF Next, Proceeds, history
    <2>2. interrupts > 0 => interrupts' > 0
      BY <2>1 DEF ResultsInv, WholeInv
    <2> QED
      BY <2>1, <2>2 DEF ResultsInv, ResultsSound, SameLineage, Whole
  <1> QED
    BY <1>1, <1>2

LEMMA InitResultsInv == Init => ResultsInv
  <1> SUFFICES ASSUME Init
               PROVE  ResultsInv
    OBVIOUS
  <1>1. WriteInv
    BY InitWriteInv
  <1>2. TodoInv /\ ForceInv /\ WholeInv
    BY DEF Init, TodoInv, ForceInv, WholeInv, Forcing, ItemsOf, Empty
  <1>3. LineInv
    BY DEF Init, LineInv, Matches, Nonempty
  <1>4. ResultsSound
    <2>1. DOMAIN results.inputs = {}
      BY DEF Init
    <2> QED
      BY <2>1 DEF ResultsSound
  <1> QED
    BY <1>1, <1>2, <1>3, <1>4 DEF ResultsInv

(* ResultsSound: for any datasets, runs, options and interruptions, what   *)
(* results.json is computed from (evaluate.py, stage_natural_eval) are     *)
(* outputs of one lineage and whole ones, except where an interrupted      *)
(* --force run or a torn write is to blame.                                *)
THEOREM ResultsAreSound == Spec => []ResultsSound
  <1>1. ResultsInv /\ [Next]_vars => ResultsInv'
    BY NextWriteInv, TodoStep, ForceStep, LineStep, WholeStep, ResultsStep DEF ResultsInv
  <1>2. ResultsInv => ResultsSound
    BY DEF ResultsInv
  <1> QED
    BY InitResultsInv, <1>1, <1>2, PTL DEF Spec

=============================================================================
