---------------------------- MODULE EvalPipeline ----------------------------
(***************************************************************************)
(* evaluate.py: the resumable evaluation of a checkpoint.  One run merges  *)
(* the checkpoint, then for each chosen dataset executes up to four stages *)
(* (rollouts, budget_eval, hidden, probe), each a script that reads the    *)
(* output of the stage before it and rewrites its own output file, and at  *)
(* last computes results.json from all of them.                            *)
(*                                                                         *)
(* Only files outlive a run.  A run may be killed, or one of its scripts   *)
(* may fail, anywhere; outputs are opened for writing in place, so that an *)
(* interrupted write leaves an empty file, one that ends in the middle of  *)
(* a record ("cut": its readers raise) or, for the line-based outputs, one *)
(* that ends after a record ("short": its readers do not notice).          *)
(* The next run may be started with any options.                           *)
(*                                                                         *)
(* An output's lineage lists the runs that produced it: the run of the     *)
(* rollouts first, then that of each stage up to this one.                 *)
(***************************************************************************)
EXTENDS Naturals, Sequences, FiniteSets, SequencesExt

CONSTANTS
    Datasets,           \* 1..n, in the order of the sorted config files
    ProbeDataset,       \* --probe_dataset
    Rlcr,               \* --mode rlcr (no hidden states, no probe)
    MergedAlready,      \* --ckpt is an HF directory
    MaxRuns,            \* bound on the number of runs
    MaxInterrupts       \* bound on the number of interrupted runs

ASSUME DatasetsAssumption == Datasets \subseteq Nat /\ ProbeDataset \in Datasets
ASSUME ModeAssumption == Rlcr \in BOOLEAN /\ MergedAlready \in BOOLEAN
ASSUME BoundsAssumption == MaxRuns \in Nat /\ MaxInterrupts \in Nat

VARIABLES
    merge,              \* merge/: "none", "dir", "config" only, or "whole"
    out,                \* out[d][k]: the output file of stage k of dataset d
    marker,             \* the .<stage>.done files there are
    results,            \* what results.json was computed from
    run, phase,         \* number of the current (or last) run; where it stands
    force, dry, skip, chosen,   \* its options
    todo,               \* stages it has not come to yet
    fresh,              \* what the current script is about to write
    interrupts, forceInterrupted    \* history of interruptions

optionVars == <<run, force, dry, skip, chosen>>
history == <<interrupts, forceInterrupted>>
vars == <<merge, out, marker, results, phase, optionVars, todo, fresh, history>>

Rollouts == 1
BudgetEval == 2
Hidden == 3
Probe == 4
Stages == Rollouts..Probe

StagesOf(d) ==
    Rollouts .. IF Rlcr THEN BudgetEval
                ELSE IF d = ProbeDataset THEN Probe ELSE Hidden

Items == {<<d, k>> : d \in Datasets, k \in Stages}

(* A missing or an empty file: _nonempty tells neither from the other.     *)
Empty == [lineage |-> << >>, extent |-> "none"]
Files == [lineage : Seq(Nat), extent : {"none", "all", "short", "cut"}]

Nonempty(c) == c # Empty
Readable(c) == c.extent \in {"all", "short"}

TypeOK ==
    /\ out \in [Datasets -> [Stages -> Files]] /\ fresh \in Files
    /\ marker \subseteq Items /\ todo \subseteq Items
    /\ run \in Nat
    /\ phase \in {"idle", "merge", "merging", "stages", "script", "writing", "marking"}

Init ==
    /\ merge = IF MergedAlready THEN "whole" ELSE "none"
    /\ out = [d \in Datasets |-> [k \in Stages |-> Empty]]
    /\ marker = {}
    /\ results = [run |-> 0, inputs |-> << >>, probe |-> Empty]
    /\ run = 0 /\ phase = "idle"
    /\ force = FALSE /\ dry = FALSE /\ skip = FALSE /\ chosen = {}
    /\ todo = {} /\ fresh = Empty
    /\ interrupts = 0 /\ forceInterrupted = FALSE

-----------------------------------------------------------------------------
(* A run starts with the options its user chose.                           *)
Start ==
    /\ phase = "idle" /\ run < MaxRuns
    /\ run' = run + 1
    /\ force' \in BOOLEAN /\ dry' \in BOOLEAN /\ skip' \in BOOLEAN
    /\ chosen' \in SUBSET Datasets \ {{}}
    /\ todo' = {i \in Items : i[1] \in chosen' /\ i[2] \in StagesOf(i[1])}
    /\ phase' = "merge"
    /\ UNCHANGED <<merge, out, marker, results, fresh, history>>

(* The process is gone, and its memory with it.                            *)
Exits ==
    /\ phase' = "idle" /\ todo' = {} /\ fresh' = Empty
    /\ force' = FALSE /\ dry' = FALSE /\ skip' = FALSE /\ chosen' = {}
    /\ UNCHANGED <<marker, run>>

(* It ends without results: main() returns early, or an exception reaches it. *)
Fails == Exits /\ UNCHANGED <<merge, out, results, history>>

(* stage_merge: what is there is used, whoever made it; --force is not     *)
(* asked.                                                                  *)
MergeReused == merge \in {"config", "whole"} \/ (skip /\ merge # "none")

StageMerge ==
    /\ phase = "merge"
    /\ phase' = IF MergeReused \/ dry THEN "stages" ELSE "merging"
    /\ UNCHANGED <<merge, out, marker, results, optionVars, todo, fresh, history>>

MergeEnds ==
    /\ phase = "merging"
    /\ merge' = "whole"
    /\ phase' = "stages"
    /\ UNCHANGED <<out, marker, results, optionVars, todo, fresh, history>>

-----------------------------------------------------------------------------
(* The stages, dataset by dataset.                                         *)
IsNext(d, k) ==
    /\ <<d, k>> \in todo
    /\ \A i \in todo : d < i[1] \/ (d = i[1] /\ k <= i[2])

Input(d, k) == out[d][k - 1]

(* _is_done: non-empty output counts, and its marker is backfilled.        *)
MarkerSuffices(d, k) == <<d, k>> \in marker
IsDone(d, k) == Nonempty(out[d][k])
Backfilled(d, k) == IF Nonempty(out[d][k]) THEN {<<d, k>>} ELSE {}

NeverSkips(d, k) == FALSE
SkipsForcedDerived(d, k) == IsDone(d, k) /\ (force => k # Rollouts)
Skips(d, k) == IsDone(d, k) /\ ~force

(* The check of the input that every stage but the first starts with.  It  *)
(* would raise, but never has to: InputsReady, proved in                   *)
(* EvalPipelineProofs, so there is no action for it.                       *)
InputMissing(d, k) == ~dry /\ k # Rollouts /\ ~Nonempty(Input(d, k))

StageSkips(d, k) ==
    /\ phase = "stages" /\ IsNext(d, k)
    /\ ~InputMissing(d, k) /\ Skips(d, k)
    /\ marker' = marker \cup Backfilled(d, k)
    /\ todo' = todo \ {<<d, k>>}
    /\ UNCHANGED <<merge, out, results, phase, optionVars, fresh, history>>

(* --dry_run executes nothing, but writes the marker.                      *)
StagePrints(d, k) ==
    /\ phase = "stages" /\ IsNext(d, k)
    /\ dry /\ ~Skips(d, k)
    /\ marker' = marker \cup {<<d, k>>}
    /\ todo' = todo \ {<<d, k>>}
    /\ UNCHANGED <<merge, out, results, phase, optionVars, fresh, history>>

StageRuns(d, k) ==
    /\ phase = "stages" /\ IsNext(d, k)
    /\ ~dry /\ ~InputMissing(d, k) /\ ~Skips(d, k)
    /\ marker' = marker \cup Backfilled(d, k)
    /\ phase' = "script"
    /\ UNCHANGED <<merge, out, results, optionVars, todo, fresh, history>>

(* The script of stage k: all but the probe's load the merged model, all   *)
(* but the first read the stage before; the output is computed in memory.  *)
CanLoad(d, k) ==
    /\ k # Probe => merge = "whole"
    /\ k # Rollouts => Readable(Input(d, k))

Computed(d, k) ==
    IF k = Rollouts THEN [lineage |-> <<run>>, extent |-> "all"]
    ELSE [Input(d, k) EXCEPT !.lineage = Append(@, run)]

ScriptOpens(d, k) ==
    /\ phase = "script" /\ IsNext(d, k)
    /\ CanLoad(d, k)
    /\ fresh' = Computed(d, k)
    /\ out' = [out EXCEPT ![d][k] = Empty]
    /\ phase' = "writing"
    /\ UNCHANGED <<merge, marker, results, optionVars, todo, history>>

ScriptRaises(d, k) ==
    /\ phase = "script" /\ IsNext(d, k)
    /\ ~CanLoad(d, k)
    /\ Fails

ScriptCloses(d, k) ==
    /\ phase = "writing" /\ IsNext(d, k)
    /\ out' = [out EXCEPT ![d][k] = fresh]
    /\ fresh' = Empty
    /\ phase' = "marking"
    /\ UNCHANGED <<merge, marker, results, optionVars, todo, history>>

WriteMarker(d, k) ==
    /\ phase = "marking" /\ IsNext(d, k)
    /\ marker' = marker \cup {<<d, k>>}
    /\ todo' = todo \ {<<d, k>>}
    /\ phase' = "stages"
    /\ UNCHANGED <<merge, out, results, optionVars, fresh, history>>

Stage(d, k) ==
    \/ StageSkips(d, k) \/ StagePrints(d, k) \/ StageRuns(d, k)
    \/ ScriptOpens(d, k) \/ ScriptRaises(d, k) \/ ScriptCloses(d, k)
    \/ WriteMarker(d, k)

-----------------------------------------------------------------------------
(* Stage 5 reads every output of the chosen datasets, and the probe.       *)
ReportInputs(d) == {out[d][k] : k \in StagesOf(d) \ {Probe}}

CanReport ==
    /\ \A d \in chosen : \A c \in ReportInputs(d) : Readable(c)
    /\ ~Rlcr => ProbeDataset \in chosen /\ Readable(out[ProbeDataset][Probe])

AllStagesDone == phase = "stages" /\ todo = {}

DryRunEnds ==
    /\ AllStagesDone /\ dry
    /\ Fails

NaturalEval ==
    /\ AllStagesDone /\ ~dry /\ CanReport
    /\ results' = [run |-> run, inputs |-> [d \in chosen |-> out[d]],
                   probe |-> out[ProbeDataset][Probe]]
    /\ Exits
    /\ UNCHANGED <<merge, out, history>>

NaturalEvalRaises ==
    /\ AllStagesDone /\ ~dry /\ ~CanReport
    /\ Fails

(* The process is killed or the current script fails.                      *)
TornMerge == IF phase = "merging" THEN {merge, "dir", "config"} ELSE {merge}

Torn(k) ==
    {Empty, [fresh EXCEPT !.extent = "cut"]}
      \cup IF k \in {Rollouts, BudgetEval} THEN {[fresh EXCEPT !.extent = "short"]}
           ELSE {}

Interrupt ==
    /\ phase # "idle" /\ interrupts < MaxInterrupts
    /\ merge' \in TornMerge
    /\ IF phase = "writing"
       THEN \E d \in Datasets, k \in Stages : \E c \in Torn(k) :
              IsNext(d, k) /\ out' = [out EXCEPT ![d][k] = c]
       ELSE UNCHANGED out
    /\ interrupts' = interrupts + 1
    /\ forceInterrupted' = (forceInterrupted \/ force)
    /\ Exits
    /\ UNCHANGED results

Proceeds ==
    \/ StageMerge \/ MergeEnds
    \/ \E d \in Datasets, k \in Stages : Stage(d, k)
    \/ DryRunEnds \/ NaturalEval \/ NaturalEvalRaises

Next == Start \/ Proceeds \/ Interrupt

(* A run that is not interrupted goes on.  Starting one is the user's      *)
(* choice.                                                                 *)
Spec == Init /\ [][Next]_vars /\ WF_vars(Proceeds)

-----------------------------------------------------------------------------
(* The results of one dataset are computed from outputs of one lineage:    *)
(* correctness comes from the rollouts, the truncation points from         *)
(* budget_eval and the confidence from the hidden states, matched by index. *)
SameLineage(d) ==
    \A k \in StagesOf(d) \ {Rollouts, Probe} :
        Front(results.inputs[d][k].lineage) = results.inputs[d][k - 1].lineage

Whole(d) == \A k \in StagesOf(d) \ {Probe} : results.inputs[d][k].extent = "all"

(* Caching never mixes outputs: whatever sequence of partial, forced and   *)
(* dry runs there was, the numbers in results.json come from matching      *)
(* outputs and the probe from complete hidden states, unless a --force run *)
(* was interrupted (mixed) or a write was torn (incomplete).               *)
ResultsSound ==
    \A d \in DOMAIN results.inputs :
        /\ SameLineage(d) \/ forceInterrupted
        /\ Whole(d) \/ interrupts > 0
        /\ ProbeDataset \in DOMAIN results.inputs /\ ~Rlcr /\ ~forceInterrupted =>
             Front(results.probe.lineage) = results.inputs[ProbeDataset][Hidden].lineage

(* Expensive outputs are kept: without --force no run, interrupted or not, *)
(* touches an output that is there.                                        *)
FinishedKept ==
    [][\A d \in Datasets, k \in Stages :
         Nonempty(out[d][k]) /\ ~force => out'[d][k] = out[d][k]]_vars

(* No stage meets a missing input: the stage before it, skipped or run,    *)
(* has left an output, whatever markers and files earlier runs left and    *)
(* wherever they were interrupted.                                         *)
InputsReady ==
    \A d \in Datasets, k \in Stages :
        phase = "stages" /\ IsNext(d, k) => ~InputMissing(d, k)

Damaged ==
    \/ merge \in {"dir", "config"}
    \/ ~force /\ \E d \in Datasets, k \in Stages : out[d][k].extent = "cut"

(* Resumption works: a run over all datasets ends with results, whatever   *)
(* is missing, left over or marked from earlier runs, if it is not         *)
(* interrupted again and nothing unreadable is in its way.                 *)
Completes ==
    \A r \in 1..MaxRuns, n \in 0..MaxInterrupts :
        (/\ run = r /\ phase = "merge" /\ interrupts = n
         /\ chosen = Datasets /\ ~dry /\ ~Damaged)
          ~> (results.run = r \/ interrupts > n)

=============================================================================
