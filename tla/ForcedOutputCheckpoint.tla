----------------------- MODULE ForcedOutputCheckpoint -----------------------
(***************************************************************************)
(* Checkpoints of the RLCM trainer (ForcedOutputTrainer on top of          *)
(* RayPPOTrainer): what is on disk while a checkpoint is saved piece by    *)
(* piece, and what a restart after a crash makes of it.                    *)
(*                                                                         *)
(* A checkpoint is a folder global_step_s with the actor's shards, the     *)
(* dataloader's state (data.pt) and the probe (probe.pt); the tracker file *)
(* latest_checkpointed_iteration.txt names the one to resume from.  Every  *)
(* file is opened in place, so that a crash may leave it torn.             *)
(*                                                                         *)
(* Actor, dataloader and probe move one step further in every training     *)
(* step.  Their states are told apart by their history: the number of the  *)
(* run in which each of their steps was made, <<1, 1, 2>> for two steps    *)
(* made in the first run and one in the second.                            *)
(***************************************************************************)
EXTENDS Integers, Sequences, FiniteSets, Functions

CONSTANTS
    LastStep,           \* total_training_steps = steps per epoch * epochs
    SaveFreq,           \* trainer.save_freq
    KeepLimits,         \* values of trainer.max_actor_ckpt_to_keep, 0 for null
    MaxRuns             \* bound on the number of runs, hence of crashes

ASSUME StepsAssumption == LastStep \in Nat \ {0} /\ SaveFreq \in Nat \ {0}
ASSUME KeepAssumption == KeepLimits \subseteq Nat /\ MaxRuns \in Nat

VARIABLES
    max_ckpt_to_keep,                   \* in the configuration of all runs
    (* on disk *)
    actor_file, data_file, probe_file,  \* by step of their folder
    tracker,                            \* a step, or NoTracker, or TornTracker
    (* in the trainer process *)
    phase, resume_mode, global_steps,
    actor, data, probe,                 \* the live states
    previous_saved_paths,               \* of the actor's checkpoint manager
    (* history *)
    run,                                \* number of the current or last run
    rewriting,          \* some run ignored the checkpoints there are
    probe_lost          \* a crash hit between the tracker and the probe

files == <<actor_file, data_file, probe_file>>
live == <<global_steps, actor, data, probe>>
history == <<run, rewriting, probe_lost>>
vars == <<max_ckpt_to_keep, files, tracker, phase, resume_mode, live, previous_saved_paths,
          history>>

Steps == 1..LastStep
NoTracker == 0
TornTracker == -1

Missing == [state |-> "missing", holds |-> << >>]
Torn == [state |-> "torn", holds |-> << >>]
Whole(h) == [state |-> "whole", holds |-> h]
Mixed == <<0>>          \* shards of two different saves
DiskFiles == [state : {"missing", "torn", "whole"}, holds : Seq(Nat)]

TypeOK ==
    /\ max_ckpt_to_keep \in KeepLimits
    /\ actor_file \in [Steps -> DiskFiles]
    /\ data_file \in [Steps -> DiskFiles]
    /\ probe_file \in [Steps -> DiskFiles]
    /\ tracker \in Steps \cup {NoTracker, TornTracker}
    /\ phase \in {"idle", "loading", "training", "capacity", "actor", "data",
                  "tracker", "probe"}
    /\ global_steps \in 0..LastStep
    /\ actor \in Seq(Nat) /\ data \in Seq(Nat) /\ probe \in Seq(Nat)
    /\ previous_saved_paths \in Seq(Steps)
    /\ run \in Nat

Init ==
    /\ max_ckpt_to_keep \in KeepLimits
    /\ actor_file = [s \in Steps |-> Missing]
    /\ data_file = [s \in Steps |-> Missing]
    /\ probe_file = [s \in Steps |-> Missing]
    /\ tracker = NoTracker
    /\ phase = "idle" /\ resume_mode = "auto"
    /\ global_steps = 0 /\ actor = << >> /\ data = << >> /\ probe = << >>
    /\ previous_saved_paths = << >>
    /\ run = 0 /\ rewriting = FALSE /\ probe_lost = FALSE

-----------------------------------------------------------------------------
(* A run begins, with resume_mode "auto" or "disable".                     *)
Start ==
    /\ phase = "idle" /\ run < MaxRuns
    /\ phase' = "loading"
    /\ resume_mode' \in {"auto", "disable"}
    /\ run' = run + 1
    /\ rewriting' = (rewriting \/ (resume_mode' = "disable" /\ tracker # NoTracker))
    /\ UNCHANGED <<max_ckpt_to_keep, files, tracker, live, previous_saved_paths, probe_lost>>

(* The process ends, by an exception or by a kill.                         *)
Dies ==
    /\ phase' = "idle" /\ resume_mode' = "auto"
    /\ global_steps' = 0 /\ actor' = << >> /\ data' = << >> /\ probe' = << >>
    /\ previous_saved_paths' = << >>

-----------------------------------------------------------------------------
(* _load_checkpoint and _try_load_probe_checkpoint.  A named folder always *)
(* exists: it is made before the tracker names it and never removed.       *)
FromScratch == resume_mode = "disable" \/ tracker = NoTracker

CanLoad(s) ==
    /\ actor_file[s].state = "whole"
    /\ data_file[s].state # "torn"
    /\ probe_file[s].state # "torn"

StartsFresh ==
    /\ phase = "loading" /\ FromScratch
    /\ phase' = "training"
    /\ UNCHANGED <<max_ckpt_to_keep, files, tracker, resume_mode, live, previous_saved_paths,
                   history>>

(* A missing data.pt or probe.pt holds nothing: start from scratch.        *)
Resumes ==
    /\ phase = "loading" /\ ~FromScratch
    /\ tracker # TornTracker /\ CanLoad(tracker)
    /\ phase' = "training"
    /\ global_steps' = tracker
    /\ actor' = actor_file[tracker].holds
    /\ data' = data_file[tracker].holds
    /\ probe' = probe_file[tracker].holds
    /\ UNCHANGED <<max_ckpt_to_keep, files, tracker, resume_mode, previous_saved_paths, history>>

(* int("") on an empty tracker, or torch.load on a file that is not whole. *)
LoadRaises ==
    /\ phase = "loading" /\ ~FromScratch
    /\ tracker # TornTracker => ~CanLoad(tracker)
    /\ Dies
    /\ UNCHANGED <<max_ckpt_to_keep, files, tracker, history>>

-----------------------------------------------------------------------------
(* One iteration of fit(): a batch, the probe's and the actor's update,    *)
(* and the decision to save, also because the machine is about to expire.  *)
SaveDue(step, expiring) == step = LastStep \/ step % SaveFreq = 0 \/ expiring

LastStepDone == global_steps = LastStep

TrainStep ==
    /\ phase = "training" /\ ~LastStepDone
    /\ global_steps' = global_steps + 1
    /\ data' = Append(data, run)
    /\ probe' = Append(probe, run)
    /\ actor' = Append(actor, run)
    /\ \E expiring \in BOOLEAN :
         phase' = IF SaveDue(global_steps', expiring) THEN "capacity" ELSE "training"
    /\ UNCHANGED <<max_ckpt_to_keep, files, tracker, resume_mode, previous_saved_paths, history>>

FitEnds ==
    /\ phase = "training" /\ LastStepDone
    /\ Dies
    /\ UNCHANGED <<max_ckpt_to_keep, files, tracker, history>>

-----------------------------------------------------------------------------
(* _save_checkpoint.  The manager removes the actors of all but the newest *)
(* n paths it remembers.                                                   *)
Newest(paths, n) ==
    IF Len(paths) <= n THEN paths ELSE SubSeq(paths, Len(paths) - n + 1, Len(paths))

RemovesNewest(paths, n) ==
    IF Len(paths) <= n THEN {} ELSE Range(SubSeq(paths, n + 1, Len(paths)))
Removed(paths, n) == Range(paths) \ Range(Newest(paths, n))

Without(removed) == [s \in Steps |-> IF s \in removed THEN Missing ELSE actor_file[s]]

(* The pieces of a save, in the order they are written.                    *)
TrackerBeforeData(piece) ==
    CASE piece = "actor" -> "tracker" [] piece = "tracker" -> "data"
      [] piece = "data" -> "probe"    [] piece = "probe" -> "training"
NextPiece(piece) ==
    CASE piece = "actor" -> "data"    [] piece = "data" -> "tracker"
      [] piece = "tracker" -> "probe" [] piece = "probe" -> "training"

(* ensure_checkpoint_capacity, before anything is written.                 *)
CapacityFromOneOn ==
    IF max_ckpt_to_keep > 0 THEN max_ckpt_to_keep - 1 ELSE Len(previous_saved_paths)
CapacityBeforeSave ==
    IF max_ckpt_to_keep > 1 THEN max_ckpt_to_keep - 1 ELSE Len(previous_saved_paths)

EnsureCapacity ==
    /\ phase = "capacity"
    /\ previous_saved_paths' = Newest(previous_saved_paths, CapacityBeforeSave)
    /\ actor_file' = Without(Removed(previous_saved_paths, CapacityBeforeSave))
    /\ phase' = "actor"
    /\ UNCHANGED <<max_ckpt_to_keep, data_file, probe_file, tracker, resume_mode, live, history>>

(* The last shard is written; register_checkpoint.                         *)
ActorSaved ==
    /\ phase = "actor"
    /\ LET paths == Append(previous_saved_paths, global_steps)
           capacity == IF max_ckpt_to_keep > 0 THEN max_ckpt_to_keep ELSE Len(paths)
       IN  /\ previous_saved_paths' = Newest(paths, capacity)
           /\ actor_file' = [Without(Removed(paths, capacity))
                                EXCEPT ![global_steps] = Whole(actor)]
    /\ phase' = NextPiece("actor")
    /\ UNCHANGED <<max_ckpt_to_keep, data_file, probe_file, tracker, resume_mode, live, history>>

DataSaved ==
    /\ phase = "data"
    /\ data_file' = [data_file EXCEPT ![global_steps] = Whole(data)]
    /\ phase' = NextPiece("data")
    /\ UNCHANGED <<max_ckpt_to_keep, actor_file, probe_file, tracker, resume_mode, live,
                   previous_saved_paths, history>>

TrackerWritten ==
    /\ phase = "tracker"
    /\ tracker' = global_steps
    /\ phase' = NextPiece("tracker")
    /\ UNCHANGED <<max_ckpt_to_keep, files, resume_mode, live, previous_saved_paths, history>>

(* After super()._save_checkpoint() has returned.                          *)
ProbeSaved ==
    /\ phase = "probe"
    /\ probe_file' = [probe_file EXCEPT ![global_steps] = Whole(probe)]
    /\ phase' = NextPiece("probe")
    /\ UNCHANGED <<max_ckpt_to_keep, actor_file, data_file, tracker, resume_mode, live,
                   previous_saved_paths, history>>

-----------------------------------------------------------------------------
(* A crash.  What was being written is old, torn or complete; of the       *)
(* actor's shards some may be of an older save and some new.  A removal    *)
(* that was begun counts as complete: what is left of it cannot be loaded. *)
Interrupted(old, new) == {old, Torn, Whole(new)}
InterruptedShards(old, new) ==
    Interrupted(old, new) \cup IF old.state = "whole" THEN {Whole(Mixed)} ELSE {}

Writes(file, file2, at, results) ==
    IF phase = at THEN \E r \in results : file2 = [file EXCEPT ![global_steps] = r]
    ELSE file2 = file

Crash ==
    /\ phase # "idle"
    /\ Writes(actor_file, actor_file', "actor",
              InterruptedShards(actor_file[global_steps], actor))
    /\ Writes(data_file, data_file', "data",
              Interrupted(data_file[global_steps], data))
    /\ Writes(probe_file, probe_file', "probe",
              Interrupted(probe_file[global_steps], probe))
    /\ tracker' \in IF phase = "tracker" THEN {tracker, TornTracker, global_steps}
                    ELSE {tracker}
    /\ probe_lost' = (\/ probe_lost
                      \/ /\ phase \in {"tracker", "probe"}
                         /\ tracker' = global_steps
                         /\ probe_file'[global_steps] # Whole(probe))
    /\ Dies
    /\ UNCHANGED <<max_ckpt_to_keep, run, rewriting>>

Next ==
    \/ Start \/ StartsFresh \/ Resumes \/ LoadRaises
    \/ TrainStep \/ FitEnds
    \/ EnsureCapacity \/ ActorSaved \/ DataSaved \/ TrackerWritten \/ ProbeSaved
    \/ Crash

Spec == Init /\ [][Next]_vars

-----------------------------------------------------------------------------
Training == phase \notin {"idle", "loading"}

Suffix(s, t) ==
    /\ Len(s) <= Len(t)
    /\ \A i \in 1..Len(s) : s[i] = t[Len(t) - Len(s) + i]

(* Whatever crashes there were, the weights, the position in the data and  *)
(* the probe that are trained together have made the same steps together.  *)
(* A probe is younger, never older or of another training, only after a    *)
(* crash between the tracker and probe.pt (forced_output_trainer.py saves  *)
(* the probe last); and nothing is claimed once a run was told to ignore   *)
(* the checkpoints in its directory and began to overwrite them.           *)
ResumesTogether ==
    Training /\ ~rewriting =>
        /\ actor = data
        /\ Len(actor) = global_steps
        /\ Suffix(probe, actor)
        /\ probe = actor \/ probe_lost

(* Between any two steps of a run, also those of a save or of a removal of *)
(* old checkpoints, the disk holds a checkpoint to resume from, at most    *)
(* save_freq steps old.  Not so while a save is under way with only one    *)
(* actor kept: from register_checkpoint, which removes the actor of the    *)
(* checkpoint the tracker names, to the write of the tracker.  (Nor inside *)
(* that write: a crash there leaves an empty tracker, and the next run     *)
(* raises.)                                                                *)
OneKept == max_ckpt_to_keep = 1 /\ phase \in {"data", "tracker"}

RestartLosesLittle ==
    Training /\ ~rewriting =>
        /\ tracker # TornTracker
        /\ tracker # NoTracker => CanLoad(tracker) \/ OneKept
        /\ global_steps - tracker <= SaveFreq

(* ensure_checkpoint_capacity: "With max_ckpt_to_keep=1, this does nothing *)
(* - we keep the existing checkpoint until the new save completes          *)
(* successfully (handled by register_checkpoint)."  Whatever is written,   *)
(* removed or torn, and however few are kept, the disk never is without a  *)
(* whole actor as new as the checkpoint the tracker names, whose           *)
(* dataloader stays.  With one kept that is all: the save that completes   *)
(* is the actor's, the named checkpoint loses its actor before data.pt and *)
(* the tracker are written, and a crash there leaves a restart nothing it  *)
(* would load.  With more, the named checkpoint keeps both, of one save.   *)
ActorKept(s) == actor_file[s] = data_file[s]

Superseded(s) ==
    /\ max_ckpt_to_keep = 1
    /\ \E newer \in Steps : newer > s /\ actor_file[newer].state = "whole"

NamedCheckpointKept ==
    ~rewriting /\ tracker \in Steps =>
        /\ data_file[tracker].state = "whole"
        /\ ActorKept(tracker) \/ Superseded(tracker)
=============================================================================
