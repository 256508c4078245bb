-------------------- MODULE ForcedOutputCheckpointProofs --------------------
(***************************************************************************)
(* Theorems about ForcedOutputCheckpoint for any number of steps, runs and *)
(* crashes, any save frequency and any max_actor_ckpt_to_keep.             *)
(*                                                                         *)
(* SaveInv is the inductive invariant.  Its heart is what the pieces of a  *)
(* save have achieved when the next one is due (Pieces), that no folder    *)
(* past the tracker has a probe yet (NoProbeAhead), so that a resumed      *)
(* probe can only be missing or the right one, and that the newest path    *)
(* the manager remembers is the one the tracker names (PathsInv), so that  *)
(* a removal of older ones spares it, unless one only is kept: then its    *)
(* actor goes when the next one is whole (Superseded).  LossInv counts the *)
(* steps made since the tracker was written: never more than since the     *)
(* last multiple of save_freq.                                             *)
(***************************************************************************)
EXTENDS ForcedOutputCheckpoint, SequenceTheorems, TLAPS

NothingLive ==
    /\ global_steps = 0 /\ actor = << >> /\ data = << >> /\ probe = << >>
    /\ previous_saved_paths = << >>

Saving == phase \in {"capacity", "actor", "data", "tracker"}

LoadInv ==
    /\ ~Training => NothingLive
    /\ phase = "loading" /\ resume_mode = "disable" /\ ~rewriting => tracker = NoTracker
    /\ Training /\ phase # "training" => global_steps \in Steps

LastPath == previous_saved_paths[Len(previous_saved_paths)]
PathsInv ==
    previous_saved_paths # << >> =>
        LastPath = IF phase \in {"data", "tracker"} THEN global_steps ELSE tracker

(* The checkpoint the tracker names.                                       *)
Named ==
    tracker \in Steps =>
        /\ data_file[tracker].state = "whole"
        /\ Len(data_file[tracker].holds) = tracker
        /\ \/ ActorKept(tracker)
           \/ actor_file[tracker] = Missing /\ Superseded(tracker)

(* Its actor is missing only inside a save, or when nothing runs on it.    *)
ActorThere == Training /\ ~OneKept /\ tracker \in Steps => ActorKept(tracker)

NamedProbe ==
    tracker \in Steps /\ probe_file[tracker].state # "torn" =>
        /\ Suffix(probe_file[tracker].holds, data_file[tracker].holds)
        /\ \/ probe_file[tracker].holds = data_file[tracker].holds
           \/ probe_lost
           \/ phase = "probe"

NoProbeAhead ==
    tracker # TornTracker =>
        \A s \in Steps : s > tracker => probe_file[s] = Missing

Together ==
    Training =>
        /\ tracker # TornTracker /\ tracker <= global_steps
        /\ actor = data
        /\ Len(actor) = global_steps
        /\ Suffix(probe, actor)
        /\ probe = actor \/ probe_lost

Pieces ==
    /\ Saving => tracker < global_steps
    /\ phase \in {"data", "tracker", "probe"} => actor_file[global_steps] = Whole(actor)
    /\ phase = "tracker" => data_file[global_steps] = Whole(data)
    /\ phase = "probe" => tracker = global_steps

Clean == Named /\ ActorThere /\ NamedProbe /\ NoProbeAhead /\ Together /\ Pieces

SaveInv ==
    /\ TypeOK
    /\ LoadInv
    /\ PathsInv
    /\ ~rewriting => Clean

-----------------------------------------------------------------------------
(* Facts about sequences.                                                  *)

LEMMA SuffixOfItself ==
    ASSUME NEW s \in Seq(Nat)
    PROVE  Suffix(s, s) /\ Suffix(<< >>, s)
  <1>1. Len(s) \in Nat /\ Len(<< >>) = 0
    BY LenProperties, EmptySeq
  <1> QED
    BY <1>1 DEF Suffix

(* Two states that make the same step stay as they were related.           *)
LEMMA SuffixGrows ==
    ASSUME NEW s \in Seq(Nat), NEW t \in Seq(Nat), NEW r \in Nat, Suffix(s, t)
    PROVE  Suffix(Append(s, r), Append(t, r))
  <1> DEFINE s1 == Append(s, r)
             t1 == Append(t, r)
  <1>1. /\ Len(s) \in Nat /\ Len(t) \in Nat /\ Len(s) <= Len(t)
        /\ Len(s1) = Len(s) + 1 /\ Len(t1) = Len(t) + 1
    BY LenProperties, AppendProperties DEF Suffix
  <1>2. ASSUME NEW i \in 1..Len(s)
        PROVE  s1[i] = t1[Len(t1) - Len(s1) + i]
    <2>1. s1[i] = s[i]
      BY AppendProperties
    <2>2. s[i] = t[Len(t) - Len(s) + i]
      BY DEF Suffix
    <2>3. Len(t) - Len(s) + i \in 1..Len(t)
      BY <1>1
    <2>4. t1[Len(t) - Len(s) + i] = t[Len(t) - Len(s) + i]
      BY <2>3, AppendProperties
    <2>5. Len(t1) - Len(s1) + i = Len(t) - Len(s) + i
      BY <1>1
    <2> QED
      BY <2>1, <2>2, <2>4, <2>5
  <1>3. s1[Len(s) + 1] = t1[Len(t) + 1]
    BY AppendProperties
  <1>4. Len(t1) - Len(s1) + (Len(s) + 1) = Len(t) + 1
    BY <1>1
  <1>5. ASSUME NEW i \in 1..Len(s1)
        PROVE  s1[i] = t1[Len(t1) - Len(s1) + i]
    <2>1. i \in 1..Len(s) \/ i = Len(s) + 1
      BY <1>1
    <2> QED
      BY <1>2, <1>3, <1>4, <2>1
  <1>6. Len(s1) <= Len(t1)
    BY <1>1
  <1> HIDE DEF s1, t1
  <1>7. Suffix(s1, t1)
    BY <1>5, <1>6 DEF Suffix
  <1> QED
    BY <1>7 DEF s1, t1

(* The newest n paths: a sequence with the same last entry, that holds     *)
(* each of the last n.                                                     *)
LEMMA NewestFacts ==
    ASSUME NEW p \in Seq(Steps), p # << >>, NEW n \in Nat \ {0}
    PROVE  /\ Newest(p, n) \in Seq(Steps)
           /\ Newest(p, n) # << >>
           /\ Newest(p, n)[Len(Newest(p, n))] = p[Len(p)]
           /\ \A i \in 1..Len(p) : i > Len(p) - n => p[i] \notin Removed(p, n)
  <1>1. Len(p) \in Nat \ {0} /\ \A i \in 1..Len(p) : p[i] \in Steps
    BY EmptySeq, LenProperties
  <1>2. CASE Len(p) <= n
    BY <1>1, <1>2 DEF Newest, Removed
  <1>3. CASE ~(Len(p) <= n)
    <2> DEFINE m == Len(p) - n + 1
               q == SubSeq(p, m, Len(p))
    <2>1. Newest(p, n) = q
      BY <1>3 DEF Newest
    <2>2. m \in Int /\ Len(p) \in Int /\ m \in 1..Len(p) /\ Len(p) - m + 1 = n
      BY <1>1, <1>3
    <2>3. \A i \in m..Len(p) : p[i] \in Steps
      BY <1>1, <2>2
    <2>4. /\ q \in Seq(Steps)
          /\ Len(q) = n
          /\ \A i \in 1..n : q[i] = p[m + i - 1]
      <3> HIDE DEF m
      <3> QED
        BY <2>2, <2>3, SubSeqProperties
    <2>5. q[Len(q)] = p[Len(p)] /\ q # << >>
      <3>1. n \in 1..n /\ m + n - 1 = Len(p)
        BY <2>2
      <3>2. q[n] = p[Len(p)]
        BY <2>4, <3>1
      <3>3. q # << >>
        BY <2>4, EmptySeq
      <3> QED
        BY <2>4, <3>2, <3>3
    <2>6. ASSUME NEW i \in 1..Len(p), i > Len(p) - n
          PROVE  p[i] \in Range(q)
      <3>1. i - m + 1 \in 1..n /\ m + (i - m + 1) - 1 = i
        BY <1>1, <2>2, <2>6
      <3>2. p[i] = q[i - m + 1]
        BY <2>4, <3>1
      <3>3. Range(q) = {q[j] : j \in 1..Len(q)}
        BY <2>4, RangeEquality
      <3> QED
        BY <2>4, <3>1, <3>2, <3>3
    <2> QED
      BY <2>1, <2>4, <2>5, <2>6 DEF Removed
  <1> QED
    BY <1>2, <1>3

LEMMA WholeIsFile ==
    ASSUME NEW h \in Seq(Nat)
    PROVE  Whole(h) \in DiskFiles /\ Missing \in DiskFiles /\ Torn \in DiskFiles
  BY EmptySeq DEF Whole, Missing, Torn, DiskFiles

-----------------------------------------------------------------------------
(* Each action.                                                            *)
LEMMA InitSaveInv == Init => SaveInv
  <1> SUFFICES ASSUME Init PROVE SaveInv
    OBVIOUS
  <1>1. Missing \in DiskFiles /\ << >> \in Seq(Nat) /\ << >> \in Seq(Steps)
    BY EmptySeq DEF Missing, DiskFiles
  <1>2. NoTracker \notin Steps /\ NoTracker # TornTracker
    BY DEF Steps, NoTracker, TornTracker
  <1>3. TypeOK
    BY <1>1, StepsAssumption DEF Init, TypeOK
  <1> QED
    BY <1>2, <1>3 DEF Init, SaveInv, LoadInv, PathsInv, Clean, Named, ActorThere, OneKept, ActorKept, Superseded,
          NamedProbe,
        NoProbeAhead, Together, Pieces, Training, Saving, NothingLive

LEMMA StartSaveInv == SaveInv /\ Start => SaveInv'
  <1> SUFFICES ASSUME SaveInv, Start PROVE SaveInv'
    OBVIOUS
  <1>1. UNCHANGED <<max_ckpt_to_keep, files, tracker, live, previous_saved_paths, probe_lost>>
        /\ phase = "idle" /\ phase' = "loading" /\ run' = run + 1
    BY DEF Start
  <1>2. ~rewriting' => ~rewriting /\ (resume_mode' = "disable" => tracker = NoTracker)
    BY DEF Start
  <1>3. TypeOK'
    BY <1>1 DEF SaveInv, TypeOK, files, live
  <1>4. LoadInv'
    BY <1>1, <1>2 DEF SaveInv, LoadInv, Training, NothingLive, live
  <1>5. PathsInv'
    BY <1>1 DEF SaveInv, LoadInv, PathsInv, Training, NothingLive
  <1>6. ~rewriting' => Clean'
    BY <1>1, <1>2 DEF SaveInv, Clean, Named, ActorThere, OneKept, ActorKept, Superseded,
          NamedProbe, NoProbeAhead, Together,
        Pieces, Training, Saving, files, live
  <1> QED
    BY <1>3, <1>4, <1>5, <1>6 DEF SaveInv

(* A process that ends and leaves the disk alone.                          *)
LEMMA ExitSaveInv ==
    ASSUME SaveInv, Dies, UNCHANGED <<max_ckpt_to_keep, files, tracker, history>>, phase # "probe"
    PROVE  SaveInv'
  <1>1. << >> \in Seq(Nat) /\ << >> \in Seq(Steps)
    BY EmptySeq
  <1>2. TypeOK'
    BY <1>1, StepsAssumption DEF SaveInv, TypeOK, Dies, files, history
  <1>3. LoadInv' /\ PathsInv'
    BY DEF Dies, LoadInv, PathsInv, NothingLive, Training
  <1>4. ~rewriting' => Clean'
    BY DEF SaveInv, Clean, Named, ActorThere, OneKept, ActorKept, Superseded,
          NamedProbe, NoProbeAhead, Together,
        Pieces, Training, Saving, Dies, files, history
  <1> QED
    BY <1>2, <1>3, <1>4 DEF SaveInv

(* A fresh start: nothing is there, or the run is told to overwrite it.    *)
LEMMA StartsFreshSaveInv == SaveInv /\ StartsFresh => SaveInv'
  <1> SUFFICES ASSUME SaveInv, StartsFresh PROVE SaveInv'
    OBVIOUS
  <1>1. /\ UNCHANGED <<max_ckpt_to_keep, files, tracker, live, previous_saved_paths, history>>
        /\ phase = "loading" /\ phase' = "training"
    BY DEF StartsFresh
  <1>2. NothingLive
    BY <1>1 DEF SaveInv, LoadInv, Training
  <1>3. TypeOK' /\ LoadInv' /\ PathsInv'
    BY <1>1, <1>2 DEF SaveInv, TypeOK, LoadInv, PathsInv, NothingLive, Training, files,
        live, history
  <1>4. ASSUME ~rewriting'
        PROVE  Clean'
    <2>1. ~rewriting /\ Clean /\ tracker = NoTracker
      BY <1>1, <1>4 DEF SaveInv, LoadInv, StartsFresh, FromScratch, history
    <2>2. Suffix(<< >>, << >>) /\ Len(<< >>) = 0
      BY SuffixOfItself, EmptySeq
    <2>3. Together'
      BY <1>1, <1>2, <2>1, <2>2 DEF Together, NothingLive, NoTracker, TornTracker, live
    <2>4. Named' /\ ActorThere' /\ NamedProbe' /\ NoProbeAhead' /\ Pieces'
      BY <1>1, <2>1 DEF Clean, Named, ActorThere, OneKept, ActorKept, Superseded,
          NamedProbe, NoProbeAhead, Pieces, Saving, files, history, Steps, NoTracker
    <2> QED
      BY <2>3, <2>4 DEF Clean
  <1> QED
    BY <1>3, <1>4 DEF SaveInv

(* What a resumed run gets is what Named and NamedProbe say of the files.  *)
LEMMA ResumesSaveInv == SaveInv /\ Resumes => SaveInv'
  <1> SUFFICES ASSUME SaveInv, Resumes PROVE SaveInv'
    OBVIOUS
  <1>1. /\ UNCHANGED <<max_ckpt_to_keep, files, tracker, previous_saved_paths, history>>
        /\ phase = "loading" /\ phase' = "training"
        /\ tracker \in Steps /\ CanLoad(tracker)
        /\ global_steps' = tracker
        /\ actor' = actor_file[tracker].holds
        /\ data' = data_file[tracker].holds
        /\ probe' = probe_file[tracker].holds
    BY DEF Resumes, SaveInv, TypeOK, FromScratch
  <1>2. previous_saved_paths = << >>
    BY <1>1 DEF SaveInv, LoadInv, Training, NothingLive
  <1>3. TypeOK'
    <2>1. /\ actor_file[tracker] \in DiskFiles
          /\ data_file[tracker] \in DiskFiles
          /\ probe_file[tracker] \in DiskFiles
      BY <1>1 DEF SaveInv, TypeOK
    <2>2. actor' \in Seq(Nat) /\ data' \in Seq(Nat) /\ probe' \in Seq(Nat)
      BY <1>1, <2>1 DEF DiskFiles
    <2>3. global_steps' \in 0..LastStep
      BY <1>1, StepsAssumption DEF Steps
    <2> QED
      BY <1>1, <2>2, <2>3 DEF SaveInv, TypeOK, files, history
  <1>4. LoadInv' /\ PathsInv'
    BY <1>1, <1>2 DEF LoadInv, PathsInv, Training
  <1>5. ASSUME ~rewriting'
        PROVE  Clean'
    <2>1. Clean
      BY <1>1, <1>5 DEF SaveInv, history
    <2>2. tracker # TornTracker /\ tracker \in Nat
      BY <1>1, StepsAssumption DEF Steps, TornTracker
    <2>a. ActorKept(tracker)
      BY <1>1, <2>1 DEF Clean, Named, CanLoad, Missing
    <2>3. Together'
      BY <1>1, <2>1, <2>2, <2>a DEF Clean, Together, Named, ActorKept, NamedProbe, CanLoad,
          history
    <2>4. Named' /\ ActorThere' /\ NamedProbe' /\ NoProbeAhead' /\ Pieces'
      BY <1>1, <2>1, <2>a DEF Clean, Named, ActorThere, OneKept, ActorKept, Superseded,
          NamedProbe, NoProbeAhead, Pieces, Saving, files, history
    <2> QED
      BY <2>3, <2>4 DEF Clean
  <1> QED
    BY <1>3, <1>4, <1>5 DEF SaveInv

LEMMA LoadRaisesSaveInv == SaveInv /\ LoadRaises => SaveInv'
  BY ExitSaveInv DEF LoadRaises

LEMMA FitEndsSaveInv == SaveInv /\ FitEnds => SaveInv'
  BY ExitSaveInv DEF FitEnds

(* The three states grow by the same step.                                 *)
LEMMA TrainStepSaveInv == SaveInv /\ TrainStep => SaveInv'
  <1> SUFFICES ASSUME SaveInv, TrainStep PROVE SaveInv'
    OBVIOUS
  <1>1. /\ UNCHANGED <<max_ckpt_to_keep, files, tracker, previous_saved_paths, history>>
        /\ phase = "training" /\ phase' \in {"capacity", "training"}
        /\ global_steps # LastStep
        /\ global_steps' = global_steps + 1
        /\ data' = Append(data, run)
        /\ probe' = Append(probe, run)
        /\ actor' = Append(actor, run)
    BY DEF TrainStep, LastStepDone
  <1>2. /\ actor \in Seq(Nat) /\ data \in Seq(Nat) /\ probe \in Seq(Nat)
        /\ run \in Nat /\ global_steps \in 0..LastStep
    BY DEF SaveInv, TypeOK
  <1>3. /\ actor' \in Seq(Nat) /\ data' \in Seq(Nat) /\ probe' \in Seq(Nat)
        /\ Len(actor') = Len(actor) + 1
    BY <1>1, <1>2, AppendProperties
  <1>4. global_steps' \in 0..LastStep
    BY <1>1, <1>2, StepsAssumption
  <1>5. TypeOK'
    BY <1>1, <1>3, <1>4 DEF SaveInv, TypeOK, files, history
  <1>6. LoadInv' /\ PathsInv'
    <2>1. global_steps' \in Steps
      BY <1>1, <1>2, StepsAssumption DEF Steps
    <2> QED
      BY <1>1, <2>1 DEF SaveInv, LoadInv, PathsInv, LastPath, Training
  <1>7. ASSUME ~rewriting'
        PROVE  Clean'
    <2>1. Clean /\ Training
      BY <1>1, <1>7 DEF SaveInv, history, Training
    <2>2. /\ tracker # TornTracker /\ tracker <= global_steps
          /\ actor = data /\ Len(actor) = global_steps
          /\ Suffix(probe, actor) /\ (probe = actor \/ probe_lost)
      BY <2>1 DEF Clean, Together
    <2>3. Suffix(probe', actor')
      BY <1>1, <1>2, <2>2, SuffixGrows
    <2>4. tracker \in Int
      BY DEF SaveInv, TypeOK, Steps, NoTracker, TornTracker
    <2>5. tracker < global_steps'
      BY <1>1, <1>2, <2>2, <2>4
    <2>6. Together'
      BY <1>1, <1>2, <1>3, <2>2, <2>3, <2>4 DEF Together, history
    <2>7. Pieces'
      BY <1>1, <2>5 DEF Pieces, Saving
    <2>8. Named' /\ ActorThere' /\ NamedProbe' /\ NoProbeAhead'
      BY <1>1, <2>1 DEF Clean, Named, ActorThere, OneKept, ActorKept, Superseded,
          NamedProbe, NoProbeAhead, files, history
    <2> QED
      BY <2>6, <2>7, <2>8 DEF Clean
  <1> QED
    BY <1>5, <1>6, <1>7 DEF SaveInv

(* What a removal does to the files of the actor.                          *)
LEMMA WithoutFacts ==
    ASSUME TypeOK, NEW removed
    PROVE  /\ Without(removed) \in [Steps -> DiskFiles]
           /\ \A s \in Steps \ removed : Without(removed)[s] = actor_file[s]
           /\ \A s \in Steps : Without(removed)[s] \in {actor_file[s], Missing}
  BY DEF Without, TypeOK, Missing, DiskFiles

LEMMA NothingRemoved ==
    ASSUME NEW p \in Seq(Steps), NEW n \in Nat, Len(p) <= n
    PROVE  Newest(p, n) = p /\ Removed(p, n) = {}
  BY DEF Newest, Removed

(* The removal before a save spares the checkpoint the tracker names: it   *)
(* is the newest one of this run, or not of this run.                      *)
LEMMA EnsureCapacitySaveInv == SaveInv /\ EnsureCapacity => SaveInv'
  <1> SUFFICES ASSUME SaveInv, EnsureCapacity PROVE SaveInv'
    OBVIOUS
  <1> DEFINE removed == Removed(previous_saved_paths, CapacityBeforeSave)
  <1>1. /\ UNCHANGED <<max_ckpt_to_keep, data_file, probe_file, tracker, resume_mode, live, history>>
        /\ phase = "capacity" /\ phase' = "actor"
        /\ previous_saved_paths' = Newest(previous_saved_paths, CapacityBeforeSave)
        /\ actor_file' = Without(removed)
    BY DEF EnsureCapacity
  <1>2. TypeOK /\ previous_saved_paths \in Seq(Steps)
        /\ Len(previous_saved_paths) \in Nat /\ CapacityBeforeSave \in Nat
    BY KeepAssumption, LenProperties DEF SaveInv, TypeOK, CapacityBeforeSave
  <1>3. /\ previous_saved_paths' \in Seq(Steps)
        /\ previous_saved_paths' # << >> => LastPath' = tracker
        /\ tracker \notin removed
    <2>1. CASE previous_saved_paths = << >>
      <3>1. Len(previous_saved_paths) <= CapacityBeforeSave
        BY <1>2, <2>1, EmptySeq
      <3> QED
        BY <1>1, <1>2, <2>1, <3>1, NothingRemoved
    <2>2. CASE previous_saved_paths # << >>
      <3>1. /\ CapacityBeforeSave \in Nat \ {0}
            /\ Len(previous_saved_paths) \in 1..Len(previous_saved_paths)
        BY <1>2, <2>2, EmptySeq, KeepAssumption DEF CapacityBeforeSave, TypeOK
      <3>2. previous_saved_paths[Len(previous_saved_paths)] = tracker
        BY <1>1, <2>2 DEF SaveInv, PathsInv, LastPath
      <3>3. Len(previous_saved_paths) > Len(previous_saved_paths) - CapacityBeforeSave
        BY <1>2, <3>1
      <3>4. /\ previous_saved_paths' \in Seq(Steps)
            /\ LastPath' = tracker
            /\ previous_saved_paths[Len(previous_saved_paths)] \notin removed
        BY <1>1, <1>2, <2>2, <3>1, <3>2, <3>3, NewestFacts DEF LastPath
      <3> QED
        BY <3>2, <3>4
    <2> QED
      BY <2>1, <2>2
  <1>4. /\ actor_file' \in [Steps -> DiskFiles]
        /\ tracker \in Steps => actor_file'[tracker] = actor_file[tracker]
    BY <1>1, <1>2, <1>3, WithoutFacts
  <1>5. TypeOK'
    BY <1>1, <1>3, <1>4 DEF SaveInv, TypeOK, live, history
  <1>6. LoadInv' /\ PathsInv'
    BY <1>1, <1>3 DEF SaveInv, LoadInv, PathsInv, Training, live, history
  <1>7. ~rewriting' => Clean'
    BY <1>1, <1>4 DEF SaveInv, Clean, Named, ActorThere, OneKept, ActorKept, Superseded,
          NamedProbe, NoProbeAhead, Together,
        Pieces, Training, Saving, live, history
  <1> QED
    BY <1>5, <1>6, <1>7 DEF SaveInv

(* After the new one is appended, the named one is the last but one: it is *)
(* removed if only one is kept, and superseded by the new one.             *)
LEMMA ActorSavedSaveInv == SaveInv /\ ActorSaved => SaveInv'
  <1> SUFFICES ASSUME SaveInv, ActorSaved PROVE SaveInv'
    OBVIOUS
  <1> DEFINE paths == Append(previous_saved_paths, global_steps)
             capacity == IF max_ckpt_to_keep > 0 THEN max_ckpt_to_keep ELSE Len(paths)
             removed == Removed(paths, capacity)
  <1>1. /\ UNCHANGED <<max_ckpt_to_keep, data_file, probe_file, tracker, resume_mode, live, history>>
        /\ phase = "actor" /\ phase' = "data"
        /\ previous_saved_paths' = Newest(paths, capacity)
        /\ actor_file' = [Without(removed) EXCEPT ![global_steps] = Whole(actor)]
    BY DEF ActorSaved, NextPiece
  <1>2. /\ TypeOK /\ previous_saved_paths \in Seq(Steps)
        /\ Len(previous_saved_paths) \in Nat /\ global_steps \in Steps
        /\ actor \in Seq(Nat)
    BY <1>1, LenProperties DEF SaveInv, TypeOK, LoadInv, Training
  <1>3. /\ paths \in Seq(Steps) /\ Len(paths) = Len(previous_saved_paths) + 1
        /\ paths[Len(paths)] = global_steps /\ paths # << >>
        /\ \A i \in 1..Len(previous_saved_paths) : paths[i] = previous_saved_paths[i]
    <2>1. /\ paths \in Seq(Steps) /\ Len(paths) = Len(previous_saved_paths) + 1
          /\ paths[Len(previous_saved_paths) + 1] = global_steps
          /\ \A i \in 1..Len(previous_saved_paths) : paths[i] = previous_saved_paths[i]
      BY <1>2, AppendProperties
    <2>2. Len(paths) # 0
      BY <1>2, <2>1
    <2> QED
      BY <2>1, <2>2, EmptySeq
  <1>4. capacity \in Nat \ {0}
    BY <1>2, <1>3, KeepAssumption DEF TypeOK
  <1> HIDE DEF paths, capacity
  <1>5. previous_saved_paths' \in Seq(Steps) /\ LastPath' = global_steps
    BY <1>1, <1>3, <1>4, NewestFacts DEF LastPath
  <1>6. max_ckpt_to_keep # 1 => tracker \notin removed
    <2> SUFFICES ASSUME max_ckpt_to_keep # 1
                 PROVE  tracker \notin removed
      OBVIOUS
    <2>1. CASE previous_saved_paths = << >>
      <3>1. Len(paths) <= capacity /\ capacity \in Nat
        BY <1>3, <1>4, <2>1, EmptySeq
      <3> QED
        BY <1>3, <3>1, NothingRemoved
    <2>2. CASE previous_saved_paths # << >>
      <3> DEFINE i == Len(previous_saved_paths)
      <3>1. i \in 1..i /\ i \in Nat
        BY <1>2, <2>2, EmptySeq
      <3>2. capacity > 1
        BY <1>2, <1>3, <3>1, KeepAssumption DEF capacity, TypeOK
      <3>3. i \in 1..Len(paths) /\ i > Len(paths) - capacity
        BY <1>3, <1>4, <3>1, <3>2
      <3>4. paths[i] = tracker
        BY <1>1, <1>3, <2>2, <3>1 DEF SaveInv, PathsInv, LastPath
      <3> QED
        BY <1>3, <1>4, <3>3, <3>4, NewestFacts
    <2> QED
      BY <2>1, <2>2
  <1>7. /\ actor_file' \in [Steps -> DiskFiles]
        /\ tracker \in Steps /\ tracker # global_steps =>
             \/ actor_file'[tracker] = actor_file[tracker]
             \/ max_ckpt_to_keep = 1 /\ actor_file'[tracker] = Missing
        /\ actor_file'[global_steps] = Whole(actor)
    BY <1>1, <1>2, <1>6, WithoutFacts, WholeIsFile
  <1>8. TypeOK'
    BY <1>1, <1>5, <1>7 DEF SaveInv, TypeOK, live, history
  <1>9. LoadInv' /\ PathsInv'
    BY <1>1, <1>5 DEF SaveInv, LoadInv, PathsInv, Training, live, history
  <1>10. ASSUME ~rewriting'
         PROVE  Clean'
    <2>1. Clean
      BY <1>1, <1>10 DEF SaveInv, history
    <2>2. tracker < global_steps /\ tracker # global_steps
      BY <1>1, <1>2, <2>1 DEF Clean, Pieces, Saving, TypeOK, Steps, NoTracker, TornTracker
    <2>a. tracker \in Steps => ActorKept(tracker)
      BY <1>1, <2>1 DEF Clean, ActorThere, OneKept, Training
    <2>b. Named' /\ ActorThere'
      <3>1. UNCHANGED <<data_file, tracker, global_steps, max_ckpt_to_keep>>
            /\ global_steps > tracker /\ actor_file'[global_steps].state = "whole"
        BY <1>1, <1>2, <1>7, <2>2 DEF live, Whole, TypeOK, Steps, NoTracker, TornTracker
      <3>2. CASE tracker \in Steps /\ actor_file'[tracker] # actor_file[tracker]
        <4>1. Superseded(tracker)' /\ actor_file'[tracker] = Missing
          BY <1>2, <1>7, <2>2, <3>1, <3>2 DEF Superseded
        <4> QED
          BY <1>1, <1>7, <2>1, <2>2, <3>1, <3>2, <4>1
             DEF Clean, Named, ActorThere, OneKept, Superseded, Training
      <3>3. CASE tracker \in Steps => actor_file'[tracker] = actor_file[tracker]
        BY <2>1, <2>a, <3>1, <3>3 DEF Clean, Named, ActorThere, ActorKept
      <3> QED
        BY <3>2, <3>3
    <2>3. Named' /\ ActorThere' /\ NamedProbe' /\ NoProbeAhead'
      BY <1>1, <2>1, <2>b DEF Clean, NamedProbe, NoProbeAhead, live, history
    <2>4. Together' /\ Pieces'
      BY <1>1, <1>7, <2>1, <2>2 DEF Clean, Together, Pieces, Training, Saving, live, history
    <2> QED
      BY <2>3, <2>4 DEF Clean
  <1> QED
    BY <1>8, <1>9, <1>10 DEF SaveInv

LEMMA DataSavedSaveInv == SaveInv /\ DataSaved => SaveInv'
  <1> SUFFICES ASSUME SaveInv, DataSaved PROVE SaveInv'
    OBVIOUS
  <1>1. /\ UNCHANGED <<max_ckpt_to_keep, actor_file, probe_file, tracker, resume_mode, live,
                       previous_saved_paths, history>>
        /\ phase = "data" /\ phase' = "tracker"
        /\ data_file' = [data_file EXCEPT ![global_steps] = Whole(data)]
    BY DEF DataSaved, NextPiece
  <1>2. TypeOK /\ global_steps \in Steps /\ data \in Seq(Nat)
    BY <1>1 DEF SaveInv, TypeOK, LoadInv, Training
  <1>3. TypeOK'
    BY <1>1, <1>2, WholeIsFile DEF TypeOK, live, history
  <1>4. LoadInv' /\ PathsInv'
    BY <1>1 DEF SaveInv, LoadInv, PathsInv, LastPath, Training, live, history
  <1>5. ASSUME ~rewriting'
        PROVE  Clean'
    <2>1. Clean
      BY <1>1, <1>5 DEF SaveInv, history
    <2>2. tracker < global_steps /\ tracker # global_steps
      BY <1>1, <1>2, <2>1 DEF Clean, Pieces, Saving, TypeOK, Steps, NoTracker, TornTracker
    <2>3. data_file'[global_steps] = Whole(data)
      BY <1>1, <1>2 DEF TypeOK
    <2>4. tracker \in Steps => data_file'[tracker] = data_file[tracker]
      BY <1>1, <1>2, <2>2 DEF TypeOK
    <2>5. Named' /\ ActorThere' /\ NamedProbe' /\ NoProbeAhead'
      BY <1>1, <2>1, <2>4 DEF Clean, Named, ActorThere, OneKept, ActorKept, Superseded,
          NamedProbe, NoProbeAhead, live, history
    <2>6. Together' /\ Pieces'
      BY <1>1, <2>1, <2>2, <2>3 DEF Clean, Together, Pieces, Training, Saving, live, history
    <2> QED
      BY <2>5, <2>6 DEF Clean
  <1> QED
    BY <1>3, <1>4, <1>5 DEF SaveInv

(* The tracker moves to the checkpoint whose actor and dataloader are      *)
(* there; its probe is not: NoProbeAhead.                                  *)
LEMMA TrackerWrittenSaveInv == SaveInv /\ TrackerWritten => SaveInv'
  <1> SUFFICES ASSUME SaveInv, TrackerWritten PROVE SaveInv'
    OBVIOUS
  <1>1. /\ UNCHANGED <<max_ckpt_to_keep, files, resume_mode, live, previous_saved_paths, history>>
        /\ phase = "tracker" /\ phase' = "probe"
        /\ tracker' = global_steps
    BY DEF TrackerWritten, NextPiece
  <1>2. TypeOK /\ global_steps \in Steps /\ actor \in Seq(Nat)
    BY <1>1 DEF SaveInv, TypeOK, LoadInv, Training
  <1>3. TypeOK'
    BY <1>1, <1>2 DEF TypeOK, files, live, history
  <1>4. LoadInv' /\ PathsInv'
    BY <1>1 DEF SaveInv, LoadInv, PathsInv, LastPath, Training, live, history
  <1>5. ASSUME ~rewriting'
        PROVE  Clean'
    <2>1. Clean
      BY <1>1, <1>5 DEF SaveInv, history
    <2>2. tracker < global_steps /\ tracker # TornTracker /\ tracker \in Int
      BY <1>1, <1>2, <2>1 DEF Clean, Pieces, Together, Training, Saving, TypeOK, Steps,
          NoTracker, TornTracker
    <2>3. /\ actor_file[global_steps] = Whole(actor)
          /\ data_file[global_steps] = Whole(actor)
          /\ Len(actor) = global_steps
          /\ probe_file[global_steps] = Missing
      BY <1>1, <1>2, <2>1, <2>2 DEF Clean, Pieces, Together, Training, NoProbeAhead
    <2>4. Named' /\ ActorThere'
      BY <1>1, <2>3 DEF Named, ActorThere, ActorKept, Whole, files
    <2>5. NamedProbe'
      BY <1>1, <1>2, <2>3, SuffixOfItself DEF NamedProbe, Missing, Whole, files
    <2>6. NoProbeAhead'
      BY <1>1, <1>2, <2>1, <2>2 DEF Clean, NoProbeAhead, Steps, files
    <2>7. Together'
      BY <1>1, <1>2, <2>1 DEF Clean, Together, Training, Steps, TornTracker, live, history
    <2>8. Pieces'
      BY <1>1, <2>3 DEF Pieces, Saving, files, live
    <2> QED
      BY <2>4, <2>5, <2>6, <2>7, <2>8 DEF Clean
  <1> QED
    BY <1>3, <1>4, <1>5 DEF SaveInv

LEMMA ProbeSavedSaveInv == SaveInv /\ ProbeSaved => SaveInv'
  <1> SUFFICES ASSUME SaveInv, ProbeSaved PROVE SaveInv'
    OBVIOUS
  <1>1. /\ UNCHANGED <<max_ckpt_to_keep, actor_file, data_file, tracker, resume_mode, live,
                       previous_saved_paths, history>>
        /\ phase = "probe" /\ phase' = "training"
        /\ probe_file' = [probe_file EXCEPT ![global_steps] = Whole(probe)]
    BY DEF ProbeSaved, NextPiece
  <1>2. TypeOK /\ global_steps \in Steps /\ probe \in Seq(Nat)
    BY <1>1 DEF SaveInv, TypeOK, LoadInv, Training
  <1>3. TypeOK'
    BY <1>1, <1>2, WholeIsFile DEF TypeOK, live, history
  <1>4. LoadInv' /\ PathsInv'
    BY <1>1 DEF SaveInv, LoadInv, PathsInv, LastPath, Training, live, history
  <1>5. ASSUME ~rewriting'
        PROVE  Clean'
    <2>1. Clean
      BY <1>1, <1>5 DEF SaveInv, history
    <2>2. /\ tracker = global_steps
          /\ actor_file[global_steps] = Whole(actor)
          /\ data_file[global_steps] = Whole(actor)
          /\ Suffix(probe, actor) /\ (probe = actor \/ probe_lost)
      BY <1>1, <1>2, <2>1 DEF Clean, Pieces, Together, Training, ActorThere, OneKept,
          ActorKept
    <2>3. /\ probe_file'[global_steps] = Whole(probe)
          /\ \A s \in Steps : s # global_steps => probe_file'[s] = probe_file[s]
      BY <1>1, <1>2 DEF TypeOK
    <2>4. NamedProbe'
      BY <1>1, <2>2, <2>3 DEF NamedProbe, Whole, history
    <2>5. NoProbeAhead'
      BY <1>1, <1>2, <2>1, <2>2, <2>3 DEF Clean, NoProbeAhead, Steps
    <2>6. Named' /\ ActorThere' /\ Together' /\ Pieces'
      BY <1>1, <2>1 DEF Clean, Named, ActorThere, OneKept, ActorKept, Superseded, Together,
          Pieces, Training, Saving, live, history
    <2> QED
      BY <2>4, <2>5, <2>6 DEF Clean
  <1> QED
    BY <1>3, <1>4, <1>5 DEF SaveInv

-----------------------------------------------------------------------------
(* A crash, by what was being written.                                     *)
LEMMA CrashTypes == SaveInv /\ Crash => TypeOK' /\ LoadInv' /\ PathsInv'
  <1> SUFFICES ASSUME SaveInv, Crash PROVE TypeOK' /\ LoadInv' /\ PathsInv'
    OBVIOUS
  <1>1. /\ TypeOK /\ Dies /\ run' = run
        /\ phase \in {"actor", "data", "tracker", "probe"} => global_steps \in Steps
    BY DEF Crash, SaveInv, LoadInv, Training
  <1>a. max_ckpt_to_keep' \in KeepLimits
    BY <1>1 DEF Crash, TypeOK
  <1>2. << >> \in Seq(Nat) /\ << >> \in Seq(Steps) /\ Mixed \in Seq(Nat)
    BY EmptySeq DEF Mixed
  <1>3. \A h \in Seq(Nat) : Whole(h) \in DiskFiles /\ Torn \in DiskFiles
    BY WholeIsFile
  <1>4. actor_file' \in [Steps -> DiskFiles]
    <2>1. CASE phase # "actor"
      BY <1>1, <2>1 DEF Crash, Writes, TypeOK
    <2>2. CASE phase = "actor"
      <3>1. PICK r \in InterruptedShards(actor_file[global_steps], actor) :
              actor_file' = [actor_file EXCEPT ![global_steps] = r]
        BY <2>2 DEF Crash, Writes
      <3>2. r \in DiskFiles
        BY <1>1, <1>2, <1>3, <2>2 DEF InterruptedShards, Interrupted, TypeOK
      <3> QED
        BY <1>1, <3>1, <3>2 DEF TypeOK
    <2> QED
      BY <2>1, <2>2
  <1>5. data_file' \in [Steps -> DiskFiles]
    <2>1. CASE phase # "data"
      BY <1>1, <2>1 DEF Crash, Writes, TypeOK
    <2>2. CASE phase = "data"
      <3>1. PICK r \in Interrupted(data_file[global_steps], data) :
              data_file' = [data_file EXCEPT ![global_steps] = r]
        BY <2>2 DEF Crash, Writes
      <3>2. r \in DiskFiles
        BY <1>1, <1>3, <2>2 DEF Interrupted, TypeOK
      <3> QED
        BY <1>1, <3>1, <3>2 DEF TypeOK
    <2> QED
      BY <2>1, <2>2
  <1>6. probe_file' \in [Steps -> DiskFiles]
    <2>1. CASE phase # "probe"
      BY <1>1, <2>1 DEF Crash, Writes, TypeOK
    <2>2. CASE phase = "probe"
      <3>1. PICK r \in Interrupted(probe_file[global_steps], probe) :
              probe_file' = [probe_file EXCEPT ![global_steps] = r]
        BY <2>2 DEF Crash, Writes
      <3>2. r \in DiskFiles
        BY <1>1, <1>3, <2>2 DEF Interrupted, TypeOK
      <3> QED
        BY <1>1, <3>1, <3>2 DEF TypeOK
    <2> QED
      BY <2>1, <2>2
  <1>7. tracker' \in Steps \cup {NoTracker, TornTracker}
    BY <1>1 DEF Crash, TypeOK
  <1>8. TypeOK'
    BY <1>1, <1>a, <1>2, <1>4, <1>5, <1>6, <1>7, StepsAssumption DEF TypeOK, Dies
  <1>9. LoadInv' /\ PathsInv'
    BY <1>1 DEF Dies, LoadInv, PathsInv, NothingLive, Training
  <1> QED
    BY <1>8, <1>9

(* The actor or the dataloader of a checkpoint no tracker names yet.       *)
LEMMA CrashInPieces ==
    ASSUME SaveInv, Crash, Clean, phase \notin {"tracker", "probe"}
    PROVE  Clean'
  <1>1. /\ TypeOK /\ Dies /\ UNCHANGED <<probe_file, tracker>>
        /\ (probe_lost' <=> probe_lost)
    BY DEF Crash, Writes, SaveInv
  <1>2. phase \in {"actor", "data"} => global_steps \in Steps /\ tracker < global_steps
    BY DEF SaveInv, LoadInv, Clean, Pieces, Training, Saving
  <1>3. tracker \in Steps => /\ actor_file'[tracker] = actor_file[tracker]
                             /\ data_file'[tracker] = data_file[tracker]
    <2>1. tracker \in Steps => actor_file'[tracker] = actor_file[tracker]
      <3>1. CASE phase = "actor"
        <4>1. PICK r \in InterruptedShards(actor_file[global_steps], actor) :
                actor_file' = [actor_file EXCEPT ![global_steps] = r]
          BY <3>1 DEF Crash, Writes
        <4>2. tracker # global_steps
          BY <1>2, <3>1 DEF Steps
        <4> QED
          BY <1>1, <4>1, <4>2 DEF TypeOK
      <3>2. CASE phase # "actor"
        BY <3>2 DEF Crash, Writes
      <3> QED
        BY <3>1, <3>2
    <2>2. tracker \in Steps => data_file'[tracker] = data_file[tracker]
      <3>1. CASE phase = "data"
        <4>1. PICK r \in Interrupted(data_file[global_steps], data) :
                data_file' = [data_file EXCEPT ![global_steps] = r]
          BY <3>1 DEF Crash, Writes
        <4>2. tracker # global_steps
          BY <1>2, <3>1 DEF Steps
        <4> QED
          BY <1>1, <4>1, <4>2 DEF TypeOK
      <3>2. CASE phase # "data"
        BY <3>2 DEF Crash, Writes
      <3> QED
        BY <3>1, <3>2
    <2> QED
      BY <2>1, <2>2
  <1>4. Named'
    <2>1. CASE phase = "actor"
      <3>1. tracker \in Steps => ActorKept(tracker) /\ ActorKept(tracker)'
        BY <1>1, <1>3, <2>1 DEF Clean, ActorThere, ActorKept, OneKept, Training
      <3> QED
        BY <1>1, <1>3, <3>1 DEF Clean, Named
    <2>2. CASE phase # "actor"
      <3>1. UNCHANGED <<actor_file, max_ckpt_to_keep>>
        BY <2>2 DEF Crash, Writes
      <3> QED
        BY <1>1, <1>3, <3>1 DEF Clean, Named, ActorKept, Superseded
    <2> QED
      BY <2>1, <2>2
  <1>5. ActorThere' /\ NamedProbe' /\ NoProbeAhead'
    BY <1>1, <1>3 DEF Dies, Training, Clean, ActorThere, NamedProbe, NoProbeAhead
  <1>6. Together' /\ Pieces'
    BY <1>1 DEF Dies, Together, Pieces, Training, Saving
  <1> QED
    BY <1>4, <1>5, <1>6 DEF Clean

(* The tracker is old, torn, or names the new checkpoint without a probe.  *)
LEMMA CrashInTracker ==
    ASSUME SaveInv, Crash, Clean, phase = "tracker"
    PROVE  Clean'
  <1>1. /\ TypeOK /\ Dies /\ UNCHANGED files
        /\ tracker' \in {tracker, TornTracker, global_steps}
        /\ probe_lost => probe_lost'
        /\ tracker' = global_steps =>
             probe_lost' \/ probe_file[global_steps] = Whole(probe)
    BY DEF Crash, Writes, SaveInv, files
  <1>2. /\ global_steps \in Steps /\ tracker < global_steps /\ tracker # TornTracker
        /\ tracker \in Int /\ TornTracker \notin Steps
    BY <1>1 DEF SaveInv, LoadInv, Clean, Pieces, Together, Training, Saving, TypeOK, Steps,
        NoTracker, TornTracker
  <1>3. /\ actor_file[global_steps] = Whole(actor)
        /\ data_file[global_steps] = Whole(actor)
        /\ Len(actor) = global_steps /\ actor \in Seq(Nat)
        /\ probe_file[global_steps] = Missing
    BY <1>1, <1>2 DEF Clean, Pieces, Together, Training, NoProbeAhead, TypeOK
  <1>4. Missing # Whole(probe)
    BY DEF Missing, Whole
  <1>a. max_ckpt_to_keep' = max_ckpt_to_keep
    BY DEF Crash
  <1>5. Named' /\ ActorThere'
    BY <1>1, <1>2, <1>3, <1>a DEF Clean, Named, ActorThere, ActorKept, Superseded, Dies,
        Training, Whole, files
  <1>6. NamedProbe'
    <2>1. CASE tracker' = global_steps
      BY <1>1, <1>3, <1>4, <2>1, SuffixOfItself DEF NamedProbe, Missing, Whole, files
    <2>2. CASE tracker' # global_steps
      BY <1>1, <1>2, <2>2 DEF Clean, NamedProbe, files
    <2> QED
      BY <2>1, <2>2
  <1>7. NoProbeAhead'
    BY <1>1, <1>2 DEF Clean, NoProbeAhead, Steps, files
  <1>8. Together' /\ Pieces'
    BY <1>1 DEF Dies, Together, Pieces, Training, Saving
  <1> QED
    BY <1>5, <1>6, <1>7, <1>8 DEF Clean

(* The probe of the checkpoint the tracker names already.                  *)
LEMMA CrashInProbe ==
    ASSUME SaveInv, Crash, Clean, phase = "probe"
    PROVE  Clean'
  <1>1. /\ TypeOK /\ Dies /\ UNCHANGED <<actor_file, data_file, tracker>>
        /\ tracker = global_steps /\ global_steps \in Steps
        /\ probe_lost => probe_lost'
        /\ probe_lost' \/ probe_file'[global_steps] = Whole(probe)
    BY DEF Crash, Writes, SaveInv, LoadInv, Clean, Pieces, Training
  <1>2. PICK r \in Interrupted(probe_file[global_steps], probe) :
          probe_file' = [probe_file EXCEPT ![global_steps] = r]
    BY DEF Crash, Writes
  <1>3. /\ probe_file'[global_steps] = r
        /\ \A s \in Steps : s # global_steps => probe_file'[s] = probe_file[s]
    BY <1>1, <1>2 DEF TypeOK
  <1>4. /\ actor_file[global_steps] = Whole(actor)
        /\ Suffix(probe, actor) /\ (probe = actor \/ probe_lost)
        /\ data_file[global_steps] = actor_file[global_steps]
    BY <1>1 DEF Clean, Pieces, Together, Training, ActorThere, OneKept, ActorKept
  <1>5. NamedProbe'
    <2>1. CASE r = probe_file[global_steps]
      BY <1>1, <1>3, <1>4, <2>1 DEF Clean, NamedProbe, Whole
    <2>2. CASE r = Torn
      BY <1>1, <1>3, <2>2 DEF NamedProbe, Torn
    <2>3. CASE r = Whole(probe)
      BY <1>1, <1>3, <1>4, <2>3 DEF NamedProbe, Whole
    <2> QED
      BY <1>2, <2>1, <2>2, <2>3 DEF Interrupted
  <1>6. NoProbeAhead'
    BY <1>1, <1>3 DEF Clean, NoProbeAhead, Steps
  <1>a. max_ckpt_to_keep' = max_ckpt_to_keep
    BY DEF Crash
  <1>7. Named' /\ ActorThere' /\ Together' /\ Pieces'
    BY <1>1, <1>a DEF Clean, Named, ActorThere, ActorKept, Superseded, Dies, Together,
        Pieces, Training, Saving
  <1> QED
    BY <1>5, <1>6, <1>7 DEF Clean

LEMMA CrashSaveInv == SaveInv /\ Crash => SaveInv'
  <1> SUFFICES ASSUME SaveInv, Crash PROVE SaveInv'
    OBVIOUS
  <1>1. TypeOK' /\ LoadInv' /\ PathsInv'
    BY CrashTypes
  <1>2. ~rewriting' => Clean
    BY DEF Crash, SaveInv
  <1>3. ~rewriting' => Clean'
    BY <1>2, CrashInPieces, CrashInTracker, CrashInProbe
  <1> QED
    BY <1>1, <1>3 DEF SaveInv

-----------------------------------------------------------------------------
LEMMA NextSaveInv == SaveInv /\ [Next]_vars => SaveInv'
  <1> SUFFICES ASSUME SaveInv, [Next]_vars PROVE SaveInv'
    OBVIOUS
  <1>1. CASE Start
    BY <1>1, StartSaveInv
  <1>2. CASE StartsFresh \/ Resumes \/ LoadRaises
    BY <1>2, StartsFreshSaveInv, ResumesSaveInv, LoadRaisesSaveInv
  <1>3. CASE TrainStep \/ FitEnds
    BY <1>3, TrainStepSaveInv, FitEndsSaveInv
  <1>4. CASE EnsureCapacity \/ ActorSaved
    BY <1>4, EnsureCapacitySaveInv, ActorSavedSaveInv
  <1>5. CASE DataSaved \/ TrackerWritten \/ ProbeSaved
    BY <1>5, DataSavedSaveInv, TrackerWrittenSaveInv, ProbeSavedSaveInv
  <1>6. CASE Crash
    BY <1>6, CrashSaveInv
  <1>7. CASE UNCHANGED vars
    <2>1. UNCHANGED <<max_ckpt_to_keep, files, tracker, phase, resume_mode, live, previous_saved_paths,
                      history>>
      BY <1>7 DEF vars
    <2>2. TypeOK' /\ LoadInv' /\ PathsInv'
      BY <2>1 DEF SaveInv, TypeOK, LoadInv, PathsInv, LastPath, NothingLive, Training,
          files, live, history
    <2>3. ~rewriting' => Clean'
      BY <2>1 DEF SaveInv, Clean, Named, ActorThere, OneKept, ActorKept, Superseded,
          NamedProbe, NoProbeAhead, Together, Pieces,
          Training, Saving, files, live, history
    <2> QED
      BY <2>2, <2>3 DEF SaveInv
  <1> QED
    BY <1>1, <1>2, <1>3, <1>4, <1>5, <1>6, <1>7 DEF Next

(* Whatever is saved, removed, resumed or interrupted, the invariant of    *)
(* the pieces of a checkpoint holds (_save_checkpoint, _load_checkpoint).  *)
THEOREM SaveInvariant == Spec => []SaveInv
  <1>1. Init => SaveInv
    BY InitSaveInv
  <1>2. SaveInv /\ [Next]_vars => SaveInv'
    BY NextSaveInv
  <1> QED
    BY <1>1, <1>2, PTL DEF Spec

(* Types: files, tracker and live states keep their types, however many    *)
(* runs and crashes there are; no run makes more than LastStep steps.      *)
THEOREM TypeCorrect == Spec => []TypeOK
  BY SaveInvariant, PTL DEF SaveInv

(* The checkpoint that latest_checkpointed_iteration.txt names keeps its   *)
(* actor and its dataloader, of one save, through every save, removal and  *)
(* crash; if only one actor is kept, it keeps the actor until the next one *)
(* is whole, and no longer (ensure_checkpoint_capacity and                 *)
(* register_checkpoint).                                                   *)
THEOREM NamedKept == Spec => []NamedCheckpointKept
  <1>1. SaveInv => NamedCheckpointKept
    BY DEF SaveInv, Clean, Named, ActorKept, NamedCheckpointKept
  <1> QED
    BY <1>1, SaveInvariant, PTL

(* What trains together belongs together after any number of crashes and   *)
(* restarts: _load_checkpoint and _try_load_probe_checkpoint never combine *)
(* an actor, a dataloader and a probe of different trainings.              *)
THEOREM TrainedTogether == Spec => []ResumesTogether
  <1>1. SaveInv => ResumesTogether
    BY DEF SaveInv, Clean, Together, ResumesTogether
  <1> QED
    BY <1>1, SaveInvariant, PTL

-----------------------------------------------------------------------------
(* How far a run can be ahead of the checkpoint it would resume from.      *)
ProbeUntorn == tracker \in Steps => probe_file[tracker].state # "torn"

Pace ==
    /\ global_steps - tracker <= SaveFreq
    /\ phase \in {"training", "probe"} => global_steps - tracker <= global_steps % SaveFreq

LossInv == ~rewriting /\ Training => ProbeUntorn /\ Pace

(* The steps since the last multiple of save_freq.                         *)
LEMMA Remainder ==
    ASSUME NEW g \in Nat
    PROVE  /\ g % SaveFreq \in 0..SaveFreq - 1
           /\ (g + 1) % SaveFreq # 0 => (g + 1) % SaveFreq = (g % SaveFreq) + 1
  <1> DEFINE F == SaveFreq
             q == g \div F
             r == g % F
             q1 == (g + 1) \div F
             r1 == (g + 1) % F
  <1>1. F \in Nat /\ F > 0
    BY StepsAssumption
  <1>2. /\ q \in Nat /\ r \in 0..F - 1 /\ g = F * q + r
        /\ q1 \in Nat /\ r1 \in 0..F - 1 /\ g + 1 = F * q1 + r1
    BY <1>1
  <1> HIDE DEF F, q, r, q1, r1
  <1>3. CASE q1 <= q
    <2>1. CASE q1 + 1 <= q
      <3>1. F * (q1 + 1) <= F * q /\ F * (q1 + 1) = F * q1 + F
        BY <1>1, <1>2, <2>1
      <3>2. F * q \in Nat /\ F * q1 \in Nat
        BY <1>1, <1>2
      <3> QED
        BY <1>1, <1>2, <3>1, <3>2
    <2>2. q1 = q => r1 = r + 1
      <3>1. F * q \in Nat
        BY <1>1, <1>2
      <3> QED
        BY <1>1, <1>2, <3>1
    <2> QED
      BY <1>1, <1>2, <1>3, <2>1, <2>2 DEF F, r, r1
  <1>4. CASE q1 >= q + 1
    <2>1. F * (q + 1) <= F * q1 /\ F * (q + 1) = F * q + F
      BY <1>1, <1>2, <1>4
    <2>2. F * q \in Nat /\ F * q1 \in Nat
      BY <1>1, <1>2
    <2>3. r1 = 0
      BY <1>1, <1>2, <2>1, <2>2
    <2> QED
      BY <1>2, <2>3 DEF F, r, r1
  <1> QED
    BY <1>2, <1>3, <1>4

LEMMA InitLossInv == Init => LossInv
  BY DEF Init, LossInv, Training

LEMMA NextLossInv == SaveInv /\ LossInv /\ [Next]_vars => LossInv'
  <1> SUFFICES ASSUME SaveInv, LossInv, [Next]_vars, ~rewriting', Training'
               PROVE  ProbeUntorn' /\ Pace'
    BY DEF LossInv
  <1>1. /\ global_steps \in Nat
        /\ SaveFreq \in Nat /\ SaveFreq > 0
    BY StepsAssumption DEF SaveInv, TypeOK
  <1>2. CASE Start \/ LoadRaises \/ FitEnds \/ Crash
    BY <1>2 DEF Start, LoadRaises, FitEnds, Crash, Dies, Training
  <1>3. CASE StartsFresh
    <2>1. /\ tracker = NoTracker /\ global_steps = 0 /\ ~rewriting
          /\ UNCHANGED <<max_ckpt_to_keep, files, tracker, live>> /\ phase' = "training"
      BY <1>3 DEF StartsFresh, FromScratch, SaveInv, LoadInv, Training, NothingLive, history
    <2>2. tracker' = 0 /\ global_steps' = 0
      BY <2>1 DEF NoTracker, live
    <2>3. 0 % SaveFreq \in 0..SaveFreq - 1
      BY Remainder
    <2> QED
      BY <1>1, <2>2, <2>3 DEF ProbeUntorn, Pace, Steps
  <1>4. CASE Resumes
    <2>1. /\ tracker \in Steps /\ CanLoad(tracker) /\ global_steps' = tracker
          /\ UNCHANGED <<files, tracker>>
      BY <1>4 DEF Resumes, SaveInv, TypeOK, FromScratch
    <2>2. tracker \in Nat /\ tracker % SaveFreq \in 0..SaveFreq - 1
      BY <2>1, StepsAssumption, Remainder DEF Steps
    <2> QED
      BY <1>1, <2>1, <2>2 DEF ProbeUntorn, Pace, CanLoad, files
  <1>5. CASE \/ TrainStep \/ EnsureCapacity \/ ActorSaved \/ DataSaved \/ TrackerWritten
             \/ ProbeSaved \/ UNCHANGED vars
    <2>1. Training /\ ~rewriting
      BY <1>5 DEF TrainStep, EnsureCapacity, ActorSaved, DataSaved, TrackerWritten,
         ProbeSaved, vars, history, Training
    <2>2. /\ ProbeUntorn /\ Pace /\ Clean
          /\ tracker \in Nat /\ tracker <= global_steps
      BY <2>1, StepsAssumption
         DEF LossInv, SaveInv, TypeOK, Clean, Together, Steps, NoTracker
    <2>3. CASE TrainStep
      <3>1. /\ global_steps' = global_steps + 1 /\ UNCHANGED <<files, tracker>>
            /\ phase = "training" /\ phase' \in {"training", "capacity"}
            /\ phase' = "training" => ~((global_steps + 1) % SaveFreq = 0)
        BY <2>3 DEF TrainStep, SaveDue
      <3>2. global_steps - tracker <= global_steps % SaveFreq
        BY <2>2, <3>1 DEF Pace
      <3>3. /\ global_steps % SaveFreq \in 0..SaveFreq - 1
            /\ (global_steps + 1) % SaveFreq # 0
                 => (global_steps + 1) % SaveFreq = (global_steps % SaveFreq) + 1
        BY <1>1, Remainder
      <3>4. Pace'
        BY <1>1, <2>2, <3>1, <3>2, <3>3 DEF Pace
      <3> QED
        BY <2>2, <3>1, <3>4 DEF ProbeUntorn, files
    <2>4. CASE EnsureCapacity \/ ActorSaved \/ DataSaved
      <3>1. /\ UNCHANGED <<probe_file, tracker, global_steps>>
            /\ phase' \in {"actor", "data", "tracker"}
        BY <2>4 DEF EnsureCapacity, ActorSaved, DataSaved, NextPiece, live
      <3> QED
        BY <2>2, <3>1 DEF ProbeUntorn, Pace
    <2>5. CASE TrackerWritten
      <3>1. /\ phase = "tracker" /\ phase' = "probe" /\ tracker' = global_steps
            /\ UNCHANGED <<probe_file, global_steps>>
        BY <2>5 DEF TrackerWritten, NextPiece, files, live
      <3>2. global_steps \in Steps /\ global_steps > tracker
        BY <2>1, <2>2, <3>1 DEF SaveInv, LoadInv, Clean, Pieces, Saving
      <3>3. probe_file[global_steps] = Missing
        BY <2>2, <3>2, StepsAssumption DEF Clean, NoProbeAhead, TornTracker, Steps
      <3>4. global_steps % SaveFreq \in 0..SaveFreq - 1
        BY <1>1, Remainder
      <3> QED
        BY <1>1, <3>1, <3>3, <3>4 DEF ProbeUntorn, Pace, Missing
    <2>6. CASE ProbeSaved
      <3>1. /\ phase = "probe" /\ phase' = "training" /\ UNCHANGED <<tracker, global_steps>>
            /\ probe_file' = [probe_file EXCEPT ![global_steps] = Whole(probe)]
        BY <2>6 DEF ProbeSaved, NextPiece, live
      <3>2. ProbeUntorn'
        BY <2>2, <3>1 DEF ProbeUntorn, Whole, SaveInv, TypeOK
      <3> QED
        BY <2>2, <3>1, <3>2 DEF Pace
    <2>7. CASE UNCHANGED vars
      BY <2>2, <2>7 DEF vars, files, live, ProbeUntorn, Pace
    <2> QED
      BY <1>5, <2>3, <2>4, <2>5, <2>6, <2>7
  <1> QED
    BY <1>2, <1>3, <1>4, <1>5 DEF Next

(* RestartLosesLittle: between the steps of a run, also those of           *)
(* _save_checkpoint and of the removal in ensure_checkpoint_capacity, the  *)
(* checkpoint the tracker names can be loaded and is at most save_freq     *)
(* steps old, except while a save is under way with only one actor kept.   *)
THEOREM LittleIsLost == Spec => []RestartLosesLittle
  <1>1. SaveInv /\ LossInv => RestartLosesLittle
    <2> SUFFICES ASSUME SaveInv, LossInv, Training, ~rewriting
                 PROVE  /\ tracker # TornTracker
                        /\ tracker # NoTracker => CanLoad(tracker) \/ OneKept
                        /\ global_steps - tracker <= SaveFreq
      BY DEF RestartLosesLittle
    <2>1. tracker # TornTracker /\ global_steps - tracker <= SaveFreq /\ ProbeUntorn
      BY DEF SaveInv, Clean, Together, LossInv, Pace
    <2>2. ASSUME tracker # NoTracker
          PROVE  CanLoad(tracker) \/ OneKept
      <3>1. tracker \in Steps
        BY <2>1, <2>2 DEF SaveInv, TypeOK
      <3> QED
        BY <2>1, <3>1 DEF SaveInv, Clean, Named, ActorThere, ActorKept, ProbeUntorn, CanLoad
    <2> QED
      BY <2>1, <2>2
  <1> QED
    BY InitLossInv, NextLossInv, SaveInvariant, <1>1, PTL DEF Spec
=============================================================================
