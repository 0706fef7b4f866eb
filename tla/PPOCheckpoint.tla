--------------------------- MODULE PPOCheckpoint ---------------------------
(***************************************************************************)
(* The PPO trainer's driver process (verl/trainer/ppo/ray_trainer.py): fit,*)
(* _save_checkpoint and _load_checkpoint, over the checkpoint managers of  *)
(* the actor and critic worker groups, with crashes of the whole job and   *)
(* restarts on the same default_local_dir.                                 *)
(***************************************************************************)
EXTENDS CheckpointManager

CONSTANTS
  SaveFreq,       \* trainer.save_freq, 0 when not positive
  StepsPerEpoch,  \* len(train_dataloader)
  TotalEpochs,    \* trainer.total_epochs
  TotalSteps,     \* total_training_steps
  ResumeModes,    \* the trainer.resume_mode values a run may be started with
  CrashPoints     \* the driver locations at which the job may die

ASSUME PPOAssumption ==
  /\ SaveFreq \in Nat
  /\ StepsPerEpoch \in Nat \ {0} /\ TotalEpochs \in Nat \ {0} /\ TotalSteps \in Nat \ {0}
  /\ ResumeModes \subseteq {"auto", "disable", "resume_path"}

VARIABLES
  pc,        \* the driver's location
  life,      \* which run of the program this is
  step,      \* global_steps
  group,     \* the worker group being saved or loaded
  epoch,     \* the epoch loop's counter
  pos,       \* batches the dataloader yielded in its current pass
  drawn,     \* batches behind the current training state, over all passes
  folders,   \* the global_step_<s> directories that exist
  data,      \* content of global_step_<s>/data.pt
  datapos,   \* the dataloader position data.pt records
  dataFrom,  \* the run that saved the dataloader state in use, as "loaded"
  tracker    \* latest_checkpointed_iteration.txt: Absent, Torn (empty) or a step

diskVars   == <<shard, folders, data, datapos, tracker>>
driverVars == <<pc, life, step, group, epoch, pos, drawn, dataFrom>>
vars       == <<managerVars, diskVars, driverVars>>

Running == {"load", "load_data", "train", "save", "data_open", "data_write",
            "tracker_open", "tracker_write"}

TypeOK ==
  /\ ManagerTypeOK
  /\ pc \in Running \cup {"down", "finished"}
  /\ life \in 0..MaxLife
  /\ step \in 0..MaxStep
  /\ group \in Groups
  /\ epoch \in 0..TotalEpochs
  /\ pos \in 0..StepsPerEpoch
  /\ drawn \in Nat
  /\ folders \in SUBSET Steps
  /\ data \in [Steps -> Content]
  /\ datapos \in [Steps -> Nat]
  /\ dataFrom \in Lives \cup {Absent}
  /\ tracker \in Steps \cup {Absent, Torn}

Init ==
  /\ ManagerInit
  /\ pc = "down" /\ life = 0 /\ step = 0 /\ group = 1
  /\ epoch = 0 /\ pos = 0 /\ drawn = 0 /\ dataFrom = Absent
  /\ folders = {} /\ tracker = Absent
  /\ data = [s \in Steps |-> Absent] /\ datapos = [s \in Steps |-> 0]

(***************************************************************************)
(* Starting a run: fit calls _load_checkpoint before anything else.        *)
(***************************************************************************)

\* A resumed pass of the dataloader goes on after the batches it had yielded.
PosOf(n) == IF n = 0 THEN 0 ELSE ((n - 1) % StepsPerEpoch) + 1

\* find_latest_ckpt_path: 0 stands for None.
FindLatest == IF tracker \in folders THEN tracker ELSE 0

FreshDriver ==
  /\ group' = 1 /\ epoch' = 0 /\ pos' = 0 /\ drawn' = 0 /\ dataFrom' = Absent

TrainFromScratch == pc' = "train" /\ step' = 1 /\ CallAll("idle")

LoadFrom(s) == pc' = "load" /\ step' = s /\ CallAll("loading")

Start(mode) ==
  /\ pc \in {"down", "finished"} /\ life < MaxLife
  /\ life' = life + 1
  /\ FreshDriver
  /\ previous_saved_paths' = [g \in Groups |-> <<>>]
  /\ loaded' = [g \in Groups |-> [r \in Ranks |-> Absent]]
  /\ \/ mode = "disable" /\ TrainFromScratch
     \/ mode = "auto" /\ tracker # Torn /\ FindLatest = 0 /\ TrainFromScratch
     \/ mode = "auto" /\ tracker # Torn /\ FindLatest # 0 /\ LoadFrom(FindLatest)
     \/ mode = "resume_path" /\ tracker # Torn /\ \E s \in folders : LoadFrom(s)
     \/ \* int('') raises: an empty tracker stops every mode that looks at it
        mode # "disable" /\ tracker = Torn /\ pc' = "down" /\ step' = 0 /\ CallAll("idle")
  /\ UNCHANGED diskVars

LoadGroup ==
  /\ pc = "load"
  /\ \E r \in Ranks : LoadShard(group, step, r)
  /\ UNCHANGED <<driverVars, folders, data, datapos, tracker>>

\* Mutant of GroupLoaded: the critic is forgotten.
GroupLoadedActorOnly ==
  /\ pc = "load" /\ AllAt("loaded")
  /\ pc' = "load_data" /\ group' = 1 /\ CallAll("idle")
  /\ UNCHANGED <<diskVars, previous_saved_paths, loaded,
                 life, step, epoch, pos, drawn, dataFrom>>

GroupLoaded ==
  /\ pc = "load" /\ AllAt("loaded")
  /\ IF group < NumGroups
       THEN pc' = pc /\ group' = group + 1 /\ CallAll("loading")
       ELSE pc' = "load_data" /\ group' = 1 /\ CallAll("idle")
  /\ UNCHANGED <<diskVars, previous_saved_paths, loaded,
                 life, step, epoch, pos, drawn, dataFrom>>

\* Mutants of LoadData: the dataloader always starts over; the step that was
\* saved is trained again.
LoadDataStartsOver ==
  /\ pc = "load_data" /\ data[step] # Torn
  /\ pc' = "train" /\ step' = step + 1 /\ dataFrom' = data[step]
  /\ UNCHANGED <<managerVars, diskVars, life, group, epoch, drawn, pos>>

LoadDataSameStep ==
  /\ pc = "load_data" /\ data[step] \notin {Absent, Torn}
  /\ pc' = "train" /\ step' = step
  /\ drawn' = datapos[step] /\ pos' = PosOf(datapos[step]) /\ dataFrom' = data[step]
  /\ UNCHANGED <<managerVars, diskVars, life, group, epoch>>

\* Without data.pt the dataloader starts over, with a warning.
LoadData ==
  /\ pc = "load_data" /\ data[step] # Torn
  /\ pc' = "train" /\ step' = step + 1
  /\ IF data[step] = Absent
       THEN UNCHANGED <<drawn, pos, dataFrom>>
       ELSE /\ drawn' = datapos[step] /\ pos' = PosOf(datapos[step])
            /\ dataFrom' = data[step]
  /\ UNCHANGED <<managerVars, diskVars, life, group, epoch>>

\* Everything the job keeps in memory is lost; the disk stays as it is.
StopJob ==
  /\ pc' = "down" /\ step' = 0 /\ FreshDriver /\ ForgetManager
  /\ UNCHANGED <<diskVars, life>>

LoadFails ==
  /\ \/ pc = "load" /\ LoadRaises(group, step)
     \/ pc = "load_data" /\ data[step] = Torn
  /\ StopJob

Crash == pc \in CrashPoints /\ life < MaxLife /\ StopJob

(***************************************************************************)
(* The loop of fit.                                                        *)
(***************************************************************************)
IsLastStep == step >= TotalSteps

\* The dataloader is exhausted: next epoch, or the end of fit.
NextEpoch ==
  /\ pc = "train" /\ pos = StepsPerEpoch
  /\ epoch' = epoch + 1
  /\ IF epoch + 1 < TotalEpochs
       THEN pc' = pc /\ pos' = 0
       ELSE pc' = "finished" /\ pos' = pos
  /\ UNCHANGED <<managerVars, diskVars, life, step, group, drawn, dataFrom>>

EndOfStep ==
  /\ step' = step + 1
  /\ pc' = IF IsLastStep THEN "finished" ELSE "train"

\* Mutants of TrainStep: no save every save_freq steps; none after the last step;
\* the tracker written before anything else.
StepAndSaveIf(save, first) ==
  /\ pc = "train" /\ pos < StepsPerEpoch /\ step < MaxStep
  /\ pos' = pos + 1 /\ drawn' = drawn + 1
  /\ IF SaveFreq > 0 /\ save
       THEN pc' = first /\ step' = step /\ CallAll("called")
       ELSE EndOfStep /\ CallAll("idle")
  /\ UNCHANGED <<diskVars, previous_saved_paths, loaded, life, group, epoch, dataFrom>>

TrainStepNoFreq(esi)       == StepAndSaveIf(IsLastStep \/ esi, "save")
TrainStepNoLast(esi)       == StepAndSaveIf(step % SaveFreq = 0 \/ esi, "save")
TrainStepPublishFirst(esi) ==
  StepAndSaveIf(IsLastStep \/ step % SaveFreq = 0 \/ esi, "tracker_open")

\* One training step; esi is should_save_ckpt_esi, a matter of wall-clock time.
TrainStep(esi) ==
  /\ pc = "train" /\ pos < StepsPerEpoch /\ step < MaxStep
  /\ pos' = pos + 1 /\ drawn' = drawn + 1
  /\ IF SaveFreq > 0 /\ (IsLastStep \/ step % SaveFreq = 0 \/ esi)
       THEN pc' = "save" /\ step' = step /\ CallAll("called")
       ELSE EndOfStep /\ CallAll("idle")
  /\ UNCHANGED <<diskVars, previous_saved_paths, loaded, life, group, epoch, dataFrom>>

(***************************************************************************)
(* _save_checkpoint: actor, critic, dataloader, tracker.                   *)
(***************************************************************************)
SaveGroup ==
  /\ pc = "save"
  /\ SaveStep(group, step, life)
  /\ folders' = IF \E r \in Ranks : rpc[r] = "called" /\ rpc'[r] = "entered"
                  THEN folders \cup {step} ELSE folders
  /\ UNCHANGED <<driverVars, data, datapos, tracker>>

GroupSaved ==
  /\ pc = "save" /\ AllAt("returned")
  /\ IF group < NumGroups
       THEN pc' = pc /\ group' = group + 1 /\ CallAll("called")
       ELSE pc' = "data_open" /\ group' = 1 /\ CallAll("idle")
  /\ UNCHANGED <<diskVars, previous_saved_paths, loaded,
                 life, step, epoch, pos, drawn, dataFrom>>

OpenData ==
  /\ pc = "data_open" /\ pc' = "data_write"
  /\ folders' = folders \cup {step}
  /\ data' = [data EXCEPT ![step] = Torn]
  /\ UNCHANGED <<managerVars, datapos, tracker, life, step, group, epoch, pos, drawn, dataFrom>>

WriteData ==
  /\ pc = "data_write" /\ pc' = "tracker_open"
  /\ data' = [data EXCEPT ![step] = life]
  /\ datapos' = [datapos EXCEPT ![step] = drawn]
  /\ UNCHANGED <<managerVars, folders, tracker, life, step, group, epoch, pos, drawn, dataFrom>>

\* open(..., "w") truncates the file that is there.
OpenTracker ==
  /\ pc = "tracker_open" /\ pc' = "tracker_write"
  /\ tracker' = Torn
  /\ UNCHANGED <<managerVars, folders, data, datapos, life, step, group, epoch, pos, drawn, dataFrom>>

WriteTracker ==
  /\ pc = "tracker_write"
  /\ tracker' = step
  /\ EndOfStep
  /\ UNCHANGED <<managerVars, folders, data, datapos, life, group, epoch, pos, drawn, dataFrom>>

Progress ==
  \/ \E mode \in ResumeModes : Start(mode)
  \/ LoadGroup \/ GroupLoaded \/ LoadData \/ LoadFails
  \/ NextEpoch
  \/ \E esi \in BOOLEAN : TrainStep(esi)
  \/ SaveGroup \/ GroupSaved \/ OpenData \/ WriteData \/ OpenTracker \/ WriteTracker

Next == Progress \/ Crash

Spec == Init /\ [][Next]_vars

\* A job that is up makes progress and one that is down is submitted again
\* while runs remain; nothing makes a crash happen.
FairSpec == Spec /\ WF_vars(Progress)

-----------------------------------------------------------------------------
(***************************************************************************)
(* Properties                                                              *)
(***************************************************************************)

\* The checkpoint the tracker names has every shard of every group and the
\* dataloader state, all written by one run (_save_checkpoint publishes last
\* and rotation spares what is published).
PublishedComplete ==
  tracker \in Steps =>
    /\ data[tracker] \in Lives
    /\ \A g \in Groups, r \in Ranks : shard[g][tracker][r] = data[tracker]

Trained == Running \ {"load", "load_data"}

\* Actor, critic and dataloader never go on training from states that different
\* runs saved, whatever a crash left half overwritten (_load_checkpoint).
ResumeConsistent ==
  pc \in Trained =>
    \E c \in Lives \cup {Absent} :
      /\ \A g \in Groups, r \in Ranks : loaded[g][r] = c
      /\ dataFrom = c

\* global_steps and the dataloader agree: the batches behind the training state
\* are exactly the first global_steps, none skipped or trained twice, also when
\* the state went through a checkpoint (fit, data.pt).
DataAligned == pc = "train" => drawn = step - 1

\* Between steps, a crash costs fewer than save_freq finished steps (the save
\* condition of fit).
BoundedLoss ==
  pc = "train" /\ SaveFreq > 0 =>
    step - 1 - (IF tracker \in Steps THEN tracker ELSE 0) < SaveFreq

\* Within one run, the directories of a group that this run has filled never
\* exceed max_ckpt_to_keep, not even while the next one is being written.
RotationBound ==
  pc \in Running =>
    \A g \in Groups :
      MaxKeep[g] > 0 =>
        Cardinality({s \in Steps : \E r \in Ranks : shard[g][s][r] = life}) <= MaxKeep[g]

\* fit ends only with its last step on disk and named by the tracker.
FinishedIsPublished ==
  pc = "finished" /\ SaveFreq > 0 => tracker \in Steps /\ tracker >= TotalSteps

\* A published checkpoint is never silently abandoned for a training from
\* scratch: find_latest_ckpt_path finds the directory the tracker names.
PublishedIsFound == tracker \in Steps => FindLatest = tracker

\* However the job crashes, once crashes stop the resubmitted job finishes.
EventuallyFinished == <>[](pc = "finished")

-----------------------------------------------------------------------------
(***************************************************************************)
(* The abstract store this implements.  The commit happens when the tracker*)
(* is opened for writing: nothing but its content is left to write.        *)
(***************************************************************************)
Uniform(c) == dataFrom = c /\ \A g \in Groups, r \in Ranks : loaded[g][r] = c

Committed ==
  IF pc = "tracker_write" THEN step ELSE IF tracker \in Steps THEN tracker ELSE 0

Store == INSTANCE CheckpointStore WITH
  up          <- pc \in Trained,
  progress    <- IF pc = "train" THEN step - 1 ELSE IF pc \in Trained THEN step ELSE 0,
  origin      <- IF pc \notin Trained THEN 0
                 ELSE IF \E c \in Lives \cup {Absent} : Uniform(c)
                        THEN CHOOSE c \in Lives \cup {Absent} : Uniform(c)
                        ELSE Torn,
  committed   <- Committed,
  committedBy <- IF Committed = 0 THEN 0 ELSE data[Committed]

\* A resubmitted job goes on from the last committed step and from nothing else.
ImplementsStore == Store!Spec

-----------------------------------------------------------------------------
(***************************************************************************)
(* The inductive invariant behind PublishedComplete and ResumeConsistent,  *)
(* for runs in mode "auto" that keep more than one checkpoint.             *)
(***************************************************************************)
Publishing == {"tracker_open", "tracker_write"}
WritingDriver == {"data_open", "data_write"} \cup Publishing

\* A group's list ends with the published step, or with the step being saved.
Settled(g) ==
  LET p == previous_saved_paths[g] IN p # <<>> => tracker \in Steps /\ p[Len(p)] = tracker
Recorded(g) ==
  LET p == previous_saved_paths[g] IN p # <<>> /\ p[Len(p)] = step

PathsIncrease ==
  \A g \in Groups : \A i, j \in 1..Len(previous_saved_paths[g]) :
    i < j => previous_saved_paths[g][i] < previous_saved_paths[g][j]

GroupWritten(g) == \A r \in Ranks : shard[g][step][r] = life

\* What the loop may rely on: the bounds, and a tracker behind the current step.
LoopInv ==
  /\ pc \in Running => life \in Lives /\ step \in Steps /\ epoch < TotalEpochs
  /\ tracker \in Steps => tracker < MaxStep
  /\ pc \in Running \ {"train"} => step < MaxStep
  /\ pc \in Running \ {"load", "save"} => group = 1
  /\ pc \in {"train", "save", "data_open", "data_write", "tracker_open"} =>
       tracker = Absent \/ (tracker \in Steps /\ tracker < step)

LoadInv ==
  /\ pc \in {"load", "load_data"} =>
       tracker = step /\ \A g \in Groups : previous_saved_paths[g] = <<>>
  /\ pc = "load" =>
       /\ \A g \in Groups, r \in Ranks : g < group => loaded[g][r] = data[step]
       /\ \A r \in Ranks : rpc[r] = "loaded" => loaded[group][r] = data[step]
  /\ pc = "load_data" => \A g \in Groups, r \in Ranks : loaded[g][r] = data[step]

SaveInv ==
  /\ pc = "train" => \A g \in Groups : Settled(g)
  /\ pc = "save" =>
       /\ \A g \in Groups : (g < group => Recorded(g) /\ GroupWritten(g))
                         /\ (g > group => Settled(g))
       /\ IF rpc[Rank0] = "returned" THEN Recorded(group) ELSE Settled(group)
       /\ \A r \in Ranks :
            rpc[r] \in {"dumped", "returned"} => shard[group][step][r] = life
  /\ pc \in WritingDriver => \A g \in Groups : Recorded(g) /\ GroupWritten(g)
  /\ pc \in Publishing => data[step] = life
  /\ pc \in WritingDriver \ {"data_open"} => step \in folders

\* Rotation, the barriers and the order of _save_checkpoint together keep the
\* published checkpoint whole: what holds at every location of the driver.
IInv ==
  /\ TypeOK /\ PublishedComplete /\ PublishedIsFound /\ ResumeConsistent
  /\ PathsIncrease /\ LoopInv /\ LoadInv /\ SaveInv

-----------------------------------------------------------------------------
(***************************************************************************)
(* What comments and documentation say and the code does not do.           *)
(***************************************************************************)

\* The tracker is written "for atomic usage": a job that stopped left it absent
\* or naming a step.
TrackerWriteAtomic == pc = "down" => tracker # Torn
=============================================================================
