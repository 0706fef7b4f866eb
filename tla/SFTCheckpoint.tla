--------------------------- MODULE SFTCheckpoint ---------------------------
(***************************************************************************)
(* The SFT trainer (verl/trainer/fsdp_sft_trainer.py): fit,                *)
(* save_checkpoint and load_checkpoint.  There is no driver: every rank    *)
(* runs the same loop, held together by the collectives of each training   *)
(* step, so the loop is one process and only the checkpoint manager shows  *)
(* the ranks apart.  The shards lie in global_step_<s> itself, next to     *)
(* data.pt, so rotation removes the whole directory; the tracker is        *)
(* replaced with a rename.  Runs are started with resume_mode "auto" and no*)
(* resume_from_path; PPOCheckpoint has the other modes.                    *)
(***************************************************************************)
EXTENDS CheckpointManager

CONSTANTS
  SaveFreq,       \* trainer.save_freq, 0 when not positive
  StepsPerEpoch,  \* len(train_dataloader)
  TotalEpochs,    \* trainer.total_epochs
  TotalSteps      \* total_training_steps

ASSUME SFTAssumption ==
  /\ NumGroups = 1
  /\ SaveFreq \in Nat
  /\ StepsPerEpoch \in Nat \ {0} /\ TotalEpochs \in Nat \ {0} /\ TotalSteps \in Nat \ {0}

VARIABLES
  pc,        \* where the ranks are
  life,      \* which run of the program this is
  step,      \* global_step: steps behind the training state
  epoch,     \* the epoch loop's counter
  pos,       \* batches the dataloader yielded in its current pass
  folders,   \* the global_step_<s> directories that exist
  data,      \* content of global_step_<s>/data.pt
  datapos,   \* the position in the pass that data.pt records
  tracker    \* latest_checkpointed_iteration.txt: Absent or a step

diskVars == <<shard, folders, data, datapos, tracker>>
loopVars == <<pc, life, step, epoch, pos>>
vars     == <<managerVars, diskVars, loopVars>>

Running == {"load", "train", "save", "data_write", "rename"}

TypeOK ==
  /\ ManagerTypeOK
  /\ pc \in Running \cup {"down", "finished"}
  /\ life \in 0..MaxLife
  /\ step \in 0..MaxStep
  /\ epoch \in Nat
  /\ pos \in 0..StepsPerEpoch
  /\ folders \in SUBSET Steps
  /\ data \in [Steps -> Content]
  /\ datapos \in [Steps -> 0..StepsPerEpoch]
  /\ tracker \in Steps \cup {Absent}

Init ==
  /\ ManagerInit
  /\ pc = "down" /\ life = 0 /\ step = 0 /\ epoch = 0 /\ pos = 0
  /\ folders = {} /\ tracker = Absent
  /\ data = [s \in Steps |-> Absent] /\ datapos = [s \in Steps |-> 0]

\* Mutant of FindLatest: the checkpoint before the tracked one.
FindPrevious ==
  IF \E s \in folders : s < tracker
    THEN CHOOSE s \in folders : s < tracker /\ \A t \in folders : t < tracker => t <= s
    ELSE 0

FindLatest == IF tracker \in folders THEN tracker ELSE 0

\* fit starts its epoch loop at resume_global_step // steps_per_epoch.
StartLoop(s) == epoch' = s \div StepsPerEpoch

TrainFromScratch == pc' = "train" /\ step' = 0 /\ StartLoop(0) /\ CallAll("idle")

LoadFrom(s) == pc' = "load" /\ step' = s /\ StartLoop(s) /\ CallAll("loading")

Start ==
  /\ pc \in {"down", "finished"} /\ life < MaxLife
  /\ life' = life + 1 /\ pos' = 0
  /\ previous_saved_paths' = [g \in Groups |-> <<>>]
  /\ loaded' = [g \in Groups |-> [r \in Ranks |-> Absent]]
  /\ IF FindLatest = 0 THEN TrainFromScratch ELSE LoadFrom(FindLatest)
  /\ UNCHANGED diskVars

LoadModel ==
  /\ pc = "load"
  /\ \E r \in Ranks : LoadShard(1, step, r)
  /\ UNCHANGED <<loopVars, folders, data, datapos, tracker>>

\* Without data.pt the dataloader starts over, with a warning.
LoadData ==
  /\ pc = "load" /\ AllAt("loaded") /\ data[step] # Torn
  /\ pc' = "train" /\ CallAll("idle")
  /\ pos' = IF data[step] = Absent THEN 0 ELSE datapos[step]
  /\ UNCHANGED <<diskVars, previous_saved_paths, loaded, life, step, epoch>>

StopJob ==
  /\ pc' = "down" /\ step' = 0 /\ epoch' = 0 /\ pos' = 0 /\ ForgetManager
  /\ UNCHANGED <<diskVars, life>>

\* A load that raises is one of the crashes: without one it goes no further.
Crash == pc \in Running /\ life < MaxLife /\ StopJob

NextEpoch ==
  /\ pc = "train" /\ (pos = StepsPerEpoch \/ epoch >= TotalEpochs)
  /\ IF epoch + 1 < TotalEpochs
       THEN pc' = pc /\ epoch' = epoch + 1 /\ pos' = 0
       ELSE pc' = "finished" /\ UNCHANGED <<epoch, pos>>
  /\ UNCHANGED <<managerVars, diskVars, life, step>>

IsLast(s) == s >= TotalSteps

AfterStep(s) == pc' = IF IsLast(s) THEN "finished" ELSE "train"

\* Mutant of TrainStep: the last step is not saved.
TrainStepNoLast ==
  /\ pc = "train" /\ pos < StepsPerEpoch /\ epoch < TotalEpochs /\ step < MaxStep
  /\ pos' = pos + 1 /\ step' = step + 1
  /\ IF SaveFreq > 0 /\ (step + 1) % SaveFreq = 0 /\ ~IsLast(step + 1)
       THEN pc' = "save" /\ CallAll("called")
       ELSE AfterStep(step + 1) /\ CallAll("idle")
  /\ UNCHANGED <<diskVars, previous_saved_paths, loaded, life, epoch>>

TrainStep ==
  /\ pc = "train" /\ pos < StepsPerEpoch /\ epoch < TotalEpochs /\ step < MaxStep
  /\ pos' = pos + 1 /\ step' = step + 1
  /\ IF IsLast(step + 1) \/ (SaveFreq > 0 /\ (step + 1) % SaveFreq = 0)
       THEN pc' = "save" /\ CallAll("called")
       ELSE AfterStep(step + 1) /\ CallAll("idle")
  /\ UNCHANGED <<diskVars, previous_saved_paths, loaded, life, epoch>>

(***************************************************************************)
(* save_checkpoint: the manager, then rank 0 alone.                        *)
(***************************************************************************)

\* rmtree on rank 0 also unlinks the data.pt of a dropped directory.
RemoveOldData ==
  /\ pc = "save" /\ rpc[Rank0] = "called"
  /\ \E s \in Doomed(1) :
       data[s] # Absent /\ data' = [data EXCEPT ![s] = Absent]
  /\ UNCHANGED <<managerVars, loopVars, folders, datapos, tracker>>

Entering(r) == rpc[r] = "called" /\ rpc'[r] = "entered"

SaveModel ==
  /\ pc = "save"
  /\ SaveStep(1, step, life)
  /\ Entering(Rank0) => \A s \in Doomed(1) : data[s] = Absent
  /\ folders' = (folders \ (IF Entering(Rank0) THEN Doomed(1) ELSE {}))
                \cup (IF \E r \in Ranks : Entering(r) THEN {step} ELSE {})
  /\ UNCHANGED <<loopVars, data, datapos, tracker>>

OpenData ==
  /\ pc = "save" /\ AllAt("returned")
  /\ pc' = "data_write" /\ CallAll("idle")
  /\ folders' = folders \cup {step}
  /\ data' = [data EXCEPT ![step] = Torn]
  /\ UNCHANGED <<shard, previous_saved_paths, loaded, datapos, tracker, life, step, epoch, pos>>

\* Mutants of WriteData: a batch fetched ahead is counted as trained; the state
\* saved is that of the step before.
WriteDataAhead ==
  /\ pc = "data_write" /\ pc' = "rename"
  /\ data' = [data EXCEPT ![step] = life]
  /\ datapos' = [datapos EXCEPT ![step] = pos + 1]
  /\ UNCHANGED <<managerVars, folders, tracker, life, step, epoch, pos>>

WriteDataBehind ==
  /\ pc = "data_write" /\ pc' = "rename"
  /\ data' = [data EXCEPT ![step] = life]
  /\ datapos' = [datapos EXCEPT ![step] = pos - 1]
  /\ UNCHANGED <<managerVars, folders, tracker, life, step, epoch, pos>>

WriteData ==
  /\ pc = "data_write" /\ pc' = "rename"
  /\ data' = [data EXCEPT ![step] = life]
  /\ datapos' = [datapos EXCEPT ![step] = pos]
  /\ UNCHANGED <<managerVars, folders, tracker, life, step, epoch, pos>>

\* The new tracker is complete in a temporary file when it replaces the old one.
RenameTracker ==
  /\ pc = "rename"
  /\ tracker' = step
  /\ AfterStep(step)
  /\ UNCHANGED <<managerVars, folders, data, datapos, life, step, epoch, pos>>

Progress ==
  \/ Start \/ LoadModel \/ LoadData
  \/ NextEpoch \/ TrainStep
  \/ RemoveOldData \/ SaveModel \/ OpenData \/ WriteData \/ RenameTracker

Next == Progress \/ Crash

Spec == Init /\ [][Next]_vars

FairSpec == Spec /\ WF_vars(Progress)

-----------------------------------------------------------------------------
(***************************************************************************)
(* Properties                                                              *)
(***************************************************************************)

\* The checkpoint the tracker names has every shard and the dataloader state,
\* all written by one run.
PublishedComplete ==
  tracker \in Steps =>
    /\ data[tracker] \in Lives
    /\ \A r \in Ranks : shard[1][tracker][r] = data[tracker]

\* global_step, the epoch loop and the dataloader agree: no batch of the epoch is
\* skipped or trained twice, also when the state went through a checkpoint.
DataAligned ==
  pc = "train" /\ epoch < TotalEpochs => step = epoch * StepsPerEpoch + pos

\* Within one run, the directories this run has filled never exceed
\* max_ckpt_to_keep.
RotationBound ==
  pc \in Running /\ MaxKeep[1] > 0 =>
    Cardinality({s \in Steps : \E r \in Ranks : shard[1][s][r] = life}) <= MaxKeep[1]

\* fit ends only when total_training_steps are trained, on disk and published.
FinishedIsComplete == pc = "finished" => step >= TotalSteps /\ tracker = step

\* However the job crashes, once crashes stop the resubmitted job finishes.
EventuallyFinished == <>[](pc = "finished")

\* A job that has finished still holds its state, until it is started again.
Trained == (Running \ {"load"}) \cup {"finished"}

Store == INSTANCE CheckpointStore WITH
  up          <- pc \in Trained,
  progress    <- IF pc \in Trained THEN step ELSE 0,
  origin      <- IF pc \notin Trained THEN 0
                 ELSE IF \E c \in Lives \cup {Absent} : \A r \in Ranks : loaded[1][r] = c
                        THEN loaded[1][Rank0]
                        ELSE Torn,
  committed   <- tracker,
  committedBy <- IF tracker = Absent THEN 0 ELSE data[tracker]

\* A resubmitted job goes on from the last committed step and from nothing else.
ImplementsStore == Store!Spec

\* "The dataloader will automatically resume from where it left off": a run that
\* ends its epoch loop has trained total_training_steps.
ReachesTotal == pc = "finished" => step >= TotalSteps
=============================================================================
