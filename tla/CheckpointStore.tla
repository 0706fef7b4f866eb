-------------------------- MODULE CheckpointStore --------------------------
(***************************************************************************)
(* What checkpointing promises a training job: the last committed step     *)
(* survives every stop of the job, and a job that comes up goes on from    *)
(* exactly that step, with state saved by one run.  0 stands for "from     *)
(* scratch".                                                               *)
(***************************************************************************)
EXTENDS Naturals

CONSTANT Lives     \* the runs of the job

VARIABLES
  up,           \* the job is training
  progress,     \* steps behind the training state
  origin,       \* the run whose checkpoint the training state came from
  committed,    \* the last durable step
  committedBy   \* the run that committed it

storeVars == <<up, progress, origin, committed, committedBy>>

Init == up = FALSE /\ progress = 0 /\ origin = 0 /\ committed = 0 /\ committedBy = 0

Recover ==
  /\ ~up /\ up' = TRUE
  /\ progress' = committed /\ origin' = committedBy
  /\ UNCHANGED <<committed, committedBy>>

Work ==
  /\ up /\ progress' = progress + 1
  /\ UNCHANGED <<up, origin, committed, committedBy>>

Commit ==
  /\ up
  /\ committed' = progress /\ committed' > committed
  /\ committedBy' \in Lives /\ committedBy' > origin
  /\ UNCHANGED <<up, progress, origin>>

\* The job crashes or ends; what it did since the last commit is gone.
Stop ==
  /\ up /\ up' = FALSE /\ progress' = 0 /\ origin' = 0
  /\ UNCHANGED <<committed, committedBy>>

Next == Recover \/ Work \/ Commit \/ Stop

Spec == Init /\ [][Next]_storeVars
=============================================================================
