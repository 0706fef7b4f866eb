------------------------- MODULE CheckpointManager -------------------------
(***************************************************************************)
(* The SPMD checkpoint manager of one or more worker groups                *)
(* (verl/utils/checkpoint/fsdp_checkpoint_manager.py).  Every rank of a    *)
(* group runs save_checkpoint or load_checkpoint when its trainer calls it;*)
(* the trainers are modelled by the modules that extend this one.          *)
(*                                                                         *)
(* The files one rank writes into a checkpoint directory (model, optimizer *)
(* and extra state) are one shard.  The content of a file is the number of *)
(* the program run ("life") that wrote it: two files of one directory with *)
(* different contents come from two different runs.                        *)
(***************************************************************************)
EXTENDS Integers, Sequences, FiniteSets

CONSTANTS
  Ranks,      \* ranks of a worker group
  Rank0,      \* the rank that rotates old checkpoints
  NumGroups,  \* worker groups with a checkpoint: 1 actor, 2 critic
  MaxStep,    \* bound: largest global step
  MaxLife,    \* bound: runs of the program on one checkpoint directory
  MaxKeep     \* MaxKeep[g]: max_ckpt_to_keep of group g, 0 for None

ASSUME RanksAssumption == IsFiniteSet(Ranks) /\ Rank0 \in Ranks
ASSUME BoundsAssumption == MaxStep \in Nat \ {0} /\ MaxLife \in Nat \ {0}
ASSUME GroupsAssumption == NumGroups \in Nat \ {0} /\ MaxKeep \in [1..NumGroups -> Nat]

Groups == 1..NumGroups
Steps  == 1..MaxStep
Lives  == 1..MaxLife

Absent == 0
Torn   == -1
Content  == {Absent, Torn} \cup Lives
Whole(c) == c \in Lives

VARIABLES
  shard,                 \* shard[g][s][r]: the shard of rank r in global_step_s/<g>
  previous_saved_paths,  \* per group, the list of rank 0 (the others never read theirs)
  rpc,                   \* where each rank is in save_checkpoint or load_checkpoint
  loaded                 \* loaded[g][r]: the run that saved the state rank r loaded,
                         \* Absent when the state is freshly initialised

managerVars == <<shard, previous_saved_paths, rpc, loaded>>

RankPhases == {"idle", "called", "entered", "writing", "dumped", "returned", "loading", "loaded"}

ManagerTypeOK ==
  /\ shard \in [Groups -> [Steps -> [Ranks -> Content]]]
  /\ previous_saved_paths \in [Groups -> Seq(Steps)]
  /\ rpc \in [Ranks -> RankPhases]
  /\ loaded \in [Groups -> [Ranks -> Lives \cup {Absent}]]

ManagerInit ==
  /\ shard = [g \in Groups |-> [s \in Steps |-> [r \in Ranks |-> Absent]]]
  /\ previous_saved_paths = [g \in Groups |-> <<>>]
  /\ rpc = [r \in Ranks |-> "idle"]
  /\ loaded = [g \in Groups |-> [r \in Ranks |-> Absent]]

(***************************************************************************)
(* save_checkpoint                                                         *)
(***************************************************************************)

\* Mutants of KeepStart: one path too many, one too few.
KeepStartTooMany(g) ==
  IF MaxKeep[g] > 0 /\ Len(previous_saved_paths[g]) >= MaxKeep[g]
    THEN Len(previous_saved_paths[g]) - MaxKeep[g] + 2
    ELSE 0

KeepStartTooFew(g) ==
  IF MaxKeep[g] > 0 /\ Len(previous_saved_paths[g]) >= MaxKeep[g]
    THEN Len(previous_saved_paths[g]) - MaxKeep[g]
    ELSE 0

\* keep_start: how many of the oldest saved paths rank 0 drops.
KeepStart(g) ==
  IF MaxKeep[g] > 0 /\ Len(previous_saved_paths[g]) >= MaxKeep[g]
    THEN Len(previous_saved_paths[g]) - MaxKeep[g] + 1
    ELSE 0

Doomed(g) == {previous_saved_paths[g][i] : i \in 1..KeepStart(g)}

\* rmtree on rank 0 unlinks one file of a dropped directory.
RemoveOldFile(g) ==
  /\ rpc[Rank0] = "called"
  /\ \E s \in Doomed(g), r \in Ranks :
       /\ shard[g][s][r] # Absent
       /\ shard' = [shard EXCEPT ![g][s][r] = Absent]
  /\ UNCHANGED <<previous_saved_paths, rpc, loaded>>

\* The rank creates the directory and waits at the first barrier; rank 0
\* only after everything it drops is gone.
EnterSave(g, r) ==
  /\ rpc[r] = "called"
  /\ r = Rank0 => \A s \in Doomed(g), q \in Ranks : shard[g][s][q] = Absent
  /\ previous_saved_paths' =
       IF r = Rank0
         THEN [previous_saved_paths EXCEPT ![g] = SubSeq(@, KeepStart(g) + 1, Len(@))]
         ELSE previous_saved_paths
  /\ rpc' = [rpc EXCEPT ![r] = "entered"]
  /\ UNCHANGED <<shard, loaded>>

\* Past the first barrier the rank opens its files: they are incomplete.
BeginShard(g, s, r) ==
  /\ rpc[r] = "entered"
  /\ \A q \in Ranks : rpc[q] # "called"
  /\ shard' = [shard EXCEPT ![g][s][r] = Torn]
  /\ rpc' = [rpc EXCEPT ![r] = "writing"]
  /\ UNCHANGED <<previous_saved_paths, loaded>>

\* torch.save is done; the rank waits at the second barrier.
EndShard(g, s, r, life) ==
  /\ rpc[r] = "writing"
  /\ shard' = [shard EXCEPT ![g][s][r] = life]
  /\ rpc' = [rpc EXCEPT ![r] = "dumped"]
  /\ UNCHANGED <<previous_saved_paths, loaded>>

\* Past the second barrier the rank records the path and returns.
ReturnSave(g, s, r) ==
  /\ rpc[r] = "dumped"
  /\ \A q \in Ranks : rpc[q] \in {"dumped", "returned"}
  /\ previous_saved_paths' =
       IF r = Rank0
         THEN [previous_saved_paths EXCEPT ![g] = Append(@, s)]
         ELSE previous_saved_paths
  /\ rpc' = [rpc EXCEPT ![r] = "returned"]
  /\ UNCHANGED <<shard, loaded>>

SaveStep(g, s, life) ==
  \/ RemoveOldFile(g)
  \/ \E r \in Ranks :
       \/ EnterSave(g, r)
       \/ BeginShard(g, s, r)
       \/ EndShard(g, s, r, life)
       \/ ReturnSave(g, s, r)

(***************************************************************************)
(* load_checkpoint: each rank reads its own shard.  A missing or torn file *)
(* raises, and the exception reaches the trainer.                          *)
(***************************************************************************)
LoadShard(g, s, r) ==
  /\ rpc[r] = "loading" /\ Whole(shard[g][s][r])
  /\ rpc' = [rpc EXCEPT ![r] = "loaded"]
  /\ loaded' = [loaded EXCEPT ![g][r] = shard[g][s][r]]
  /\ UNCHANGED <<shard, previous_saved_paths>>

LoadRaises(g, s) ==
  \E r \in Ranks : rpc[r] = "loading" /\ ~Whole(shard[g][s][r])

(***************************************************************************)
(* What the trainer does to the ranks: call them all, or lose them.        *)
(***************************************************************************)
AllAt(phase)  == \A r \in Ranks : rpc[r] = phase
CallAll(phase) == rpc' = [r \in Ranks |-> phase]
ForgetManager == /\ previous_saved_paths' = [g \in Groups |-> <<>>]
                 /\ loaded' = [g \in Groups |-> [r \in Ranks |-> Absent]]
                 /\ CallAll("idle")
=============================================================================
