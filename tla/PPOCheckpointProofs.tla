------------------------ MODULE PPOCheckpointProofs ------------------------
(***************************************************************************)
(* What holds of PPOCheckpoint for every number of ranks, groups, steps    *)
(* and runs.  In three parts: the disk and the processes when runs are     *)
(* resumed in mode "auto" and no group is limited to a single checkpoint;  *)
(* how far training and its checkpoints have come, under the same          *)
(* condition; and what holds in every resume mode, with any retention and  *)
(* wherever the job crashes.                                               *)
(***************************************************************************)
EXTENDS PPOCheckpoint, SequenceTheorems, FiniteSetTheorems, TLAPS

AutoRotating ==
  /\ ResumeModes = {"auto"}
  /\ CrashPoints \subseteq Running
  /\ \A g \in Groups : MaxKeep[g] # 1

LEMMA ConstantFacts ==
  /\ Rank0 \in Ranks
  /\ MaxStep \in Nat \ {0} /\ MaxLife \in Nat \ {0} /\ NumGroups \in Nat \ {0}
  /\ MaxKeep \in [1..NumGroups -> Nat]
  /\ SaveFreq \in Nat /\ StepsPerEpoch \in Nat \ {0} /\ TotalEpochs \in Nat \ {0}
  /\ TotalSteps \in Nat \ {0}
  /\ 1 \in Groups
BY RanksAssumption, BoundsAssumption, GroupsAssumption, PPOAssumption DEF Groups

\* A resumed dataloader position lies within one pass.
LEMMA PosOfType == \A n \in Nat : PosOf(n) \in 0..StepsPerEpoch
<1> SUFFICES ASSUME NEW n \in Nat PROVE PosOf(n) \in 0..StepsPerEpoch
  OBVIOUS
<1>1. CASE n = 0
  BY <1>1, ConstantFacts DEF PosOf
<1>2. CASE n # 0
  <2>1. (n - 1) % StepsPerEpoch \in 0..(StepsPerEpoch - 1)
    BY <1>2, ConstantFacts
  <2> QED BY <1>2, <2>1, ConstantFacts DEF PosOf
<1> QED BY <1>1, <1>2

\* Everything rotation drops is older than the published step.
LEMMA DoomedIsOld ==
  ASSUME TypeOK, PathsIncrease, AutoRotating, NEW g \in Groups, Settled(g),
         NEW s \in Doomed(g)
  PROVE  s \in Steps /\ tracker \in Steps /\ s < tracker
<1> DEFINE p == previous_saved_paths[g]
           k == KeepStart(g)
<1>1. p \in Seq(Steps) /\ MaxKeep[g] \in Nat /\ MaxKeep[g] # 1
  BY ConstantFacts DEF TypeOK, ManagerTypeOK, AutoRotating, Groups
<1>2. PICK i \in 1..k : s = p[i]
  BY DEF Doomed
<1>3. k = Len(p) - MaxKeep[g] + 1 /\ MaxKeep[g] >= 2 /\ Len(p) >= MaxKeep[g]
  BY <1>1, <1>2 DEF KeepStart
<1>4. i \in 1..Len(p) /\ Len(p) \in 1..Len(p) /\ i < Len(p) /\ p # <<>>
  BY <1>1, <1>2, <1>3
<1>5. tracker \in Steps /\ p[Len(p)] = tracker
  BY <1>4 DEF Settled
<1>6. p[i] < p[Len(p)]
  BY <1>4 DEF PathsIncrease
<1>7. p[i] \in Steps
  BY <1>1, <1>4
<1> QED BY <1>2, <1>5, <1>6, <1>7

\* A sequence without its first k elements.
LEMMA DropFirst ==
  ASSUME NEW S, NEW p \in Seq(S), NEW k \in 0..Len(p)
  PROVE  LET q == SubSeq(p, k + 1, Len(p)) IN
           /\ q \in Seq(S) /\ Len(q) \in Nat /\ Len(q) = Len(p) - k
           /\ \A i \in 1..Len(q) : i + k \in 1..Len(p) /\ q[i] = p[i + k]
<1> DEFINE n == Len(p)
<1>1. n \in Nat /\ k \in Nat /\ k <= n
  OBVIOUS
<1>2. /\ SubSeq(p, k + 1, n) \in Seq(S)
      /\ Len(SubSeq(p, k + 1, n)) = n - k
      /\ \A i \in 1..(n - k) : SubSeq(p, k + 1, n)[i] = p[i + k]
  OBVIOUS
<1> HIDE DEF n
<1>3. n - k \in Nat /\ \A i \in 1..(n - k) : i + k \in 1..n
  BY <1>1
<1> QED BY <1>2, <1>3 DEF n

\* What rotation leaves of a list is increasing and ends as the list did.
LEMMA RotationSettles ==
  ASSUME TypeOK, PathsIncrease, AutoRotating, NEW g \in Groups, Settled(g)
  PROVE  LET q == SubSeq(previous_saved_paths[g], KeepStart(g) + 1,
                         Len(previous_saved_paths[g]))
         IN  /\ q \in Seq(Steps)
             /\ \A i, j \in 1..Len(q) : i < j => q[i] < q[j]
             /\ q # <<>> => tracker \in Steps /\ q[Len(q)] = tracker
<1> DEFINE p == previous_saved_paths[g]
           k == KeepStart(g)
           q == SubSeq(p, k + 1, Len(p))
<1>1. p \in Seq(Steps) /\ MaxKeep[g] \in Nat /\ MaxKeep[g] # 1
  BY ConstantFacts DEF TypeOK, ManagerTypeOK, AutoRotating, Groups
<1>2. k \in 0..Len(p) /\ Len(p) \in Nat
  BY <1>1 DEF KeepStart
<1>3. /\ q \in Seq(Steps) /\ Len(q) \in Nat /\ Len(q) = Len(p) - k
      /\ \A i \in 1..Len(q) : i + k \in 1..Len(p) /\ q[i] = p[i + k]
  BY <1>1, <1>2, DropFirst
<1> HIDE DEF k, q
<1>4. \A i, j \in 1..Len(q) : i < j => q[i] < q[j]
  <2> SUFFICES ASSUME NEW i \in 1..Len(q), NEW j \in 1..Len(q), i < j
               PROVE  q[i] < q[j]
    OBVIOUS
  <2>1. k \in Nat /\ i \in Nat /\ j \in Nat
    BY <1>2, <1>3
  <2>2. i + k < j + k
    BY <2>1
  <2> QED BY <1>3, <2>2 DEF PathsIncrease
<1>5. ASSUME q # <<>> PROVE tracker \in Steps /\ q[Len(q)] = tracker
  <2> DEFINE m == Len(q)
  <2>1. m \in Nat /\ m # 0
    BY <1>3, <1>5
  <2>2. m + k = Len(p) /\ q[m] = p[m + k]
    <3>1. m + k = Len(p)
      BY <1>2, <1>3
    <3>2. m \in 1..m
      BY <2>1
    <3> QED BY <1>3, <3>1, <3>2
  <2>3. p # <<>>
    BY <1>1, <1>2, <2>1, <2>2
  <2> QED BY <2>2, <2>3 DEF Settled
<1> QED BY <1>3, <1>4, <1>5 DEF q, k

-----------------------------------------------------------------------------
LEMMA InitIInv == Init => IInv
<1> SUFFICES ASSUME Init PROVE IInv
  OBVIOUS
<1> USE ConstantFacts DEF Init, ManagerInit
<1>1. TypeOK
  BY DEF TypeOK, ManagerTypeOK, RankPhases, Content, Absent, Torn, Running, Steps
<1>2. tracker \notin Steps /\ pc \notin Running
  BY DEF Steps, Absent, Running
<1>3. PathsIncrease
  BY DEF PathsIncrease
<1> QED
  BY <1>1, <1>2, <1>3 DEF IInv, PublishedComplete, PublishedIsFound, ResumeConsistent, Trained, LoopInv,
     LoadInv, SaveInv, Running, WritingDriver, Publishing

\* What stopping the job keeps: the disk, hence what is published.
LEMMA StopIInv == ASSUME IInv, StopJob PROVE IInv'
<1> USE ConstantFacts DEF StopJob, FreshDriver, ForgetManager, CallAll, diskVars
<1>1. TypeOK'
  BY DEF IInv, TypeOK, ManagerTypeOK, RankPhases, Running, Absent
<1>2. (PublishedComplete /\ (tracker \in Steps => tracker < MaxStep))'
  BY DEF IInv, PublishedComplete, LoopInv
<1>2a. PublishedIsFound'
  BY DEF IInv, PublishedIsFound, FindLatest
<1>3. PathsIncrease'
  BY DEF PathsIncrease
<1>4. pc' = "down"
  OBVIOUS
<1> HIDE DEF StopJob
<1> QED
  BY <1>1, <1>2, <1>2a, <1>3, <1>4 DEF IInv, ResumeConsistent, Trained, LoopInv, LoadInv, SaveInv,
     Running, WritingDriver, Publishing

LEMMA StartIInv ==
  ASSUME AutoRotating, IInv, NEW mode \in ResumeModes, Start(mode) PROVE IInv'
<1>1. mode = "auto"
  BY DEF AutoRotating
<1>2. /\ UNCHANGED <<shard, folders, data, datapos, tracker>>
      /\ life' = life + 1 /\ life < MaxLife
      /\ group' = 1 /\ epoch' = 0 /\ pos' = 0 /\ drawn' = 0 /\ dataFrom' = Absent
      /\ previous_saved_paths' = [g \in Groups |-> <<>>]
      /\ loaded' = [g \in Groups |-> [r \in Ranks |-> Absent]]
  BY DEF Start, FreshDriver, diskVars
<1>3. \/ pc' = "train" /\ step' = 1 /\ CallAll("idle") /\ tracker = Absent
      \/ pc' = "load" /\ tracker \in Steps /\ step' = tracker /\ CallAll("loading")
      \/ pc' = "down" /\ step' = 0 /\ CallAll("idle")
  <2>1. tracker \in Steps => tracker \in folders /\ tracker # 0
    BY ConstantFacts DEF IInv, PublishedIsFound, FindLatest, Steps
  <2> QED
    BY <1>1, <2>1 DEF Start, TrainFromScratch, LoadFrom, FindLatest, IInv, TypeOK
<1>4. tracker \in Steps => tracker < MaxStep /\ 1 < MaxStep
  BY ConstantFacts DEF IInv, LoopInv, Steps
<1>5. TypeOK'
  <2>1. ManagerTypeOK'
    BY <1>2, <1>3 DEF IInv, TypeOK, ManagerTypeOK, RankPhases, CallAll
  <2>2. pc' \in Running \cup {"down", "finished"} /\ life' \in 0..MaxLife /\ step' \in 0..MaxStep
    BY <1>2, <1>3, ConstantFacts DEF IInv, TypeOK, Running, Steps
  <2> QED
    BY <1>2, <2>1, <2>2, ConstantFacts DEF IInv, TypeOK
<1>6. PublishedComplete' /\ PublishedIsFound'
  BY <1>2 DEF IInv, PublishedComplete, PublishedIsFound, FindLatest
<1>7. ResumeConsistent'
  BY <1>2 DEF ResumeConsistent
<1>8. PathsIncrease'
  BY <1>2 DEF PathsIncrease
<1>9. LoopInv'
  BY <1>2, <1>3, <1>4, ConstantFacts DEF IInv, TypeOK, LoopInv, Running, Lives, Steps, Absent
<1>10. LoadInv'
  BY <1>2, <1>3, ConstantFacts DEF LoadInv, CallAll, Groups
<1>11. SaveInv'
  BY <1>2, <1>3 DEF SaveInv, Settled, WritingDriver, Publishing
<1> QED
  BY <1>5, <1>6, <1>7, <1>8, <1>9, <1>10, <1>11 DEF IInv

LEMMA LoadGroupIInv == ASSUME IInv, LoadGroup PROVE IInv'
<1>1. PICK r \in Ranks : LoadShard(group, step, r)
  BY DEF LoadGroup
<1>2. /\ pc = "load"
      /\ UNCHANGED <<pc, life, step, group, epoch, pos, drawn, dataFrom,
                     shard, folders, data, datapos, tracker, previous_saved_paths>>
      /\ rpc' = [rpc EXCEPT ![r] = "loaded"]
      /\ loaded' = [loaded EXCEPT ![group][r] = shard[group][step][r]]
  BY <1>1 DEF LoadGroup, LoadShard, driverVars
<1>3. tracker = step /\ step \in Steps /\ group \in Groups
  BY <1>2 DEF IInv, TypeOK, LoadInv, LoopInv, Running
<1>4. shard[group][step][r] = data[step] /\ data[step] \in Lives
  BY <1>3 DEF IInv, PublishedComplete
<1>5. TypeOK'
  BY <1>2, <1>4 DEF IInv, TypeOK, ManagerTypeOK, RankPhases
<1>6. (PublishedComplete /\ PublishedIsFound /\ PathsIncrease /\ LoopInv)'
  BY <1>2 DEF IInv, PublishedComplete, PublishedIsFound, FindLatest, PathsIncrease, LoopInv
<1>7. ResumeConsistent' /\ SaveInv'
  BY <1>2 DEF ResumeConsistent, SaveInv, Trained, WritingDriver, Publishing
<1>8. LoadInv'
  <2>1. loaded \in [Groups -> [Ranks -> Lives \cup {Absent}]] /\ rpc \in [Ranks -> RankPhases]
    BY DEF IInv, TypeOK, ManagerTypeOK
  <2>2. ASSUME NEW g \in Groups, NEW q \in Ranks, g < group PROVE loaded'[g][q] = data[step]
    <3>1. g # group
      BY <1>3, <2>2 DEF Groups
    <3> QED BY <1>2, <2>1, <2>2, <3>1 DEF IInv, LoadInv
  <2>3. ASSUME NEW q \in Ranks, rpc'[q] = "loaded" PROVE loaded'[group][q] = data[step]
    BY <1>2, <1>3, <1>4, <2>1, <2>3 DEF IInv, LoadInv
  <2> QED BY <1>2, <2>2, <2>3 DEF IInv, LoadInv
<1> QED
  BY <1>5, <1>6, <1>7, <1>8 DEF IInv

LEMMA GroupLoadedIInv == ASSUME IInv, GroupLoaded PROVE IInv'
<1>1. /\ pc = "load" /\ \A r \in Ranks : rpc[r] = "loaded"
      /\ UNCHANGED <<shard, folders, data, datapos, tracker, previous_saved_paths, loaded,
                     life, step, epoch, pos, drawn, dataFrom>>
      /\ \/ group < NumGroups /\ pc' = "load" /\ group' = group + 1 /\ CallAll("loading")
         \/ ~(group < NumGroups) /\ pc' = "load_data" /\ group' = 1 /\ CallAll("idle")
  BY DEF GroupLoaded, AllAt, diskVars
<1>2. group \in 1..NumGroups /\ NumGroups \in Nat
  BY ConstantFacts DEF IInv, TypeOK, Groups
<1>3. TypeOK'
  BY <1>1, <1>2 DEF IInv, TypeOK, ManagerTypeOK, RankPhases, CallAll, Running, Groups
<1>4. (PublishedComplete /\ PublishedIsFound /\ PathsIncrease)'
  BY <1>1 DEF IInv, PublishedComplete, PublishedIsFound, FindLatest, PathsIncrease
<1>5. LoopInv'
  BY <1>1 DEF IInv, LoopInv, Running
<1>6. ResumeConsistent' /\ SaveInv'
  BY <1>1 DEF ResumeConsistent, SaveInv, Trained, WritingDriver, Publishing
<1>7. \A g \in Groups, r \in Ranks : g <= group => loaded[g][r] = data[step]
  BY <1>1, <1>2 DEF IInv, LoadInv, Groups
<1>8. LoadInv'
  BY <1>1, <1>2, <1>7 DEF IInv, LoadInv, CallAll, Groups
<1> QED
  BY <1>3, <1>4, <1>5, <1>6, <1>8 DEF IInv

LEMMA LoadDataIInv == ASSUME IInv, LoadData PROVE IInv'
<1>1. /\ pc = "load_data" /\ pc' = "train" /\ step' = step + 1
      /\ UNCHANGED <<shard, folders, data, datapos, tracker, previous_saved_paths, rpc, loaded,
                     life, group, epoch>>
  BY DEF LoadData, managerVars, diskVars
<1>2. /\ tracker = step /\ step \in Steps /\ step < MaxStep
      /\ \A g \in Groups : previous_saved_paths[g] = <<>>
      /\ \A g \in Groups, r \in Ranks : loaded[g][r] = data[step]
      /\ life \in Lives /\ epoch < TotalEpochs /\ group = 1
  BY <1>1 DEF IInv, LoadInv, LoopInv, Running
<1>3. data[step] \in Lives
  BY <1>2 DEF IInv, PublishedComplete
<1>4. dataFrom' = data[step] /\ drawn' = datapos[step] /\ pos' = PosOf(datapos[step])
  BY <1>3 DEF LoadData, Lives, Absent
<1>5. step' \in Steps /\ tracker < step'
  BY <1>1, <1>2, ConstantFacts DEF Steps
<1>6. TypeOK'
  <2>1. datapos[step] \in Nat
    BY <1>2 DEF IInv, TypeOK
  <2>2. PosOf(datapos[step]) \in 0..StepsPerEpoch
    BY <2>1, PosOfType
  <2>3. ManagerTypeOK'
    BY <1>1 DEF IInv, TypeOK, ManagerTypeOK
  <2> QED
    BY <1>1, <1>3, <1>4, <1>5, <2>1, <2>2, <2>3 DEF IInv, TypeOK, Running, Steps
<1>7. (PublishedComplete /\ PublishedIsFound /\ PathsIncrease)'
  BY <1>1 DEF IInv, PublishedComplete, PublishedIsFound, FindLatest, PathsIncrease
<1>8. ResumeConsistent'
  BY <1>1, <1>2, <1>3, <1>4 DEF ResumeConsistent
<1>9. LoopInv' /\ LoadInv'
  BY <1>1, <1>2, <1>5 DEF LoopInv, LoadInv, Running
<1>10. SaveInv'
  BY <1>1, <1>2 DEF SaveInv, Settled, WritingDriver, Publishing
<1> QED
  BY <1>6, <1>7, <1>8, <1>9, <1>10 DEF IInv

LEMMA NextEpochIInv == ASSUME IInv, NextEpoch PROVE IInv'
<1>1. /\ pc = "train"
      /\ UNCHANGED <<shard, folders, data, datapos, tracker, previous_saved_paths, rpc, loaded,
                     life, step, group, drawn, dataFrom>>
      /\ epoch' = epoch + 1
      /\ \/ pc' = "train" /\ epoch' < TotalEpochs /\ pos' = 0
         \/ pc' = "finished" /\ pos' = pos
  BY DEF NextEpoch, managerVars, diskVars
<1>2. epoch \in Nat /\ epoch < TotalEpochs /\ TotalEpochs \in Nat
  BY <1>1, ConstantFacts DEF IInv, TypeOK, LoopInv, Running
<1>3. TypeOK'
  BY <1>1, <1>2, ConstantFacts DEF IInv, TypeOK, ManagerTypeOK, Running
<1>4. (PublishedComplete /\ PublishedIsFound /\ PathsIncrease)'
  BY <1>1 DEF IInv, PublishedComplete, PublishedIsFound, FindLatest, PathsIncrease
<1>5. ResumeConsistent'
  BY <1>1 DEF IInv, ResumeConsistent, Trained, Running
<1>6. LoopInv' /\ LoadInv'
  BY <1>1 DEF IInv, LoopInv, LoadInv, Running
<1>7. SaveInv'
  BY <1>1 DEF IInv, SaveInv, Settled, WritingDriver, Publishing
<1> QED
  BY <1>3, <1>4, <1>5, <1>6, <1>7 DEF IInv


\* The end of a step, saved or not: what the loop needs to go on.
LEMMA EndOfStepIInv ==
  ASSUME IInv, EndOfStep, pc \in {"train", "tracker_write"}, group' = group, group = 1,
         UNCHANGED <<shard, folders, data, datapos, previous_saved_paths, loaded,
                     life, epoch, dataFrom>>,
         rpc' \in [Ranks -> RankPhases], pos' \in 0..StepsPerEpoch, drawn' \in Nat,
         step < MaxStep,
         tracker' = tracker \/ tracker' = step,
         tracker' = Absent \/ (tracker' \in Steps /\ tracker' < step + 1),
         tracker' \in Steps => PublishedComplete' /\ PublishedIsFound',
         \A g \in Groups : Settled(g)'
  PROVE  IInv'
<1>1. step' = step + 1 /\ pc' \in {"train", "finished"}
  BY DEF EndOfStep
<1>2. step \in Steps /\ step' \in Steps /\ life \in Lives /\ epoch < TotalEpochs
  BY <1>1, ConstantFacts DEF IInv, TypeOK, LoopInv, Running, Steps
<1>3. TypeOK'
  <2>1. ManagerTypeOK'
    BY DEF IInv, TypeOK, ManagerTypeOK
  <2> QED
    BY <1>1, <1>2, <2>1 DEF IInv, TypeOK, Running, Steps
<1>4. PublishedComplete' /\ PublishedIsFound' /\ PathsIncrease'
  <2>1. PathsIncrease'
    BY DEF IInv, PathsIncrease
  <2>2. tracker' \notin Steps => PublishedComplete' /\ PublishedIsFound'
    BY DEF PublishedComplete, PublishedIsFound
  <2> QED BY <2>1, <2>2
<1>5. ResumeConsistent'
  <2>1. pc \in Trained
    BY DEF Trained, Running
  <2> QED BY <2>1 DEF IInv, ResumeConsistent
<1>6. LoopInv'
  <2>1. ASSUME tracker' \in Steps PROVE tracker' < MaxStep
    <3>1. tracker' \in Int /\ tracker' # Absent /\ step \in Int /\ MaxStep \in Int
      BY <1>2, <2>1, ConstantFacts DEF Steps, Absent
    <3>2. tracker' < step + 1 /\ step < MaxStep
      BY <3>1
    <3> QED BY <3>1, <3>2, SMT
  <2> QED
    BY <1>1, <1>2, <2>1 DEF LoopInv, Running
<1>7. LoadInv'
  BY <1>1 DEF LoadInv
<1>8. SaveInv'
  BY <1>1 DEF SaveInv, WritingDriver, Publishing
<1> QED
  BY <1>3, <1>4, <1>5, <1>6, <1>7, <1>8 DEF IInv

LEMMA TrainStepIInv == ASSUME IInv, NEW esi \in BOOLEAN, TrainStep(esi) PROVE IInv'
<1>1. /\ pc = "train" /\ pos < StepsPerEpoch /\ step < MaxStep
      /\ pos' = pos + 1 /\ drawn' = drawn + 1
      /\ UNCHANGED <<shard, folders, data, datapos, tracker, previous_saved_paths, loaded,
                     life, group, epoch, dataFrom>>
      /\ \/ pc' = "save" /\ step' = step /\ CallAll("called")
         \/ EndOfStep /\ CallAll("idle")
  BY DEF TrainStep, diskVars
<1>2. /\ group = 1 /\ life \in Lives /\ step \in Steps /\ epoch < TotalEpochs
      /\ tracker = Absent \/ (tracker \in Steps /\ tracker < step)
      /\ \A g \in Groups : Settled(g)
  BY <1>1 DEF IInv, LoopInv, SaveInv, Running
<1>3. pos' \in 0..StepsPerEpoch /\ drawn' \in Nat
  BY <1>1, ConstantFacts DEF IInv, TypeOK
<1>4. PublishedComplete' /\ PublishedIsFound' /\ PathsIncrease' /\ \A g \in Groups : Settled(g)'
  BY <1>1, <1>2 DEF IInv, PublishedComplete, PublishedIsFound, FindLatest, PathsIncrease, Settled
<1>5. CASE pc' = "save" /\ step' = step /\ CallAll("called")
  <2>1. rpc' = [r \in Ranks |-> "called"] /\ rpc' \in [Ranks -> RankPhases]
    BY <1>5 DEF CallAll, RankPhases
  <2>2. TypeOK'
    <3>1. ManagerTypeOK'
      BY <1>1, <2>1 DEF IInv, TypeOK, ManagerTypeOK
    <3> QED
      BY <1>1, <1>3, <1>5, <3>1 DEF IInv, TypeOK, Running
  <2>3. ResumeConsistent'
    BY <1>1, <1>5 DEF IInv, ResumeConsistent, Trained, Running
  <2>4. LoopInv' /\ LoadInv'
    BY <1>1, <1>2, <1>5 DEF IInv, LoopInv, LoadInv, Running
  <2>5. SaveInv'
    <3>1. \A g \in Groups : ~(g < group)
      BY <1>2 DEF Groups
    <3>2. group' \in Groups /\ Rank0 \in Ranks
      BY <1>1, <1>2, ConstantFacts
    <3>3. rpc'[Rank0] # "returned" /\ \A r \in Ranks : rpc'[r] \notin {"dumped", "returned"}
      BY <2>1, <3>2
    <3> QED
      BY <1>1, <1>4, <1>5, <3>1, <3>2, <3>3 DEF SaveInv, WritingDriver, Publishing
  <2> QED
    BY <1>4, <2>2, <2>3, <2>4, <2>5 DEF IInv
<1>6. CASE EndOfStep /\ CallAll("idle")
  <2>1. rpc' \in [Ranks -> RankPhases]
    BY <1>6 DEF CallAll, RankPhases
  <2>2. tracker' = Absent \/ (tracker' \in Steps /\ tracker' < step + 1)
    BY <1>1, <1>2 DEF Steps
  <2> QED
    BY <1>1, <1>2, <1>3, <1>4, <1>6, <2>1, <2>2, EndOfStepIInv
<1> QED BY <1>1, <1>5, <1>6

LEMMA WriteTrackerIInv == ASSUME IInv, WriteTracker PROVE IInv'
<1>1. /\ pc = "tracker_write" /\ tracker' = step /\ EndOfStep
      /\ UNCHANGED <<shard, previous_saved_paths, rpc, loaded, folders, data, datapos,
                     life, group, epoch, pos, drawn, dataFrom>>
  BY DEF WriteTracker, managerVars
<1>2. /\ group = 1 /\ life \in Lives /\ step \in Steps /\ step < MaxStep
      /\ data[step] = life /\ step \in folders
      /\ \A g \in Groups : Recorded(g) /\ GroupWritten(g)
  BY <1>1 DEF IInv, LoopInv, SaveInv, Running, WritingDriver, Publishing
<1>3. PublishedComplete' /\ PublishedIsFound' /\ \A g \in Groups : Settled(g)'
  BY <1>1, <1>2 DEF PublishedComplete, PublishedIsFound, FindLatest, Settled, Recorded, GroupWritten
<1>4. rpc' \in [Ranks -> RankPhases] /\ pos' \in 0..StepsPerEpoch /\ drawn' \in Nat
  BY <1>1 DEF IInv, TypeOK, ManagerTypeOK
<1>5. tracker' \in Steps /\ tracker' < step + 1
  BY <1>1, <1>2 DEF Steps
<1> QED
  BY <1>1, <1>2, <1>3, <1>4, <1>5, EndOfStepIInv

-----------------------------------------------------------------------------
(***************************************************************************)
(* A save of one group, rank by rank.                                      *)
(***************************************************************************)

\* A list that ends with the published step stays increasing when the step just
\* saved is appended.
LEMMA AppendIncreases ==
  ASSUME NEW p \in Seq(Steps), NEW s \in Steps,
         \A i, j \in 1..Len(p) : i < j => p[i] < p[j],
         p # <<>> => p[Len(p)] < s
  PROVE  LET q == Append(p, s) IN
           /\ q \in Seq(Steps) /\ q # <<>> /\ q[Len(q)] = s
           /\ \A i, j \in 1..Len(q) : i < j => q[i] < q[j]
<1> DEFINE n == Len(p)
           q == Append(p, s)
<1>1. n \in Nat /\ q \in Seq(Steps) /\ Len(q) = n + 1 /\ q # <<>> /\ q[n + 1] = s
  BY AppendProperties
<1>2. \A i \in 1..n : q[i] = p[i] /\ p[i] \in Steps
  BY AppendProperties
<1>3. \A i \in 1..n : p[i] < s
  <2> SUFFICES ASSUME NEW i \in 1..n PROVE p[i] < s
    OBVIOUS
  <2>1. n \in 1..n /\ p # <<>> /\ p[n] < s
    BY <1>1
  <2>2. CASE i = n
    BY <2>1, <2>2
  <2>3. CASE i # n
    <3>1. i < n
      BY <1>1, <2>3
    <3>2. p[i] < p[n]
      BY <2>1, <3>1
    <3> QED BY <1>2, <2>1, <3>2, ConstantFacts DEF Steps
  <2> QED BY <2>2, <2>3
<1>4. ASSUME NEW i \in 1..(n + 1), NEW j \in 1..(n + 1), i < j PROVE q[i] < q[j]
  <2>1. i \in 1..n
    BY <1>1, <1>4
  <2>2. CASE j = n + 1
    BY <1>1, <1>2, <1>3, <2>1, <2>2
  <2>3. CASE j # n + 1
    <3>1. j \in 1..n
      BY <1>1, <2>3
    <3> QED BY <1>2, <1>4, <2>1, <3>1
  <2> QED BY <2>2, <2>3
<1> QED BY <1>1, <1>4

\* A step of a save keeps the invariant when it spares the published checkpoint
\* and the progress of the save itself.
LEMMA SaveFrame ==
  ASSUME IInv, pc = "save",
         UNCHANGED <<pc, life, step, group, epoch, pos, drawn, dataFrom,
                     data, datapos, tracker, loaded>>,
         folders \subseteq folders', folders' \subseteq Steps,
         ManagerTypeOK', PathsIncrease',
         \A g \in Groups, r \in Ranks :
           tracker \in Steps => shard'[g][tracker][r] = shard[g][tracker][r],
         SaveInv'
  PROVE  IInv'
<1>1. TypeOK'
  BY DEF IInv, TypeOK
<1>2. PublishedComplete' /\ PublishedIsFound'
  BY ConstantFacts DEF IInv, PublishedComplete, PublishedIsFound, FindLatest, Steps
<1>3. ResumeConsistent'
  BY DEF IInv, ResumeConsistent
<1>4. LoopInv' /\ LoadInv'
  BY DEF IInv, LoopInv, LoadInv
<1> QED BY <1>1, <1>2, <1>3, <1>4 DEF IInv

\* What a save may rely on before any of its steps.
LEMMA SaveFacts ==
  ASSUME IInv, pc = "save"
  PROVE  /\ life \in Lives /\ step \in Steps /\ group \in Groups
         /\ ManagerTypeOK /\ PathsIncrease
         /\ tracker \in Steps => tracker < step
         /\ \A g \in Groups : /\ g < group => Recorded(g) /\ GroupWritten(g)
                              /\ g > group => Settled(g)
         /\ rpc[Rank0] = "returned" => Recorded(group)
         /\ rpc[Rank0] # "returned" => Settled(group)
         /\ \A r \in Ranks :
              rpc[r] \in {"dumped", "returned"} => shard[group][step][r] = life
<1>1. life \in Lives /\ step \in Steps /\ group \in Groups /\ ManagerTypeOK /\ PathsIncrease
  BY DEF IInv, TypeOK, LoopInv, Running
<1>2. tracker \in Steps => tracker < step
  BY DEF IInv, LoopInv, Steps, Absent
<1> QED BY <1>1, <1>2 DEF IInv, SaveInv

LEMMA RemoveOldFileIInv ==
  ASSUME AutoRotating, IInv, pc = "save", RemoveOldFile(group),
         UNCHANGED <<driverVars, folders, data, datapos, tracker>>
  PROVE  IInv'
<1>1. PICK s \in Doomed(group), r \in Ranks : shard' = [shard EXCEPT ![group][s][r] = Absent]
  BY DEF RemoveOldFile
<1>2. rpc[Rank0] = "called" /\ UNCHANGED <<previous_saved_paths, rpc, loaded>>
  BY DEF RemoveOldFile
<1>3. s \in Steps /\ tracker \in Steps /\ s < tracker /\ tracker < step
  BY <1>2, SaveFacts, DoomedIsOld DEF IInv
<1>4. s # tracker /\ s # step
  BY <1>3, SaveFacts, ConstantFacts DEF Steps
<1>5. ManagerTypeOK'
  BY <1>1, <1>2, <1>3, SaveFacts DEF ManagerTypeOK, Content
<1>6. \A g \in Groups, q \in Ranks : /\ shard'[g][tracker][q] = shard[g][tracker][q]
                                    /\ shard'[g][step][q] = shard[g][step][q]
  BY <1>1, <1>3, <1>4, SaveFacts DEF ManagerTypeOK
<1>7. PathsIncrease'
  BY <1>2, SaveFacts DEF PathsIncrease
<1>8. SaveInv'
  BY <1>2, <1>6, SaveFacts
     DEF driverVars, SaveInv, Recorded, Settled, GroupWritten, WritingDriver, Publishing
<1> QED
  BY <1>2, <1>5, <1>6, <1>7, <1>8, SaveFrame DEF driverVars, IInv, TypeOK

LEMMA EnterSaveIInv ==
  ASSUME AutoRotating, IInv, pc = "save", NEW r \in Ranks, EnterSave(group, r),
         folders' = folders \cup {step},
         UNCHANGED <<driverVars, data, datapos, tracker>>
  PROVE  IInv'
<1> DEFINE q == SubSeq(previous_saved_paths[group], KeepStart(group) + 1,
                       Len(previous_saved_paths[group]))
<1>1. /\ rpc[r] = "called" /\ rpc' = [rpc EXCEPT ![r] = "entered"]
      /\ UNCHANGED <<shard, loaded>>
      /\ previous_saved_paths' = IF r = Rank0 THEN [previous_saved_paths EXCEPT ![group] = q]
                                              ELSE previous_saved_paths
  BY DEF EnterSave
<1>2. r = Rank0 => /\ q \in Seq(Steps)
                   /\ \A i, j \in 1..Len(q) : i < j => q[i] < q[j]
                   /\ q # <<>> => tracker \in Steps /\ q[Len(q)] = tracker
  BY <1>1, SaveFacts, RotationSettles DEF IInv
<1> HIDE DEF q
<1>3. /\ previous_saved_paths \in [Groups -> Seq(Steps)] /\ rpc \in [Ranks -> RankPhases]
      /\ group \in Groups /\ Rank0 \in Ranks
  BY SaveFacts, ConstantFacts DEF ManagerTypeOK
<1>4. ManagerTypeOK'
  BY <1>1, <1>2, <1>3, SaveFacts DEF ManagerTypeOK, RankPhases
<1>5. PathsIncrease'
  BY <1>1, <1>2, <1>3, SaveFacts DEF PathsIncrease
<1>6. \A g \in Groups : g # group => previous_saved_paths'[g] = previous_saved_paths[g]
  BY <1>1, <1>3
<1>7. rpc'[Rank0] = "returned" => r # Rank0 /\ rpc[Rank0] = "returned"
  BY <1>1, <1>3
<1>8. rpc'[Rank0] # "returned" => Settled(group)'
  <2>1. CASE r = Rank0
    BY <1>1, <1>2, <1>3, <2>1 DEF driverVars, Settled
  <2>2. CASE r # Rank0
    BY <1>1, <1>3, <2>2, SaveFacts DEF driverVars, Settled
  <2> QED BY <2>1, <2>2
<1>9. \A g \in Groups : /\ g < group => Recorded(g)' /\ GroupWritten(g)'
                        /\ g > group => Settled(g)'
  <2> SUFFICES ASSUME NEW g \in Groups, g # group
               PROVE  /\ g < group => Recorded(g)' /\ GroupWritten(g)'
                      /\ g > group => Settled(g)'
    BY <1>3, ConstantFacts DEF Groups
  <2> QED BY <1>1, <1>6, SaveFacts DEF driverVars, Recorded, Settled, GroupWritten
<1>10. SaveInv'
  <2>1. \A x \in Ranks : rpc'[x] \in {"dumped", "returned"} => shard'[group][step][x] = life
    BY <1>1, <1>3, SaveFacts
  <2>2. rpc'[Rank0] = "returned" => Recorded(group)'
    BY <1>1, <1>7, SaveFacts DEF driverVars, Recorded
  <2> QED
    BY <1>8, <1>9, <2>1, <2>2 DEF driverVars, SaveInv, WritingDriver, Publishing
<1> QED
  BY <1>1, <1>4, <1>5, <1>10, SaveFacts, SaveFrame DEF driverVars, IInv, TypeOK

\* A shard of the step being saved changes: incomplete first, whole at the end.
LEMMA ShardIInv ==
  ASSUME IInv, pc = "save", NEW r \in Ranks, NEW c \in Content, NEW phase \in RankPhases,
         rpc[r] # "returned", phase # "returned", phase = "dumped" => c = life,
         shard' = [shard EXCEPT ![group][step][r] = c],
         rpc' = [rpc EXCEPT ![r] = phase],
         UNCHANGED <<previous_saved_paths, loaded, driverVars, folders, data, datapos, tracker>>
  PROVE  IInv'
<1>1. /\ shard \in [Groups -> [Steps -> [Ranks -> Content]]]
      /\ rpc \in [Ranks -> RankPhases]
      /\ group \in Groups /\ step \in Steps /\ Rank0 \in Ranks
      /\ tracker \in Steps => tracker # step
  BY SaveFacts, ConstantFacts DEF ManagerTypeOK, Steps
<1>2. ManagerTypeOK'
  BY <1>1, SaveFacts DEF ManagerTypeOK
<1>3. PathsIncrease'
  BY SaveFacts DEF PathsIncrease
<1>4. \A g \in Groups, q \in Ranks :
        /\ tracker \in Steps => shard'[g][tracker][q] = shard[g][tracker][q]
        /\ g # group \/ q # r => shard'[g][step][q] = shard[g][step][q]
  BY <1>1
<1>5. shard'[group][step][r] = c /\ rpc'[r] = phase
  BY <1>1
<1>6. \A q \in Ranks : rpc'[q] \in {"dumped", "returned"} => shard'[group][step][q] = life
  BY <1>1, <1>4, <1>5, SaveFacts
<1>7. rpc'[Rank0] = "returned" <=> rpc[Rank0] = "returned"
  BY <1>1, <1>5
<1>8. \A g \in Groups : /\ g < group => Recorded(g)' /\ GroupWritten(g)'
                        /\ g > group => Settled(g)'
  <2> SUFFICES ASSUME NEW g \in Groups, g # group
               PROVE  /\ g < group => Recorded(g)' /\ GroupWritten(g)'
                      /\ g > group => Settled(g)'
    BY <1>1, ConstantFacts DEF Groups
  <2> QED BY <1>4, SaveFacts DEF driverVars, Recorded, Settled, GroupWritten
<1>9. /\ rpc[Rank0] = "returned" => Recorded(group)'
      /\ rpc[Rank0] # "returned" => Settled(group)'
  BY SaveFacts DEF driverVars, Recorded, Settled
<1>10. SaveInv'
  BY <1>6, <1>7, <1>8, <1>9 DEF driverVars, SaveInv, WritingDriver, Publishing
<1> QED
  BY <1>2, <1>3, <1>4, <1>10, SaveFrame DEF driverVars, IInv, TypeOK

LEMMA ReturnSaveIInv ==
  ASSUME IInv, pc = "save", NEW r \in Ranks, ReturnSave(group, step, r),
         UNCHANGED <<driverVars, folders, data, datapos, tracker>>
  PROVE  IInv'
<1> DEFINE p == previous_saved_paths[group]
           q == Append(p, step)
<1>1. /\ rpc[r] = "dumped" /\ rpc' = [rpc EXCEPT ![r] = "returned"]
      /\ UNCHANGED <<shard, loaded>>
      /\ previous_saved_paths' = IF r = Rank0 THEN [previous_saved_paths EXCEPT ![group] = q]
                                              ELSE previous_saved_paths
  BY DEF ReturnSave
<1>2. /\ previous_saved_paths \in [Groups -> Seq(Steps)] /\ rpc \in [Ranks -> RankPhases]
      /\ group \in Groups /\ step \in Steps /\ Rank0 \in Ranks
  BY SaveFacts, ConstantFacts DEF ManagerTypeOK
<1>3. r = Rank0 => /\ q \in Seq(Steps) /\ q # <<>> /\ q[Len(q)] = step
                   /\ \A i, j \in 1..Len(q) : i < j => q[i] < q[j]
  <2> SUFFICES ASSUME r = Rank0
               PROVE  /\ q \in Seq(Steps) /\ q # <<>> /\ q[Len(q)] = step
                      /\ \A i, j \in 1..Len(q) : i < j => q[i] < q[j]
    OBVIOUS
  <2>1. Settled(group) /\ (tracker \in Steps => tracker < step)
    BY <1>1, SaveFacts
  <2>2. p # <<>> => p[Len(p)] < step
    BY <2>1 DEF Settled
  <2>3. p \in Seq(Steps) /\ \A i, j \in 1..Len(p) : i < j => p[i] < p[j]
    BY <1>2, SaveFacts DEF PathsIncrease
  <2> QED BY <1>2, <2>2, <2>3, AppendIncreases
<1> HIDE DEF q
<1>4. ManagerTypeOK'
  BY <1>1, <1>2, <1>3, SaveFacts DEF ManagerTypeOK, RankPhases
<1>5. PathsIncrease'
  BY <1>1, <1>2, <1>3, SaveFacts DEF PathsIncrease
<1>6. \A g \in Groups : g # group => previous_saved_paths'[g] = previous_saved_paths[g]
  BY <1>1, <1>2
<1>7. \A g \in Groups : /\ g < group => Recorded(g)' /\ GroupWritten(g)'
                        /\ g > group => Settled(g)'
  <2> SUFFICES ASSUME NEW g \in Groups, g # group
               PROVE  /\ g < group => Recorded(g)' /\ GroupWritten(g)'
                      /\ g > group => Settled(g)'
    BY <1>2, ConstantFacts DEF Groups
  <2> QED BY <1>1, <1>6, SaveFacts DEF driverVars, Recorded, Settled, GroupWritten
<1>8. IF rpc'[Rank0] = "returned" THEN Recorded(group)' ELSE Settled(group)'
  <2>1. CASE r = Rank0
    BY <1>1, <1>2, <1>3, <2>1 DEF driverVars, Recorded
  <2>2. CASE r # Rank0
    BY <1>1, <1>2, <2>2, SaveFacts DEF driverVars, Recorded, Settled
  <2> QED BY <2>1, <2>2
<1>9. \A x \in Ranks : rpc'[x] \in {"dumped", "returned"} => shard'[group][step][x] = life
  BY <1>1, <1>2, SaveFacts
<1>10. SaveInv'
  BY <1>7, <1>8, <1>9 DEF driverVars, SaveInv, WritingDriver, Publishing
<1> QED
  BY <1>1, <1>4, <1>5, <1>10, SaveFrame DEF driverVars, IInv, TypeOK

LEMMA SaveGroupIInv == ASSUME AutoRotating, IInv, SaveGroup PROVE IInv'
<1>1. /\ pc = "save" /\ UNCHANGED <<driverVars, data, datapos, tracker>>
      /\ SaveStep(group, step, life)
      /\ folders' = IF \E r \in Ranks : rpc[r] = "called" /\ rpc'[r] = "entered"
                      THEN folders \cup {step} ELSE folders
  BY DEF SaveGroup
<1>2. rpc \in [Ranks -> RankPhases] /\ life \in Lives
  BY <1>1, SaveFacts DEF ManagerTypeOK
<1>3. CASE RemoveOldFile(group)
  <2>1. folders' = folders
    BY <1>1, <1>3 DEF RemoveOldFile
  <2> QED BY <1>1, <1>3, <2>1, RemoveOldFileIInv
<1>4. ASSUME NEW r \in Ranks, EnterSave(group, r) PROVE IInv'
  <2>1. folders' = folders \cup {step}
    BY <1>1, <1>2, <1>4 DEF EnterSave
  <2> QED BY <1>1, <1>4, <2>1, EnterSaveIInv
<1>5. ASSUME NEW r \in Ranks, BeginShard(group, step, r) PROVE IInv'
  <2>1. /\ rpc[r] # "returned" /\ rpc' = [rpc EXCEPT ![r] = "writing"]
        /\ shard' = [shard EXCEPT ![group][step][r] = Torn]
        /\ UNCHANGED <<previous_saved_paths, loaded>>
    BY <1>5 DEF BeginShard
  <2>2. folders' = folders
    BY <1>1, <1>2, <2>1
  <2>3. Torn \in Content /\ "writing" \in RankPhases
    BY DEF Content, RankPhases
  <2> QED BY <1>1, <2>1, <2>2, <2>3, ShardIInv
<1>6. ASSUME NEW r \in Ranks, EndShard(group, step, r, life) PROVE IInv'
  <2>1. /\ rpc[r] # "returned" /\ rpc' = [rpc EXCEPT ![r] = "dumped"]
        /\ shard' = [shard EXCEPT ![group][step][r] = life]
        /\ UNCHANGED <<previous_saved_paths, loaded>>
    BY <1>6 DEF EndShard
  <2>2. folders' = folders
    BY <1>1, <1>2, <2>1
  <2>3. life \in Content /\ "dumped" \in RankPhases
    BY <1>2 DEF Content, RankPhases
  <2> QED BY <1>1, <2>1, <2>2, <2>3, ShardIInv
<1>7. ASSUME NEW r \in Ranks, ReturnSave(group, step, r) PROVE IInv'
  <2>1. folders' = folders
    BY <1>1, <1>2, <1>7 DEF ReturnSave
  <2> QED BY <1>1, <1>7, <2>1, ReturnSaveIInv
<1> QED BY <1>1, <1>3, <1>4, <1>5, <1>6, <1>7 DEF SaveStep

LEMMA GroupSavedIInv == ASSUME IInv, GroupSaved PROVE IInv'
<1>1. /\ pc = "save" /\ \A r \in Ranks : rpc[r] = "returned"
      /\ UNCHANGED <<shard, folders, data, datapos, tracker, previous_saved_paths, loaded,
                     life, step, epoch, pos, drawn, dataFrom>>
      /\ \/ group < NumGroups /\ pc' = "save" /\ group' = group + 1 /\ CallAll("called")
         \/ ~(group < NumGroups) /\ pc' = "data_open" /\ group' = 1 /\ CallAll("idle")
  BY DEF GroupSaved, AllAt, diskVars
<1>2. group \in 1..NumGroups /\ NumGroups \in Nat /\ Rank0 \in Ranks
  BY <1>1, SaveFacts, ConstantFacts DEF Groups
<1>3. TypeOK'
  BY <1>1, <1>2, SMTT(30) DEF IInv, TypeOK, ManagerTypeOK, RankPhases, CallAll, Running, Groups
<1>4. (PublishedComplete /\ PublishedIsFound /\ PathsIncrease)'
  BY <1>1 DEF IInv, PublishedComplete, PublishedIsFound, FindLatest, PathsIncrease
<1>5. ResumeConsistent'
  BY <1>1 DEF IInv, ResumeConsistent, Trained, Running
<1>6. LoopInv' /\ LoadInv'
  BY <1>1 DEF IInv, LoopInv, LoadInv, Running
<1>7. Recorded(group) /\ GroupWritten(group)
  BY <1>1, <1>2, SaveFacts DEF GroupWritten
<1>8. \A g \in Groups : g <= group => Recorded(g)' /\ GroupWritten(g)'
  <2> SUFFICES ASSUME NEW g \in Groups, g <= group PROVE Recorded(g)' /\ GroupWritten(g)'
    OBVIOUS
  <2>1. Recorded(g) /\ GroupWritten(g)
    BY <1>1, <1>2, <1>7, SaveFacts DEF Groups
  <2> QED BY <1>1, <2>1 DEF Recorded, GroupWritten
<1>9. \A g \in Groups : g > group => Settled(g)'
  BY <1>1, SaveFacts DEF Settled
<1>10. SaveInv'
  <2>1. CASE group < NumGroups /\ pc' = "save" /\ group' = group + 1 /\ CallAll("called")
    <3>1. group' \in Groups /\ group' > group
      BY <1>2, <2>1 DEF Groups
    <3>2. \A r \in Ranks : rpc'[r] = "called"
      BY <2>1 DEF CallAll
    <3>3. \A g \in Groups : (g < group' => g <= group) /\ (g > group' => g > group)
      BY <1>2, <2>1 DEF Groups
    <3>4. \A g \in Groups :
            g = group' => (previous_saved_paths[g] # <<>> =>
              tracker \in Steps /\ previous_saved_paths[g][Len(previous_saved_paths[g])] = tracker)
      BY <1>1, <3>1, SaveFacts DEF Settled
    <3>5. Settled(group)' /\ rpc'[Rank0] # "returned"
      BY <1>1, <1>2, <3>1, <3>2, <3>4 DEF Settled
    <3> QED
      BY <1>8, <1>9, <2>1, <3>2, <3>3, <3>5 DEF SaveInv, WritingDriver, Publishing
  <2>2. CASE ~(group < NumGroups) /\ pc' = "data_open" /\ group' = 1 /\ CallAll("idle")
    <3>1. \A g \in Groups : g <= group
      BY <1>2, <2>2 DEF Groups
    <3> QED
      BY <1>8, <2>2, <3>1 DEF SaveInv, WritingDriver, Publishing
  <2> QED BY <1>1, <2>1, <2>2
<1> QED
  BY <1>3, <1>4, <1>5, <1>6, <1>10 DEF IInv

\* What the driver may rely on once the groups are saved.
LEMMA WritingFacts ==
  ASSUME IInv, pc \in WritingDriver
  PROVE  /\ pc \in Running /\ pc \in Trained
         /\ life \in Lives /\ step \in Steps /\ step < MaxStep /\ epoch < TotalEpochs
         /\ group = 1
         /\ \A g \in Groups : Recorded(g) /\ GroupWritten(g)
         /\ pc # "tracker_write" => tracker = Absent \/ (tracker \in Steps /\ tracker < step)
BY DEF IInv, LoopInv, SaveInv, Running, Trained, WritingDriver, Publishing

LEMMA OpenDataIInv == ASSUME IInv, OpenData PROVE IInv'
<1>1. /\ pc = "data_open" /\ pc' = "data_write"
      /\ folders' = folders \cup {step} /\ data' = [data EXCEPT ![step] = Torn]
      /\ UNCHANGED <<shard, previous_saved_paths, rpc, loaded, datapos, tracker,
                     life, step, group, epoch, pos, drawn, dataFrom>>
  BY DEF OpenData, managerVars
<1>2. pc \in WritingDriver
  BY <1>1 DEF WritingDriver
<1>3. tracker \in Steps => tracker # step
  BY <1>1, <1>2, WritingFacts DEF Steps, Absent
<1>4. TypeOK'
  <2>1. ManagerTypeOK'
    BY <1>1 DEF IInv, TypeOK, ManagerTypeOK
  <2> QED
    BY <1>1, <1>2, <2>1, WritingFacts DEF IInv, TypeOK, Running, Content
<1>5. (PublishedComplete /\ PublishedIsFound)'
  BY <1>1, <1>3, ConstantFacts
     DEF IInv, TypeOK, PublishedComplete, PublishedIsFound, FindLatest, Steps
<1>6. PathsIncrease' /\ ResumeConsistent'
  BY <1>1, <1>2, WritingFacts DEF IInv, PathsIncrease, ResumeConsistent
<1>7. LoopInv' /\ LoadInv'
  BY <1>1 DEF IInv, LoopInv, LoadInv, Running
<1>8. SaveInv'
  BY <1>1, <1>2, WritingFacts DEF SaveInv, Recorded, GroupWritten, WritingDriver, Publishing
<1> QED
  BY <1>4, <1>5, <1>6, <1>7, <1>8 DEF IInv

LEMMA WriteDataIInv == ASSUME IInv, WriteData PROVE IInv'
<1>1. /\ pc = "data_write" /\ pc' = "tracker_open"
      /\ data' = [data EXCEPT ![step] = life] /\ datapos' = [datapos EXCEPT ![step] = drawn]
      /\ UNCHANGED <<shard, previous_saved_paths, rpc, loaded, folders, tracker,
                     life, step, group, epoch, pos, drawn, dataFrom>>
  BY DEF WriteData, managerVars
<1>2. pc \in WritingDriver
  BY <1>1 DEF WritingDriver
<1>3. tracker \in Steps => tracker # step
  BY <1>1, <1>2, WritingFacts DEF Steps, Absent
<1>4. TypeOK' /\ data'[step] = life
  <2>1. ManagerTypeOK'
    BY <1>1 DEF IInv, TypeOK, ManagerTypeOK
  <2> QED
    BY <1>1, <1>2, <2>1, WritingFacts DEF IInv, TypeOK, Running, Content
<1>5. (PublishedComplete /\ PublishedIsFound)'
  BY <1>1, <1>3 DEF IInv, TypeOK, PublishedComplete, PublishedIsFound, FindLatest
<1>6. PathsIncrease' /\ ResumeConsistent'
  BY <1>1, <1>2, WritingFacts DEF IInv, PathsIncrease, ResumeConsistent
<1>7. LoopInv' /\ LoadInv'
  BY <1>1 DEF IInv, LoopInv, LoadInv, Running
<1>8. SaveInv'
  <2>1. step \in folders
    BY <1>1 DEF IInv, SaveInv, WritingDriver
  <2> QED
    BY <1>1, <1>2, <1>4, <2>1, WritingFacts
       DEF SaveInv, Recorded, GroupWritten, WritingDriver, Publishing
<1> QED
  BY <1>4, <1>5, <1>6, <1>7, <1>8 DEF IInv

LEMMA OpenTrackerIInv == ASSUME IInv, OpenTracker PROVE IInv'
<1>1. /\ pc = "tracker_open" /\ pc' = "tracker_write" /\ tracker' = Torn
      /\ UNCHANGED <<shard, previous_saved_paths, rpc, loaded, folders, data, datapos,
                     life, step, group, epoch, pos, drawn, dataFrom>>
  BY DEF OpenTracker, managerVars
<1>2. pc \in WritingDriver /\ tracker' \notin Steps
  BY <1>1 DEF WritingDriver, Publishing, Torn, Steps
<1>3. TypeOK'
  BY <1>1 DEF IInv, TypeOK, ManagerTypeOK, Running
<1>4. (PublishedComplete /\ PublishedIsFound /\ PathsIncrease /\ ResumeConsistent)'
  BY <1>1, <1>2, WritingFacts
     DEF IInv, PublishedComplete, PublishedIsFound, PathsIncrease, ResumeConsistent
<1>5. LoopInv' /\ LoadInv'
  BY <1>1, <1>2, WritingFacts DEF LoopInv, LoadInv, Running
<1>6. SaveInv'
  <2>1. step \in folders /\ data[step] = life
    BY <1>1 DEF IInv, SaveInv, WritingDriver, Publishing
  <2> QED
    BY <1>1, <1>2, <2>1, WritingFacts DEF SaveInv, Recorded, GroupWritten, WritingDriver, Publishing
<1> QED
  BY <1>3, <1>4, <1>5, <1>6 DEF IInv

-----------------------------------------------------------------------------
\* Every action of the trainer and every crash keeps IInv.
LEMMA NextIInv == ASSUME AutoRotating, IInv, [Next]_vars PROVE IInv'
<1>1. ASSUME NEW mode \in ResumeModes, Start(mode) PROVE IInv'
  BY <1>1, StartIInv
<1>2. CASE LoadGroup
  BY <1>2, LoadGroupIInv
<1>3. CASE GroupLoaded
  BY <1>3, GroupLoadedIInv
<1>4. CASE LoadData
  BY <1>4, LoadDataIInv
<1>5. CASE LoadFails \/ Crash
  BY <1>5, StopIInv DEF LoadFails, Crash
<1>6. CASE NextEpoch
  BY <1>6, NextEpochIInv
<1>7. ASSUME NEW esi \in BOOLEAN, TrainStep(esi) PROVE IInv'
  BY <1>7, TrainStepIInv
<1>8. CASE SaveGroup
  BY <1>8, SaveGroupIInv
<1>9. CASE GroupSaved
  BY <1>9, GroupSavedIInv
<1>10. CASE OpenData
  BY <1>10, OpenDataIInv
<1>11. CASE WriteData
  BY <1>11, WriteDataIInv
<1>12. CASE OpenTracker
  BY <1>12, OpenTrackerIInv
<1>13. CASE WriteTracker
  BY <1>13, WriteTrackerIInv
<1>14. CASE UNCHANGED vars
  BY <1>14 DEF vars, managerVars, diskVars, driverVars, IInv, TypeOK, ManagerTypeOK,
     PublishedComplete, PublishedIsFound, FindLatest, ResumeConsistent, PathsIncrease,
     LoopInv, LoadInv, SaveInv, Settled, Recorded, GroupWritten
<1> QED
  BY <1>1, <1>2, <1>3, <1>4, <1>5, <1>6, <1>7, <1>8, <1>9, <1>10, <1>11, <1>12, <1>13, <1>14
     DEF Next, Progress

\* The invariant of rotation, barriers and publication, for every number of
\* ranks, groups, steps and runs.
THEOREM Invariance == ASSUME AutoRotating PROVE Spec => []IInv
<1>1. IInv /\ [Next]_vars => IInv'
  BY NextIInv
<1> QED BY InitIInv, <1>1, PTL DEF Spec

\* The tracker never names a checkpoint with a missing, torn or foreign file,
\* wherever the job may have died.
THEOREM PublishedCompleteAlways == ASSUME AutoRotating PROVE Spec => []PublishedComplete
<1>1. IInv => PublishedComplete
  BY DEF IInv
<1> QED BY Invariance, <1>1, PTL

\* Training never goes on from a mixture of checkpoints.
THEOREM ResumeConsistentAlways == ASSUME AutoRotating PROVE Spec => []ResumeConsistent
<1>1. IInv => ResumeConsistent
  BY DEF IInv
<1> QED BY Invariance, <1>1, PTL
-----------------------------------------------------------------------------
(***************************************************************************)
(* Part 2.  How far training and its checkpoints have come: what part 1    *)
(* shows of the disk and of the processes gives what a crash can cost and  *)
(* what fit leaves behind; and that a run goes on from the last committed  *)
(* step and from nothing else, which is to implement CheckpointStore.      *)
(***************************************************************************)


\* The dataloader positions on disk are those of the steps they are saved with.
DataSaved == \A s \in Steps : data[s] \in Lives => datapos[s] = s

DrawnInv ==
  /\ pc = "train" => drawn = step - 1
  /\ pc \in {"save"} \cup WritingDriver => drawn = step

\* The batches of the passes of this run are among those behind the state.
DrawnFloor ==
  /\ pc \in {"load", "load_data"} => epoch = 0
  /\ pc \in Running => drawn >= epoch * StepsPerEpoch + pos

\* Each step behind the current one at which a save was due is published.
DueCommitted ==
  pc = "train" /\ SaveFreq > 0 =>
    \A k \in Steps : k < step /\ k % SaveFreq = 0 => tracker \in Steps /\ tracker >= k

\* Only a resumed run stands behind the last step, and at its checkpoint.
LastCommitted ==
  pc = "train" /\ step > TotalSteps => tracker \in Steps /\ tracker = step - 1

\* total_training_steps is at most what the epochs yield (fit and its progress
\* bar take their product unless the configuration gives another number).
EnoughBatches == TotalSteps <= TotalEpochs * StepsPerEpoch

ProgressInv ==
  /\ DataSaved /\ DrawnInv /\ DrawnFloor /\ DueCommitted /\ LastCommitted
  /\ EnoughBatches => FinishedIsPublished


-----------------------------------------------------------------------------
LEMMA InitProgress == Init => ProgressInv
<1> SUFFICES ASSUME Init PROVE ProgressInv
  OBVIOUS
<1>1. pc = "down" /\ epoch = 0 /\ pos = 0 /\ drawn = 0 /\ \A s \in Steps : data[s] = 0
  BY DEF Init, Absent
<1> QED
  BY <1>1, ConstantFacts DEF ProgressInv, DataSaved, DrawnInv, DrawnFloor, DueCommitted,
     LastCommitted, FinishedIsPublished, EnoughBatches, WritingDriver, Publishing, Running, Lives

\* What an action keeps that leaves the driver's counters, the published step and
\* the dataloader files alone and stays at its location or moves on to save more.
LEMMA QuietProgress ==
  ASSUME ProgressInv, UNCHANGED <<step, epoch, pos, drawn, tracker, data, datapos>>,
         \/ pc' = pc
         \/ pc' \in {"save"} \cup WritingDriver /\ pc \in {"save"} \cup WritingDriver
         \/ pc = "load" /\ pc' = "load_data"
  PROVE  ProgressInv'
BY DEF ProgressInv, DataSaved, DrawnInv, DrawnFloor, DueCommitted, LastCommitted,
   FinishedIsPublished, EnoughBatches, WritingDriver, Publishing, Running

LEMMA StopProgress == ASSUME ProgressInv, StopJob PROVE ProgressInv'
<1>1. pc' = "down" /\ epoch' = 0 /\ pos' = 0 /\ drawn' = 0 /\ UNCHANGED <<data, datapos>>
  BY DEF StopJob, FreshDriver, diskVars
<1> QED
  BY <1>1, ConstantFacts DEF ProgressInv, DataSaved, DrawnInv, DrawnFloor, DueCommitted,
     LastCommitted, FinishedIsPublished, EnoughBatches, WritingDriver, Publishing, Running

LEMMA StartProgress ==
  ASSUME AutoRotating, ProgressInv, NEW mode \in ResumeModes, Start(mode)
  PROVE  ProgressInv'
<1>1. mode = "auto"
  BY DEF AutoRotating
<1>2. epoch' = 0 /\ pos' = 0 /\ drawn' = 0 /\ UNCHANGED <<data, datapos, tracker>>
  BY DEF Start, FreshDriver, diskVars
<1>3. (pc' = "train" /\ step' = 1) \/ pc' \in {"load", "down"}
  BY <1>1 DEF Start, TrainFromScratch, LoadFrom
<1> QED
  BY <1>2, <1>3, ConstantFacts DEF ProgressInv, DataSaved, DrawnInv, DrawnFloor, DueCommitted,
     LastCommitted, FinishedIsPublished, EnoughBatches, WritingDriver, Publishing, Running, Steps

\* A resumed position is not beyond the batches it stands for.
LEMMA PosOfBound == \A n \in Nat : PosOf(n) <= n
<1> SUFFICES ASSUME NEW n \in Nat, n # 0 PROVE PosOf(n) <= n
  BY DEF PosOf
<1>1. (n - 1) % StepsPerEpoch <= n - 1
  <2>1. n - 1 \in Nat /\ StepsPerEpoch \in Nat \ {0}
    BY ConstantFacts
  <2>2. \A m \in Nat, d \in Nat \ {0} : m % d <= m
    <3> SUFFICES ASSUME NEW m \in Nat, NEW d \in Nat \ {0} PROVE m % d <= m
      OBVIOUS
    <3>1. m = d * (m \div d) + (m % d) /\ m \div d \in Nat
      OBVIOUS
    <3>2. \A x, y \in Nat : x * y >= 0
      OBVIOUS
    <3> QED BY <3>1, <3>2
  <2> QED BY <2>1, <2>2
<1>2. (n - 1) % StepsPerEpoch \in Nat
  BY ConstantFacts
<1> QED BY <1>1, <1>2 DEF PosOf

\* The state resumed from the published step continues behind it.
LEMMA LoadDataProgress == ASSUME IInv, ProgressInv, LoadData PROVE ProgressInv'
<1>1. /\ pc = "load_data" /\ pc' = "train" /\ step' = step + 1
      /\ UNCHANGED <<data, datapos, tracker, epoch>>
      /\ data[step] # Absent => drawn' = datapos[step] /\ pos' = PosOf(datapos[step])
  BY DEF LoadData, diskVars
<1>2. tracker = step /\ step \in Steps /\ step \in Nat /\ data[step] \in Lives /\ epoch = 0
  BY <1>1, ConstantFacts
     DEF IInv, LoadInv, LoopInv, Running, PublishedComplete, ProgressInv, DrawnFloor, Steps
<1>3. datapos[step] = step /\ data[step] # Absent
  BY <1>2, ConstantFacts DEF ProgressInv, DataSaved, Lives, Absent
<1>4. drawn' = step /\ pos' = PosOf(step) /\ PosOf(step) \in Nat /\ PosOf(step) <= step
  BY <1>1, <1>2, <1>3, PosOfType, PosOfBound, ConstantFacts
<1>5. DataSaved' /\ DrawnInv' /\ (EnoughBatches => FinishedIsPublished)'
  BY <1>1, <1>2, <1>4
     DEF ProgressInv, DataSaved, DrawnInv, FinishedIsPublished, EnoughBatches, WritingDriver, Publishing
<1>6. DrawnFloor'
  BY <1>1, <1>2, <1>4, ConstantFacts DEF DrawnFloor
<1>7. DueCommitted' /\ LastCommitted'
  BY <1>1, <1>2 DEF DueCommitted, LastCommitted, Steps
<1> QED BY <1>5, <1>6, <1>7 DEF ProgressInv

\* fit ends with the passes over the data only behind its last step.
LEMMA NextEpochProgress ==
  ASSUME IInv, ProgressInv, NextEpoch PROVE ProgressInv'
<1>1. /\ pc = "train" /\ pos = StepsPerEpoch /\ epoch' = epoch + 1
      /\ UNCHANGED <<data, datapos, tracker, step, drawn>>
      /\ \/ epoch + 1 < TotalEpochs /\ pc' = "train" /\ pos' = 0
         \/ ~(epoch + 1 < TotalEpochs) /\ pc' = "finished" /\ pos' = pos
  BY DEF NextEpoch, diskVars
<1>2. /\ epoch \in Nat /\ drawn \in Nat /\ step \in Nat /\ step \in Steps /\ epoch < TotalEpochs
      /\ drawn = step - 1
      /\ StepsPerEpoch \in Nat /\ TotalEpochs \in Nat /\ TotalSteps \in Nat
  BY <1>1, ConstantFacts
     DEF IInv, TypeOK, LoopInv, Running, Steps, ProgressInv, DrawnInv
<1>3. drawn >= (epoch + 1) * StepsPerEpoch
  <2>1. drawn >= epoch * StepsPerEpoch + StepsPerEpoch
    BY <1>1 DEF ProgressInv, DrawnFloor, Running
  <2>2. (epoch + 1) * StepsPerEpoch = epoch * StepsPerEpoch + StepsPerEpoch
    BY <1>2
  <2> QED BY <2>1, <2>2
<1>4. CASE pc' = "train"
  BY <1>1, <1>2, <1>3, <1>4
     DEF ProgressInv, DataSaved, DrawnInv, DrawnFloor, DueCommitted, LastCommitted,
         FinishedIsPublished, EnoughBatches, WritingDriver, Publishing, Running
<1>5. CASE pc' = "finished"
  <2>1. epoch + 1 = TotalEpochs
    BY <1>1, <1>2, <1>5
  <2>2. EnoughBatches => step > TotalSteps
    BY <1>2, <1>3, <2>1 DEF EnoughBatches
  <2>3. EnoughBatches => tracker \in Steps /\ tracker = step - 1
    BY <1>1, <2>2 DEF ProgressInv, LastCommitted
  <2>4. (EnoughBatches => FinishedIsPublished)'
    BY <1>1, <1>2, <2>2, <2>3 DEF FinishedIsPublished, EnoughBatches
  <2>5. DrawnFloor'
    BY <1>5 DEF DrawnFloor, Running
  <2> QED
    BY <1>1, <1>5, <2>4, <2>5
       DEF ProgressInv, DataSaved, DrawnInv, DueCommitted, LastCommitted, WritingDriver, Publishing
<1> QED BY <1>1, <1>4, <1>5

\* A step is counted where it is trained; what it leaves unsaved was not due.
LEMMA TrainStepProgress ==
  ASSUME IInv, ProgressInv, NEW esi \in BOOLEAN, TrainStep(esi) PROVE ProgressInv'
<1>1. /\ pc = "train" /\ pos' = pos + 1 /\ drawn' = drawn + 1
      /\ UNCHANGED <<data, datapos, tracker, epoch>>
      /\ \/ pc' = "save" /\ step' = step
         \/ /\ SaveFreq > 0 => ~IsLastStep /\ step % SaveFreq # 0
            /\ step' = step + 1 /\ pc' = IF IsLastStep THEN "finished" ELSE "train"
  BY DEF TrainStep, EndOfStep, diskVars
<1>2. /\ epoch \in Nat /\ pos \in Nat /\ drawn \in Nat /\ step \in Nat /\ step \in Steps
      /\ drawn = step - 1
      /\ StepsPerEpoch \in Nat /\ TotalSteps \in Nat /\ SaveFreq \in Nat
  BY <1>1, ConstantFacts
     DEF IInv, TypeOK, LoopInv, Running, Steps, ProgressInv, DrawnInv
<1>3. DataSaved'
  BY <1>1 DEF ProgressInv, DataSaved
<1>4. DrawnInv'
  BY <1>1, <1>2 DEF DrawnInv, WritingDriver, Publishing
<1>5. DrawnFloor'
  <2>1. epoch * StepsPerEpoch \in Nat
    BY <1>2
  <2>2. drawn >= epoch * StepsPerEpoch + pos
    BY <1>1 DEF ProgressInv, DrawnFloor, Running
  <2>3. drawn' >= epoch * StepsPerEpoch + pos'
    BY <1>1, <1>2, <2>1, <2>2
  <2> QED BY <1>1, <2>3 DEF DrawnFloor, Running
<1>6. DueCommitted'
  <2> SUFFICES ASSUME pc' = "train", SaveFreq > 0, NEW k \in Steps, k < step', k % SaveFreq = 0
               PROVE  tracker' \in Steps /\ tracker' >= k
    BY DEF DueCommitted
  <2>1. step' = step + 1 /\ step % SaveFreq # 0
    BY <1>1
  <2>2. k \in Nat /\ k # step
    BY <2>1, ConstantFacts DEF Steps
  <2>3. k < step
    BY <1>2, <2>1, <2>2
  <2> QED BY <1>1, <2>3 DEF ProgressInv, DueCommitted
<1>7. LastCommitted'
  BY <1>1, <1>2 DEF LastCommitted, IsLastStep
<1>8. FinishedIsPublished'
  BY <1>1 DEF FinishedIsPublished
<1> QED BY <1>3, <1>4, <1>5, <1>6, <1>7, <1>8 DEF ProgressInv

LEMMA WriteDataProgress == ASSUME IInv, ProgressInv, WriteData PROVE ProgressInv'
<1>1. /\ pc = "data_write" /\ pc' = "tracker_open"
      /\ UNCHANGED <<step, epoch, pos, drawn, tracker>>
      /\ data' = [data EXCEPT ![step] = life] /\ datapos' = [datapos EXCEPT ![step] = drawn]
  BY DEF WriteData
<1>2. drawn = step /\ data \in [Steps -> Content] /\ datapos \in [Steps -> Nat]
  BY <1>1 DEF ProgressInv, DrawnInv, WritingDriver, IInv, TypeOK
<1>3. DataSaved'
  BY <1>1, <1>2 DEF ProgressInv, DataSaved
<1> QED
  BY <1>1, <1>3 DEF ProgressInv, DrawnInv, DrawnFloor, DueCommitted, LastCommitted,
     FinishedIsPublished, EnoughBatches, WritingDriver, Publishing, Running

\* A data.pt just truncated holds no run's state.
LEMMA OpenDataProgress == ASSUME IInv, ProgressInv, OpenData PROVE ProgressInv'
<1>1. /\ pc = "data_open" /\ pc' = "data_write"
      /\ UNCHANGED <<step, epoch, pos, drawn, tracker, datapos>>
      /\ data' = [data EXCEPT ![step] = Torn]
  BY DEF OpenData
<1>2. data \in [Steps -> Content] /\ Torn \notin Lives
  BY ConstantFacts DEF IInv, TypeOK, Torn, Lives
<1>3. DataSaved'
  BY <1>1, <1>2 DEF ProgressInv, DataSaved
<1> QED
  BY <1>1, <1>3 DEF ProgressInv, DrawnInv, DrawnFloor, DueCommitted, LastCommitted,
     FinishedIsPublished, EnoughBatches, WritingDriver, Publishing, Running

LEMMA OpenTrackerProgress == ASSUME ProgressInv, OpenTracker PROVE ProgressInv'
<1>1. /\ pc = "tracker_open" /\ pc' = "tracker_write"
      /\ UNCHANGED <<step, epoch, pos, drawn, data, datapos>>
  BY DEF OpenTracker
<1> QED
  BY <1>1 DEF ProgressInv, DataSaved, DrawnInv, DrawnFloor, DueCommitted, LastCommitted,
     FinishedIsPublished, EnoughBatches, WritingDriver, Publishing, Running

\* The step just published is the last one trained.
LEMMA WriteTrackerProgress == ASSUME IInv, ProgressInv, WriteTracker PROVE ProgressInv'
<1>1. /\ pc = "tracker_write" /\ tracker' = step /\ step' = step + 1
      /\ pc' = IF IsLastStep THEN "finished" ELSE "train"
      /\ UNCHANGED <<data, datapos, epoch, pos, drawn>>
  BY DEF WriteTracker, EndOfStep
<1>2. step \in Steps /\ step \in Nat /\ TotalSteps \in Nat /\ drawn = step
  BY <1>1, ConstantFacts DEF IInv, LoopInv, Running, Steps, ProgressInv, DrawnInv,
     WritingDriver, Publishing
<1>3. DataSaved' /\ DrawnInv' /\ DrawnFloor'
  BY <1>1, <1>2 DEF ProgressInv, DataSaved, DrawnInv, DrawnFloor, WritingDriver, Publishing, Running
<1>4. DueCommitted' /\ LastCommitted' /\ FinishedIsPublished'
  BY <1>1, <1>2 DEF DueCommitted, LastCommitted, FinishedIsPublished, IsLastStep, Steps
<1> QED BY <1>3, <1>4 DEF ProgressInv

LEMMA NextProgress ==
  ASSUME AutoRotating, IInv, ProgressInv, [Next]_vars PROVE ProgressInv'
<1>1. ASSUME NEW mode \in ResumeModes, Start(mode) PROVE ProgressInv'
  BY <1>1, StartProgress
<1>2. CASE LoadGroup \/ GroupLoaded \/ SaveGroup \/ GroupSaved \/ UNCHANGED vars
  <2>1. UNCHANGED <<step, epoch, pos, drawn, tracker, data, datapos>>
    BY <1>2 DEF LoadGroup, GroupLoaded, SaveGroup, GroupSaved, vars, driverVars, diskVars
  <2>2. \/ pc' = pc
        \/ pc' \in {"save"} \cup WritingDriver /\ pc \in {"save"} \cup WritingDriver
        \/ pc = "load" /\ pc' = "load_data"
    BY <1>2 DEF LoadGroup, GroupLoaded, SaveGroup, GroupSaved, vars, driverVars, WritingDriver
  <2> QED BY <2>1, <2>2, QuietProgress
<1>3. CASE LoadData
  BY <1>3, LoadDataProgress
<1>4. CASE LoadFails \/ Crash
  BY <1>4, StopProgress DEF LoadFails, Crash
<1>5. CASE NextEpoch
  BY <1>5, NextEpochProgress
<1>6. ASSUME NEW esi \in BOOLEAN, TrainStep(esi) PROVE ProgressInv'
  BY <1>6, TrainStepProgress
<1>7. CASE OpenData
  BY <1>7, OpenDataProgress
<1>8. CASE WriteData
  BY <1>8, WriteDataProgress
<1>9. CASE OpenTracker
  BY <1>9, OpenTrackerProgress
<1>10. CASE WriteTracker
  BY <1>10, WriteTrackerProgress
<1> QED
  BY <1>1, <1>2, <1>3, <1>4, <1>5, <1>6, <1>7, <1>8, <1>9, <1>10 DEF Next, Progress

\* The counters of the driver, of the dataloader and of the tracker stay together
\* through every save, crash and resumption.
THEOREM ProgressInvariance ==
  ASSUME AutoRotating PROVE Spec => [](IInv /\ ProgressInv)
<1>1. IInv /\ ProgressInv /\ [Next]_vars => (IInv /\ ProgressInv)'
  BY NextIInv, NextProgress
<1> QED BY InitIInv, InitProgress, <1>1, PTL DEF Spec

\* No batch is skipped or trained twice, also not by a run that resumes.
THEOREM DataAlignedAlways ==
  ASSUME AutoRotating PROVE Spec => []DataAligned
<1>1. ProgressInv => DataAligned
  BY DEF ProgressInv, DrawnInv, DataAligned
<1> QED BY ProgressInvariance, <1>1, PTL

\* fit never ends without its last step published, whichever run reaches it.
THEOREM FinishedIsPublishedAlways ==
  ASSUME AutoRotating, EnoughBatches PROVE Spec => []FinishedIsPublished
<1>1. ProgressInv => FinishedIsPublished
  BY DEF ProgressInv
<1> QED BY ProgressInvariance, <1>1, PTL

\* The last number of steps at which a save was due.
LEMMA LastDue ==
  ASSUME NEW n \in Nat, NEW d \in Nat \ {0}
  PROVE  \E k \in Nat : k <= n /\ n - k < d /\ k % d = 0
<1> DEFINE k == d * (n \div d)
<1>1. n = k + (n % d) /\ n % d \in 0..d - 1 /\ n \div d \in Nat
  OBVIOUS
<1>2. k \in Nat
  BY <1>1
<1>3. k % d = 0
  BY <1>1
<1> HIDE DEF k
<1>4. k <= n /\ n - k < d
  BY <1>1, <1>2
<1> QED BY <1>2, <1>3, <1>4

\* What a crash between two steps costs stays below save_freq steps.
THEOREM BoundedLossAlways ==
  ASSUME AutoRotating PROVE Spec => []BoundedLoss
<1>1. IInv /\ ProgressInv => BoundedLoss
  <2> SUFFICES ASSUME IInv, ProgressInv, pc = "train", SaveFreq > 0
               PROVE  step - 1 - (IF tracker \in Steps THEN tracker ELSE 0) < SaveFreq
    BY DEF BoundedLoss
  <2>1. step \in Steps /\ step - 1 \in Nat /\ SaveFreq \in Nat \ {0} /\ MaxStep \in Nat
    BY ConstantFacts DEF IInv, LoopInv, Running, Steps
  <2>2. PICK k \in Nat : k <= step - 1 /\ (step - 1) - k < SaveFreq /\ k % SaveFreq = 0
    BY <2>1, LastDue
  <2>3. CASE k = 0
    BY <2>1, <2>2, <2>3 DEF Steps
  <2>4. CASE k # 0
    <3>1. k \in Steps /\ k < step
      BY <2>1, <2>2, <2>4 DEF Steps
    <3>2. tracker \in Steps /\ tracker >= k
      BY <2>2, <3>1 DEF ProgressInv, DueCommitted
    <3> QED BY <2>1, <2>2, <3>2 DEF Steps
  <2> QED BY <2>3, <2>4
<1> QED BY ProgressInvariance, <1>1, PTL

-----------------------------------------------------------------------------
(* The store.                                                              *)

\* A job that dies between truncating and writing the tracker loses what it had
\* published: the one place at which the store's promise needs luck.
SparesTracker == AutoRotating /\ "tracker_write" \notin CrashPoints

\* Nothing on disk is younger than the run, and what it trains from is older.
OriginInv ==
  /\ \A s \in Steps : data[s] <= life
  /\ pc \in {"load", "load_data"} => \A s \in Steps : data[s] < life
  /\ pc \in Trained => dataFrom < life

-----------------------------------------------------------------------------
LEMMA InitOrigin == Init => OriginInv
BY ConstantFacts DEF Init, OriginInv, Absent, Trained, Running

LEMMA StopOrigin == ASSUME OriginInv, StopJob PROVE OriginInv'
BY DEF OriginInv, StopJob, diskVars, Trained, Running

LEMMA StartOrigin ==
  ASSUME AutoRotating, IInv, OriginInv, NEW mode \in ResumeModes, Start(mode)
  PROVE  OriginInv'
<1>1. data' = data /\ life' = life + 1 /\ dataFrom' = Absent
  BY DEF Start, FreshDriver, diskVars
<1>2. life \in Nat /\ data \in [Steps -> Content] /\ \A s \in Steps : data[s] \in Int
  BY ConstantFacts DEF IInv, TypeOK, Content, Absent, Torn, Lives
<1> QED BY <1>1, <1>2 DEF OriginInv, Absent

\* Loading takes the state of the published step, saved by an earlier run.
LEMMA LoadDataOrigin == ASSUME IInv, OriginInv, LoadData PROVE OriginInv'
<1>1. /\ pc = "load_data" /\ pc' = "train" /\ UNCHANGED <<data, life>>
      /\ data[step] # Absent => dataFrom' = data[step]
  BY DEF LoadData, diskVars
<1>2. step \in Steps /\ data[step] # Absent
  BY <1>1, ConstantFacts
     DEF IInv, LoadInv, LoopInv, Running, PublishedComplete, Lives, Absent
<1> QED BY <1>1, <1>2 DEF OriginInv

LEMMA WriteOrigin ==
  ASSUME IInv, OriginInv, OpenData \/ WriteData PROVE OriginInv'
<1>1. /\ pc \in WritingDriver /\ pc' \in WritingDriver
      /\ UNCHANGED <<life, dataFrom>>
      /\ data' = [data EXCEPT ![step] = Torn] \/ data' = [data EXCEPT ![step] = life]
  BY DEF OpenData, WriteData, WritingDriver, Publishing
<1>2. life \in Nat /\ step \in Steps /\ data \in [Steps -> Content] /\ Torn <= life
  BY <1>1, WritingFacts, ConstantFacts DEF IInv, TypeOK, Torn, Lives
<1>3. \A s \in Steps : data'[s] <= life'
  BY <1>1, <1>2 DEF OriginInv
<1> QED BY <1>1, <1>3 DEF OriginInv, WritingDriver, Publishing, Trained, Running

\* Actions that leave the dataloader's state alone, in memory and on disk.
LEMMA QuietOrigin ==
  ASSUME OriginInv, UNCHANGED <<data, life, dataFrom>>,
         \/ pc' = pc \/ pc \in Trained
         \/ pc \in {"load", "load_data"} /\ pc' \in {"load", "load_data"},
         pc' \in {"load", "load_data"} => pc \in {"load", "load_data"}
  PROVE  OriginInv'
BY DEF OriginInv, Trained, Running

LEMMA NextOrigin ==
  ASSUME AutoRotating, IInv, OriginInv, [Next]_vars PROVE OriginInv'
<1>1. ASSUME NEW mode \in ResumeModes, Start(mode) PROVE OriginInv'
  BY <1>1, StartOrigin
<1>2. CASE LoadData
  BY <1>2, LoadDataOrigin
<1>3. CASE LoadFails \/ Crash
  BY <1>3, StopOrigin DEF LoadFails, Crash
<1>4. CASE OpenData \/ WriteData
  BY <1>4, WriteOrigin
<1>5. ASSUME \/ LoadGroup \/ GroupLoaded \/ NextEpoch \/ \E esi \in BOOLEAN : TrainStep(esi)
             \/ SaveGroup \/ GroupSaved \/ OpenTracker \/ WriteTracker \/ UNCHANGED vars
      PROVE  OriginInv'
  <2>1. UNCHANGED <<data, life, dataFrom>>
    BY <1>5 DEF LoadGroup, GroupLoaded, NextEpoch, TrainStep, SaveGroup, GroupSaved, OpenTracker,
       WriteTracker, vars, diskVars, driverVars
  <2>2. /\ \/ pc' = pc \/ pc \in Trained
           \/ pc \in {"load", "load_data"} /\ pc' \in {"load", "load_data"}
        /\ pc' \in {"load", "load_data"} => pc \in {"load", "load_data"}
    BY <1>5 DEF LoadGroup, GroupLoaded, NextEpoch, TrainStep, SaveGroup, GroupSaved, OpenTracker,
       WriteTracker, EndOfStep, vars, driverVars, Trained, Running
  <2> QED BY <2>1, <2>2, QuietOrigin
<1> QED
  BY <1>1, <1>2, <1>3, <1>4, <1>5 DEF Next, Progress

-----------------------------------------------------------------------------
(***************************************************************************)
(* The refinement mapping of PPOCheckpoint, part by part.                  *)
(***************************************************************************)
Up          == pc \in Trained
Finished    == IF pc = "train" THEN step - 1 ELSE IF pc \in Trained THEN step ELSE 0
Origin      == IF pc \notin Trained THEN 0
               ELSE IF \E c \in Lives \cup {Absent} : Uniform(c)
                      THEN CHOOSE c \in Lives \cup {Absent} : Uniform(c)
                      ELSE Torn
CommittedBy == IF Committed = 0 THEN 0 ELSE data[Committed]

\* The origin is the run that saved the dataloader's state.
LEMMA OriginIs ==
  ASSUME IInv PROVE Origin = IF pc \in Trained THEN dataFrom ELSE 0
<1>1. CASE pc \notin Trained
  BY <1>1 DEF Origin
<1>2. CASE pc \in Trained
  <2>1. PICK c \in Lives \cup {Absent} : Uniform(c)
    BY <1>2 DEF IInv, ResumeConsistent, Uniform
  <2>2. \A d \in Lives \cup {Absent} : Uniform(d) => d = dataFrom
    BY DEF Uniform
  <2>3. (CHOOSE d \in Lives \cup {Absent} : Uniform(d)) = dataFrom
    BY <2>1, <2>2
  <2> QED BY <1>2, <2>1, <2>3 DEF Origin
<1> QED BY <1>1, <1>2

LEMMA OriginIsNext ==
  ASSUME IInv' PROVE Origin' = IF pc' \in Trained THEN dataFrom' ELSE 0
<1>1. CASE pc' \notin Trained
  BY <1>1 DEF Origin, Trained, Running
<1>2. CASE pc' \in Trained
  <2>1. PICK c \in Lives \cup {Absent} : Uniform(c)'
    BY <1>2 DEF IInv, ResumeConsistent, Uniform, Trained, Running, Groups
  <2>2. \A d \in Lives \cup {Absent} : Uniform(d)' => d = dataFrom'
    BY DEF Uniform
  <2>3. (CHOOSE d \in Lives \cup {Absent} : Uniform(d)') = dataFrom'
    BY <2>1, <2>2
  <2> QED BY <1>2, <2>1, <2>3 DEF Origin
<1> QED BY <1>1, <1>2

AbstractView == <<Up, Finished, Origin, Committed, CommittedBy>>

AbstractRecover ==
  /\ ~Up /\ Up' /\ Finished' = Committed /\ Origin' = CommittedBy
  /\ UNCHANGED <<Committed, CommittedBy>>
AbstractWork ==
  Up /\ Finished' = Finished + 1 /\ Up' /\ UNCHANGED <<Origin, Committed, CommittedBy>>
AbstractCommit ==
  /\ Up /\ Committed' = Finished /\ Committed' > Committed
  /\ CommittedBy' \in Lives /\ CommittedBy' > Origin
  /\ Up' /\ UNCHANGED <<Finished, Origin>>
AbstractStop ==
  Up /\ ~Up' /\ Finished' = 0 /\ Origin' = 0 /\ UNCHANGED <<Committed, CommittedBy>>

\* What is shown of the parts of the mapping is a step of the store.
LEMMA StoreMove ==
  ASSUME \/ UNCHANGED AbstractView
         \/ AbstractRecover \/ AbstractWork \/ AbstractCommit \/ AbstractStop
  PROVE  [Store!Next]_(Store!storeVars)
<1>1. CASE UNCHANGED AbstractView
  BY <1>1 DEF AbstractView, Store!storeVars, Up, Finished, Origin, CommittedBy
<1>2. CASE AbstractRecover
  BY <1>2 DEF AbstractRecover, Store!Next, Store!Recover, Up, Finished, Origin, CommittedBy
<1>3. CASE AbstractWork
  BY <1>3 DEF AbstractWork, Store!Next, Store!Work, Up, Finished, Origin, CommittedBy
<1>4. CASE AbstractCommit
  BY <1>4 DEF AbstractCommit, Store!Next, Store!Commit, Up, Finished, Origin, CommittedBy
<1>5. CASE AbstractStop
  BY <1>5 DEF AbstractStop, Store!Next, Store!Stop, Up, Finished, Origin, CommittedBy
<1> QED BY <1>1, <1>2, <1>3, <1>4, <1>5

\* A step that leaves the published files alone and stays clear of the tracker.
LEMMA CommittedKept ==
  ASSUME UNCHANGED <<tracker, data>>, pc # "tracker_write", pc' # "tracker_write"
  PROVE  UNCHANGED <<Committed, CommittedBy>>
BY DEF Committed, CommittedBy

LEMMA StopMove ==
  ASSUME IInv, IInv', StopJob, pc # "tracker_write" PROVE UNCHANGED AbstractView \/ AbstractStop
<1>1. pc' = "down" /\ UNCHANGED <<Committed, CommittedBy>>
  BY CommittedKept DEF StopJob, diskVars
<1>2. ~Up' /\ Finished' = 0 /\ Origin' = 0
  BY <1>1, OriginIsNext DEF Up, Finished, Trained, Running
<1>3. ~Up => Finished = 0 /\ Origin = 0
  BY OriginIs DEF Up, Finished, Trained, Running
<1> QED BY <1>1, <1>2, <1>3 DEF AbstractView, AbstractStop, Up

LEMMA StartMove ==
  ASSUME AutoRotating, IInv, IInv', NEW mode \in ResumeModes, Start(mode)
  PROVE  UNCHANGED AbstractView \/ AbstractRecover
<1>1. /\ pc \in {"down", "finished"} /\ UNCHANGED <<tracker, data>> /\ dataFrom' = Absent
      /\ \/ pc' = "train" /\ step' = 1 /\ FindLatest = 0
         \/ pc' \in {"load", "down"}
  BY DEF Start, AutoRotating, FreshDriver, diskVars, TrainFromScratch, LoadFrom
<1>2. ~Up /\ Origin = 0 /\ Finished = 0 /\ UNCHANGED <<Committed, CommittedBy>>
  BY <1>1, OriginIs, CommittedKept DEF Up, Finished, Trained, Running
<1>3. CASE pc' \in {"load", "down"}
  <2>1. ~Up' /\ Origin' = 0 /\ Finished' = 0
    BY <1>3, OriginIsNext DEF Up, Finished, Trained, Running
  <2> QED BY <1>2, <2>1 DEF AbstractView, Up
<1>4. CASE pc' = "train" /\ step' = 1 /\ FindLatest = 0
  <2>1. tracker \notin Steps
    BY <1>4, ConstantFacts DEF IInv, PublishedIsFound, Steps
  <2>2. Committed = 0 /\ CommittedBy = 0
    BY <1>1, <2>1 DEF Committed, CommittedBy
  <2>3. Up' /\ Origin' = 0 /\ Finished' = 0
    BY <1>1, <1>4, OriginIsNext DEF Up, Finished, Trained, Running, Absent
  <2> QED BY <1>2, <2>2, <2>3 DEF AbstractRecover
<1> QED BY <1>1, <1>3, <1>4

\* Loading recovers the published step and the state of the run that saved it.
LEMMA LoadDataMove == ASSUME IInv, IInv', LoadData PROVE AbstractRecover
<1>1. /\ pc = "load_data" /\ pc' = "train" /\ step' = step + 1 /\ UNCHANGED <<tracker, data>>
      /\ data[step] # Absent => dataFrom' = data[step]
  BY DEF LoadData, diskVars
<1>2. tracker = step /\ step \in Steps /\ step \in Int /\ step # 0 /\ data[step] # Absent
  BY <1>1, ConstantFacts
     DEF IInv, LoadInv, LoopInv, Running, PublishedComplete, Steps, Lives, Absent
<1>3. Committed = step /\ CommittedBy = data[step]
  BY <1>1, <1>2 DEF Committed, CommittedBy
<1>4. ~Up /\ Up' /\ Finished' = step /\ Origin' = data[step]
  BY <1>1, <1>2, OriginIsNext DEF Up, Finished, Trained, Running
<1> QED BY <1>1, <1>3, <1>4, CommittedKept DEF AbstractRecover

LEMMA NextEpochMove ==
  ASSUME IInv, IInv', NextEpoch PROVE UNCHANGED AbstractView \/ AbstractStop
<1>1. /\ pc = "train" /\ pc' \in {"train", "finished"}
      /\ UNCHANGED <<tracker, data, step, dataFrom>>
  BY DEF NextEpoch, diskVars
<1>2. Up /\ UNCHANGED <<Committed, CommittedBy>>
  BY <1>1, CommittedKept DEF Up, Trained, Running
<1>3. CASE pc' = "train"
  BY <1>1, <1>2, <1>3, OriginIs, OriginIsNext DEF AbstractView, Up, Finished, Trained, Running
<1>4. CASE pc' = "finished"
  BY <1>2, <1>4, OriginIsNext DEF AbstractStop, Up, Finished, Trained, Running
<1> QED BY <1>1, <1>3, <1>4

LEMMA TrainStepMove ==
  ASSUME IInv, IInv', NEW esi \in BOOLEAN, TrainStep(esi) PROVE AbstractWork \/ AbstractStop
<1>1. /\ pc = "train" /\ UNCHANGED <<tracker, data, dataFrom>>
      /\ \/ pc' = "save" /\ step' = step
         \/ pc' \in {"train", "finished"} /\ step' = step + 1
  BY DEF TrainStep, EndOfStep, diskVars
<1>2. Up /\ UNCHANGED <<Committed, CommittedBy>> /\ step \in Int
  BY <1>1, CommittedKept, ConstantFacts DEF Up, Trained, Running, IInv, TypeOK
<1>3. CASE pc' \in {"save", "train"}
  BY <1>1, <1>2, <1>3, OriginIs, OriginIsNext DEF AbstractWork, Up, Finished, Trained, Running
<1>4. CASE pc' = "finished"
  BY <1>2, <1>4, OriginIsNext DEF AbstractStop, Up, Finished, Trained, Running
<1> QED BY <1>1, <1>3, <1>4

\* Neither the steps of the ranks nor the writing of data.pt touch what is published.
LEMMA SavingMove ==
  ASSUME IInv, IInv', SaveGroup \/ GroupSaved \/ OpenData \/ WriteData
  PROVE  UNCHANGED AbstractView
<1>1. /\ pc \in {"save", "data_open", "data_write"}
      /\ pc' \in {"save", "data_open", "data_write", "tracker_open"}
      /\ UNCHANGED <<tracker, step, dataFrom>>
      /\ \/ data' = data
         \/ pc \in WritingDriver /\ \E c \in Content : data' = [data EXCEPT ![step] = c]
  <2>1. pc \in WritingDriver => life \in Content
    BY WritingFacts DEF Content
  <2> QED
    BY <2>1, ConstantFacts DEF SaveGroup, GroupSaved, OpenData, WriteData, driverVars, diskVars,
       WritingDriver, Content, Torn
<1>2. /\ Committed = IF tracker \in Steps THEN tracker ELSE 0
      /\ Committed' = Committed
  BY <1>1 DEF Committed
<1>3. CommittedBy' = CommittedBy
  <2>1. CASE data' = data
    BY <1>2, <2>1 DEF CommittedBy
  <2>2. CASE pc \in WritingDriver /\ \E c \in Content : data' = [data EXCEPT ![step] = c]
    <3>1. Committed # 0 => Committed \in Steps /\ Committed # step
      BY <1>1, <1>2, <2>2, WritingFacts, ConstantFacts DEF Steps, Absent
    <3>2. data \in [Steps -> Content]
      BY DEF IInv, TypeOK
    <3> QED BY <1>2, <2>2, <3>1, <3>2 DEF CommittedBy
  <2> QED BY <1>1, <2>1, <2>2
<1>4. UNCHANGED <<Up, Finished, Origin>>
  BY <1>1, OriginIs, OriginIsNext DEF Up, Finished, Trained, Running
<1> QED BY <1>2, <1>3, <1>4 DEF AbstractView

\* Truncating the tracker is the commit: all that it will name is on disk.
LEMMA OpenTrackerMove == ASSUME IInv, IInv', OriginInv, OpenTracker PROVE AbstractCommit
<1>1. /\ pc = "tracker_open" /\ pc' = "tracker_write"
      /\ UNCHANGED <<step, data, dataFrom>>
  BY DEF OpenTracker
<1>2. /\ step \in Steps /\ step \in Nat /\ step # 0 /\ data[step] = life /\ life \in Lives
      /\ tracker \in Steps => tracker < step
  BY <1>1, ConstantFacts
     DEF IInv, LoopInv, SaveInv, Running, Publishing, Steps, Absent
<1>3. Committed' = step /\ CommittedBy' = life /\ Committed < step
  BY <1>1, <1>2 DEF Committed, CommittedBy
<1>4. Origin = dataFrom /\ Origin < life /\ Origin' = Origin
  BY <1>1, OriginIs, OriginIsNext DEF OriginInv, Trained, Running
<1>5. Up /\ Up' /\ Finished = step /\ Finished' = step
  BY <1>1 DEF Up, Finished, Trained, Running
<1>6. Committed' > Committed /\ CommittedBy' > Origin
  <2>1. Committed \in Int /\ dataFrom \in Int /\ life \in Int
    BY <1>1, <1>2, ConstantFacts DEF Committed, Steps, IInv, TypeOK, Lives, Absent
  <2> QED BY <1>2, <1>3, <1>4, <2>1
<1> QED BY <1>2, <1>3, <1>4, <1>5, <1>6 DEF AbstractCommit

LEMMA WriteTrackerMove ==
  ASSUME IInv, IInv', WriteTracker PROVE UNCHANGED AbstractView \/ AbstractStop
<1>1. /\ pc = "tracker_write" /\ pc' \in {"train", "finished"} /\ step' = step + 1
      /\ tracker' = step /\ UNCHANGED <<data, dataFrom>>
  BY DEF WriteTracker, EndOfStep
<1>2. step \in Steps /\ step \in Int
  BY <1>1, ConstantFacts DEF IInv, LoopInv, Running, Steps
<1>3. Up /\ Committed = step /\ UNCHANGED <<Committed, CommittedBy>> /\ Finished = step
  BY <1>1, <1>2 DEF Up, Finished, Committed, CommittedBy, Trained, Running
<1>4. CASE pc' = "train"
  BY <1>1, <1>2, <1>3, <1>4, OriginIs, OriginIsNext
     DEF AbstractView, Up, Finished, Trained, Running
<1>5. CASE pc' = "finished"
  BY <1>3, <1>5, OriginIsNext DEF AbstractStop, Up, Finished, Trained, Running
<1> QED BY <1>1, <1>4, <1>5

-----------------------------------------------------------------------------
LEMMA InitStore == Init => Store!Init
BY ConstantFacts DEF Init, Store!Init, Committed, Trained, Running, Steps, Absent

LEMMA NextStore ==
  ASSUME SparesTracker, IInv, IInv', OriginInv, [Next]_vars
  PROVE  [Store!Next]_(Store!storeVars)
<1>1. ASSUME NEW mode \in ResumeModes, Start(mode) PROVE UNCHANGED AbstractView \/ AbstractRecover
  BY <1>1, StartMove DEF SparesTracker
<1>2. CASE LoadData
  BY <1>2, LoadDataMove, StoreMove
<1>3. CASE LoadFails \/ Crash
  BY <1>3, StopMove, StoreMove DEF LoadFails, Crash, SparesTracker
<1>4. CASE NextEpoch
  BY <1>4, NextEpochMove, StoreMove
<1>5. ASSUME NEW esi \in BOOLEAN, TrainStep(esi) PROVE AbstractWork \/ AbstractStop
  BY <1>5, TrainStepMove
<1>6. CASE SaveGroup \/ GroupSaved \/ OpenData \/ WriteData
  BY <1>6, SavingMove, StoreMove
<1>7. CASE OpenTracker
  BY <1>7, OpenTrackerMove, StoreMove
<1>8. CASE WriteTracker
  BY <1>8, WriteTrackerMove, StoreMove
<1>9. CASE LoadGroup \/ GroupLoaded \/ UNCHANGED vars
  <2>1. /\ UNCHANGED <<tracker, data, step, dataFrom>>
        /\ pc' = pc \/ (pc = "load" /\ pc' = "load_data")
    BY <1>9 DEF LoadGroup, GroupLoaded, vars, driverVars, diskVars
  <2>2. UNCHANGED <<Up, Finished, Origin>>
    BY <2>1, OriginIs, OriginIsNext DEF Up, Finished, Trained, Running
  <2>3. UNCHANGED <<Committed, CommittedBy>>
    BY <2>1 DEF Committed, CommittedBy
  <2> QED BY <2>2, <2>3, StoreMove DEF AbstractView
<1> QED
  BY <1>1, <1>2, <1>3, <1>4, <1>5, <1>6, <1>7, <1>8, <1>9, StoreMove DEF Next, Progress

\* Over all crashes and resubmissions, a run that comes up goes on from the step
\* that was committed last and from the state of the run that committed it, and
\* commits only later steps.
THEOREM StoreImplemented == ASSUME SparesTracker PROVE Spec => ImplementsStore
<1>1. AutoRotating
  BY DEF SparesTracker
<1>2. IInv /\ OriginInv /\ [Next]_vars => (IInv /\ OriginInv)'
  BY <1>1, NextIInv, NextOrigin
<1>3. IInv /\ OriginInv /\ IInv' /\ [Next]_vars => [Store!Next]_(Store!storeVars)
  BY NextStore
<1> QED BY InitIInv, InitOrigin, InitStore, <1>2, <1>3, PTL DEF Spec, ImplementsStore, Store!Spec
-----------------------------------------------------------------------------
(***************************************************************************)
(* Part 3.  In every resume mode, with any max_ckpt_to_keep and wherever   *)
(* the job crashes: types, a tracker that names a directory, and how many  *)
(* directories of its own a run keeps.                                     *)
(***************************************************************************)


\* A step that may still be saved, a checkpoint that may be resumed from: one more fits the bound.
BoundsInv ==
  /\ \A s \in folders : s < MaxStep
  /\ pc \in Running => life \in Lives /\ step \in Steps /\ epoch < TotalEpochs
  /\ pc \in Running \ {"train"} => step < MaxStep
  /\ pc \in {"data_write", "tracker_open", "tracker_write"} => step \in folders

\* The two barriers of save_checkpoint: nobody writes before rank 0 has rotated, and rank 0
\* returns when everybody has written.
BarrierInv ==
  pc = "save" =>
    /\ \A r \in Ranks : rpc[r] \in {"called", "entered", "writing", "dumped", "returned"}
    /\ (\E r \in Ranks : rpc[r] \in {"writing", "dumped", "returned"}) =>
         \A r \in Ranks : rpc[r] # "called"
    /\ rpc[Rank0] = "returned" => \A r \in Ranks : rpc[r] \in {"dumped", "returned"}

\* The directories this run has filled are on the list, or the one being filled, for which
\* rank 0 made room.
FilledBy(g)  == {s \in Steps : \E r \in Ranks : shard[g][s][r] = life}
Listed(g)    == {previous_saved_paths[g][i] : i \in 1..Len(previous_saved_paths[g])}
HasRoom(g)   == pc = "save" /\ group = g /\ rpc[Rank0] \in {"entered", "writing", "dumped"}
FilledInv ==
  /\ \A g \in Groups, s \in Steps, r \in Ranks : shard[g][s][r] <= life
  /\ pc \in Running => \A g \in Groups :
       /\ FilledBy(g) \subseteq Listed(g) \cup (IF HasRoom(g) THEN {step} ELSE {})
       /\ MaxKeep[g] > 0 =>
            Len(previous_saved_paths[g]) + (IF HasRoom(g) THEN 1 ELSE 0) <= MaxKeep[g]

AnyInv == TypeOK /\ PublishedIsFound /\ BoundsInv /\ BarrierInv /\ FilledInv

LEMMA AnyTypes ==
  ASSUME TypeOK
  PROVE  /\ shard \in [Groups -> [Steps -> [Ranks -> Content]]] /\ rpc \in [Ranks -> RankPhases]
         /\ previous_saved_paths \in [Groups -> Seq(Steps)]
         /\ loaded \in [Groups -> [Ranks -> Lives \cup {Absent}]]
         /\ group \in Groups /\ Rank0 \in Ranks /\ life \in Nat /\ MaxStep \in Nat
         /\ \A g \in Groups : MaxKeep[g] \in Nat /\ Len(previous_saved_paths[g]) \in Nat
         /\ \A g \in Groups, s \in Steps, r \in Ranks : shard[g][s][r] \in Int
         /\ Steps \subseteq Nat /\ Absent = 0
<1>1. Content \subseteq Int /\ Steps \subseteq Nat /\ Absent = 0
  BY ConstantFacts DEF Content, Absent, Torn, Lives, Steps
<1>2. /\ shard \in [Groups -> [Steps -> [Ranks -> Content]]] /\ rpc \in [Ranks -> RankPhases]
      /\ previous_saved_paths \in [Groups -> Seq(Steps)]
      /\ loaded \in [Groups -> [Ranks -> Lives \cup {Absent}]]
      /\ group \in Groups /\ Rank0 \in Ranks /\ life \in Nat /\ MaxStep \in Nat
  BY ConstantFacts DEF TypeOK, ManagerTypeOK
<1>3. \A g \in Groups : MaxKeep[g] \in Nat /\ Len(previous_saved_paths[g]) \in Nat
  BY <1>2, ConstantFacts DEF Groups
<1>4. \A g \in Groups, s \in Steps, r \in Ranks : shard[g][s][r] \in Int
  <2>1. \A g \in Groups, s \in Steps, r \in Ranks : shard[g][s][r] \in Content
    BY <1>2
  <2> QED BY <1>1, <2>1
<1> QED BY <1>1, <1>2, <1>3, <1>4

LEMMA InitAny == Init => AnyInv
<1> SUFFICES ASSUME Init PROVE AnyInv
  OBVIOUS
<1> USE ConstantFacts DEF Init, ManagerInit
<1>1. TypeOK
  BY DEF TypeOK, ManagerTypeOK, RankPhases, Content, Absent, Torn, Running, Steps
<1>2. tracker \notin Steps /\ pc = "down"
  BY DEF Steps, Absent
<1>3. \A g \in Groups, s \in Steps, r \in Ranks : shard[g][s][r] = 0
  BY DEF Absent
<1> QED
  BY <1>1, <1>2, <1>3 DEF AnyInv, PublishedIsFound, BoundsInv, BarrierInv, FilledInv, Running

\* Outside a save, what the run has filled stays on the lists as long as neither changes.
LEMMA FilledRests ==
  ASSUME AnyInv, UNCHANGED <<shard, previous_saved_paths, life>>,
         pc' \in Running => pc \in Running,
         \A g \in Groups : ~HasRoom(g) /\ ~HasRoom(g)'
  PROVE  FilledInv'
<1>1. \A g \in Groups : FilledBy(g)' = FilledBy(g) /\ Listed(g)' = Listed(g)
  BY DEF FilledBy, Listed
<1> QED BY <1>1 DEF AnyInv, FilledInv

\* The tracker is found as long as it and the directories stay.
LEMMA FoundRests ==
  ASSUME AnyInv, tracker' = tracker, folders \subseteq folders'
  PROVE  PublishedIsFound'
BY ConstantFacts DEF AnyInv, PublishedIsFound, FindLatest, Steps

LEMMA StopAny == ASSUME AnyInv, StopJob PROVE AnyInv'
<1> USE ConstantFacts DEF StopJob, FreshDriver, ForgetManager, CallAll, diskVars
<1>1. TypeOK'
  BY DEF AnyInv, TypeOK, ManagerTypeOK, RankPhases, Running, Absent
<1>2. pc' = "down" /\ UNCHANGED <<shard, folders, tracker, life>>
  OBVIOUS
<1> HIDE DEF StopJob, FreshDriver, ForgetManager, CallAll
<1>3. PublishedIsFound'
  BY <1>2, FoundRests
<1> QED
  BY <1>1, <1>2, <1>3 DEF AnyInv, BoundsInv, BarrierInv, FilledInv, Running

LEMMA StartAny == ASSUME AnyInv, NEW mode \in ResumeModes, Start(mode) PROVE AnyInv'
<1>1. /\ UNCHANGED <<shard, folders, data, datapos, tracker>>
      /\ life' = life + 1 /\ life < MaxLife
      /\ group' = 1 /\ epoch' = 0 /\ pos' = 0 /\ drawn' = 0 /\ dataFrom' = Absent
      /\ previous_saved_paths' = [g \in Groups |-> <<>>]
      /\ loaded' = [g \in Groups |-> [r \in Ranks |-> Absent]]
  BY DEF Start, FreshDriver, diskVars
<1>2. \/ pc' = "train" /\ step' = 1 /\ CallAll("idle")
      \/ pc' = "load" /\ step' \in folders /\ CallAll("loading")
      \/ pc' = "down" /\ step' = 0 /\ CallAll("idle")
  BY DEF Start, TrainFromScratch, LoadFrom, FindLatest
<1>2a. /\ pc' \in {"train", "load", "down"}
       /\ pc' = "train" => step' = 1
       /\ pc' = "load" => step' \in folders
       /\ pc' = "down" => step' = 0
  BY <1>2
<1>2b. MaxStep \in Nat /\ MaxStep >= 1
  BY ConstantFacts
<1>3. folders \subseteq 1..MaxStep /\ (\A s \in folders : s < MaxStep) /\ life \in 0..MaxLife
  BY DEF AnyInv, TypeOK, BoundsInv, Steps
<1>4. TypeOK'
  <2>1. ManagerTypeOK'
    BY <1>1, <1>2 DEF AnyInv, TypeOK, ManagerTypeOK, RankPhases, CallAll
  <2>2. step' \in 0..MaxStep
    <3>1. CASE step' = 0
      BY <3>1, <1>2b
    <3>2. CASE step' = 1
      BY <3>2, <1>2b
    <3>3. CASE step' \in folders
      BY <3>3, <1>2b, <1>3
    <3> QED BY <3>1, <3>2, <3>3, <1>2a
  <2>3. pc' \in Running \cup {"down", "finished"}
    BY <1>2 DEF Running
  <2>4. life' \in 0..MaxLife
    BY <1>1, <1>3, ConstantFacts
  <2> QED BY <1>1, <2>1, <2>2, <2>3, <2>4, ConstantFacts DEF AnyInv, TypeOK
<1>5. PublishedIsFound'
  BY <1>1, FoundRests
<1>6. BoundsInv'
  <2>1. life' \in Lives /\ epoch' < TotalEpochs
    BY <1>1, <1>3, ConstantFacts DEF Lives
  <2>2. pc' \in {"train", "load"} => step' \in Steps
    <3>1. CASE step' = 1
      BY <3>1, <1>2b DEF Steps
    <3>2. CASE step' \in folders
      BY <3>2, <1>3 DEF Steps
    <3> QED BY <3>1, <3>2, <1>2a
  <2>3. pc' = "load" => step' < MaxStep
    BY <1>2, <1>3
  <2>4. pc' \in {"train", "load", "down"}
    BY <1>2
  <2>5. \A s \in folders' : s < MaxStep
    BY <1>1, <1>3
  <2> QED BY <2>1, <2>2, <2>3, <2>4, <2>5 DEF BoundsInv, Running
<1>7. BarrierInv'
  BY <1>2 DEF BarrierInv
<1>8. FilledInv'
  <2>1. \A g \in Groups, s \in Steps, r \in Ranks : shard'[g][s][r] < life'
    BY <1>1, AnyTypes DEF AnyInv, FilledInv
  <2>2. \A g \in Groups, s \in Steps, r \in Ranks : shard'[g][s][r] \in Int /\ life' \in Int
    BY <1>1, AnyTypes DEF AnyInv
  <2>3. \A g \in Groups : FilledBy(g)' = {}
    BY <2>1, <2>2 DEF FilledBy
  <2>4. \A g \in Groups : ~HasRoom(g)' /\ previous_saved_paths'[g] = <<>> /\ MaxKeep[g] \in Nat
    BY <1>1, <1>2, AnyTypes DEF AnyInv, HasRoom
  <2>5. \A g \in Groups : FilledBy(g)' \subseteq Listed(g)'
    BY <2>3
  <2>6. \A g \in Groups : Len(previous_saved_paths'[g]) = 0
    BY <2>4
  <2>7. \A g \in Groups, s \in Steps, r \in Ranks : shard'[g][s][r] <= life'
    BY <2>1, <2>2
  <2>9. ASSUME NEW g \in Groups, MaxKeep[g] > 0
        PROVE  Len(previous_saved_paths'[g]) + (IF HasRoom(g)' THEN 1 ELSE 0) <= MaxKeep[g]
    <3>1. ~HasRoom(g)' /\ MaxKeep[g] \in Nat /\ Len(previous_saved_paths'[g]) = 0
      BY <2>4, <2>6
    <3> QED BY <2>9, <3>1
  <2>10. \A g \in Groups : FilledBy(g)' \subseteq Listed(g)' \cup (IF HasRoom(g)' THEN {step'} ELSE {})
    BY <2>5
  <2> QED BY <2>7, <2>9, <2>10 DEF FilledInv
<1> QED BY <1>4, <1>5, <1>6, <1>7, <1>8 DEF AnyInv

LEMMA LoadGroupAny == ASSUME AnyInv, LoadGroup PROVE AnyInv'
<1>1. PICK r \in Ranks : LoadShard(group, step, r)
  BY DEF LoadGroup
<1>2. /\ pc = "load"
      /\ UNCHANGED <<pc, life, step, group, epoch, pos, drawn, dataFrom,
                     shard, folders, data, datapos, tracker, previous_saved_paths>>
      /\ rpc' = [rpc EXCEPT ![r] = "loaded"]
      /\ loaded' = [loaded EXCEPT ![group][r] = shard[group][step][r]]
      /\ shard[group][step][r] \in Lives
  BY <1>1 DEF LoadGroup, LoadShard, driverVars, Whole
<1>3. TypeOK'
  BY <1>2 DEF AnyInv, TypeOK, ManagerTypeOK, RankPhases
<1>4. PublishedIsFound'
  BY <1>2, FoundRests
<1>5. FilledInv'
  BY <1>2, FilledRests DEF HasRoom
<1> QED BY <1>2, <1>3, <1>4, <1>5 DEF AnyInv, BoundsInv, BarrierInv

LEMMA GroupLoadedAny == ASSUME AnyInv, GroupLoaded PROVE AnyInv'
<1>1. /\ pc = "load"
      /\ UNCHANGED <<shard, folders, data, datapos, tracker, previous_saved_paths, loaded,
                     life, step, epoch, pos, drawn, dataFrom>>
      /\ \/ group < NumGroups /\ pc' = "load" /\ group' = group + 1 /\ CallAll("loading")
         \/ pc' = "load_data" /\ group' = 1 /\ CallAll("idle")
  BY DEF GroupLoaded, diskVars
<1>2. group \in 1..NumGroups /\ NumGroups \in Nat
  BY ConstantFacts DEF AnyInv, TypeOK, Groups
<1>3. TypeOK'
  BY <1>1, <1>2, SMTT(30) DEF AnyInv, TypeOK, ManagerTypeOK, RankPhases, CallAll, Running, Groups
<1>4. PublishedIsFound'
  BY <1>1, FoundRests
<1>5. FilledInv'
  BY <1>1, FilledRests DEF HasRoom, Running
<1> QED BY <1>1, <1>3, <1>4, <1>5 DEF AnyInv, BoundsInv, BarrierInv, Running

LEMMA LoadDataAny == ASSUME AnyInv, LoadData PROVE AnyInv'
<1>1. /\ pc = "load_data" /\ pc' = "train" /\ step' = step + 1 /\ data[step] # Torn
      /\ UNCHANGED <<shard, folders, data, datapos, tracker, previous_saved_paths, rpc, loaded,
                     life, group, epoch>>
      /\ \/ UNCHANGED <<drawn, pos, dataFrom>>
         \/ data[step] # Absent /\ drawn' = datapos[step] /\ pos' = PosOf(datapos[step])
              /\ dataFrom' = data[step]
  BY DEF LoadData, managerVars, diskVars
<1>2. step \in Steps /\ step < MaxStep /\ life \in Lives /\ epoch < TotalEpochs
  BY <1>1 DEF AnyInv, BoundsInv, Running
<1>3. step' \in Steps
  BY <1>1, <1>2, ConstantFacts DEF Steps
<1>4. TypeOK'
  <2>1. datapos[step] \in Nat /\ data[step] \in Content
    BY <1>2 DEF AnyInv, TypeOK
  <2>2. PosOf(datapos[step]) \in 0..StepsPerEpoch
    BY <2>1, PosOfType
  <2>3. ManagerTypeOK'
    BY <1>1 DEF AnyInv, TypeOK, ManagerTypeOK
  <2>4. drawn' \in Nat /\ pos' \in 0..StepsPerEpoch /\ dataFrom' \in Lives \cup {Absent}
    BY <1>1, <2>1, <2>2 DEF AnyInv, TypeOK, Content
  <2> QED BY <1>1, <1>3, <2>3, <2>4 DEF AnyInv, TypeOK, Running, Steps
<1>5. PublishedIsFound'
  BY <1>1, FoundRests
<1>6. FilledInv'
  BY <1>1, FilledRests DEF HasRoom, Running
<1>7. BoundsInv' /\ BarrierInv'
  BY <1>1, <1>2, <1>3 DEF AnyInv, BoundsInv, BarrierInv, Running
<1> QED BY <1>4, <1>5, <1>6, <1>7 DEF AnyInv

LEMMA NextEpochAny == ASSUME AnyInv, NextEpoch PROVE AnyInv'
<1>1. /\ pc = "train"
      /\ UNCHANGED <<shard, folders, data, datapos, tracker, previous_saved_paths, rpc, loaded,
                     life, step, group, drawn, dataFrom>>
      /\ epoch' = epoch + 1
      /\ \/ pc' = "train" /\ epoch' < TotalEpochs /\ pos' = 0
         \/ pc' = "finished" /\ pos' = pos
  BY DEF NextEpoch, managerVars, diskVars
<1>2. epoch \in Nat /\ epoch < TotalEpochs /\ TotalEpochs \in Nat
  BY <1>1, ConstantFacts DEF AnyInv, TypeOK, BoundsInv, Running
<1>3. TypeOK'
  BY <1>1, <1>2, ConstantFacts DEF AnyInv, TypeOK, ManagerTypeOK, Running
<1>4. PublishedIsFound'
  BY <1>1, FoundRests
<1>5. FilledInv'
  BY <1>1, FilledRests DEF HasRoom, Running
<1> QED BY <1>1, <1>3, <1>4, <1>5 DEF AnyInv, BoundsInv, BarrierInv, Running

LEMMA TrainStepAny == ASSUME AnyInv, NEW esi \in BOOLEAN, TrainStep(esi) PROVE AnyInv'
<1>1. /\ pc = "train" /\ pos < StepsPerEpoch /\ step < MaxStep
      /\ pos' = pos + 1 /\ drawn' = drawn + 1
      /\ UNCHANGED <<shard, folders, data, datapos, tracker, previous_saved_paths, loaded,
                     life, group, epoch, dataFrom>>
      /\ \/ pc' = "save" /\ step' = step /\ CallAll("called")
         \/ pc' \in {"train", "finished"} /\ step' = step + 1 /\ CallAll("idle")
  BY DEF TrainStep, EndOfStep, diskVars
<1>2. /\ step \in Steps /\ life \in Lives /\ epoch < TotalEpochs
      /\ pos \in 0..StepsPerEpoch /\ drawn \in Nat /\ StepsPerEpoch \in Nat /\ MaxStep \in Nat
  BY <1>1, ConstantFacts DEF AnyInv, BoundsInv, Running, TypeOK
<1>3. step' \in Steps
  BY <1>1, <1>2 DEF Steps
<1>4. TypeOK'
  <2>1. ManagerTypeOK'
    BY <1>1 DEF AnyInv, TypeOK, ManagerTypeOK, RankPhases, CallAll
  <2>2. pos' \in 0..StepsPerEpoch /\ drawn' \in Nat
    BY <1>1, <1>2
  <2> QED BY <1>1, <1>3, <2>1, <2>2 DEF AnyInv, TypeOK, Running, Steps
<1>5. PublishedIsFound'
  BY <1>1, FoundRests
<1>6. FilledInv'
  <2>1. \A g \in Groups : ~HasRoom(g) /\ ~HasRoom(g)'
    BY <1>1, ConstantFacts DEF HasRoom, CallAll
  <2> QED BY <1>1, <2>1, FilledRests DEF Running
<1>7. BarrierInv'
  BY <1>1, ConstantFacts DEF BarrierInv, CallAll
<1>8. BoundsInv'
  BY <1>1, <1>2, <1>3 DEF AnyInv, BoundsInv, Running
<1> QED BY <1>4, <1>5, <1>6, <1>7, <1>8 DEF AnyInv

-----------------------------------------------------------------------------
(***************************************************************************)
(* The steps of a save.                                                    *)
(***************************************************************************)
LEMMA SavingAny ==
  ASSUME AnyInv, pc = "save"
  PROVE  /\ life \in Lives /\ step \in Steps /\ step < MaxStep
         /\ rpc[Rank0] \in {"called", "entered", "writing", "dumped", "returned"}
         /\ \A g \in Groups :
              /\ FilledBy(g) \subseteq Listed(g) \cup (IF HasRoom(g) THEN {step} ELSE {})
              /\ MaxKeep[g] > 0 =>
                   Len(previous_saved_paths[g]) + (IF HasRoom(g) THEN 1 ELSE 0) <= MaxKeep[g]
BY ConstantFacts DEF AnyInv, BoundsInv, BarrierInv, FilledInv, Running

\* What a step of a rank leaves alone.
LEMMA SaveFrameAny ==
  ASSUME AnyInv, pc = "save",
         UNCHANGED <<driverVars, data, datapos, tracker, loaded>>,
         folders \subseteq folders', folders' \subseteq folders \cup {step},
         shard' \in [Groups -> [Steps -> [Ranks -> Content]]], rpc' \in [Ranks -> RankPhases],
         previous_saved_paths' \in [Groups -> Seq(Steps)],
         BarrierInv', FilledInv'
  PROVE  AnyInv'
<1>1. step \in Steps /\ step < MaxStep /\ tracker' = tracker
  BY SavingAny
<1>2. TypeOK'
  BY <1>1 DEF AnyInv, TypeOK, ManagerTypeOK, driverVars
<1>3. PublishedIsFound'
  BY <1>1, FoundRests
<1>4. BoundsInv'
  BY <1>1 DEF AnyInv, BoundsInv, driverVars
<1> QED BY <1>2, <1>3, <1>4 DEF AnyInv

LEMMA RemoveOldFileAny ==
  ASSUME AnyInv, pc = "save", RemoveOldFile(group),
         UNCHANGED <<driverVars, folders, data, datapos, tracker>>
  PROVE  AnyInv'
<1>1. PICK s \in Doomed(group), r \in Ranks :
        shard[group][s][r] # Absent /\ shard' = [shard EXCEPT ![group][s][r] = Absent]
  BY DEF RemoveOldFile
<1>2. UNCHANGED <<previous_saved_paths, rpc, loaded, pc, life, step, group>>
  BY DEF RemoveOldFile, driverVars
<1>3. KeepStart(group) \in 0..Len(previous_saved_paths[group])
  <2>1. Len(previous_saved_paths[group]) \in Nat /\ MaxKeep[group] \in Nat
    BY AnyTypes DEF AnyInv
  <2> QED BY <2>1 DEF KeepStart
<1>4. s \in Steps
  <2>1. PICK i \in 1..KeepStart(group) : s = previous_saved_paths[group][i]
    BY DEF Doomed
  <2>2. previous_saved_paths[group] \in Seq(Steps)
    BY AnyTypes DEF AnyInv
  <2> QED BY <1>3, <2>1, <2>2
<1>5. \A g \in Groups, t \in Steps, q \in Ranks :
        shard'[g][t][q] = shard[g][t][q] \/ shard'[g][t][q] = 0
  BY <1>1, <1>4, AnyTypes DEF AnyInv
<1>6. life # 0 /\ life \in Nat
  BY SavingAny, ConstantFacts DEF Lives
<1>7. \A g \in Groups, t \in Steps, q \in Ranks : shard'[g][t][q] <= life'
  BY <1>2, <1>5, <1>6 DEF AnyInv, FilledInv
<1>8. \A g \in Groups : FilledBy(g)' \subseteq FilledBy(g)
  BY <1>2, <1>5, <1>6 DEF FilledBy
<1>9. \A g \in Groups : Listed(g)' = Listed(g) /\ HasRoom(g)' = HasRoom(g)
  BY <1>2 DEF Listed, HasRoom
<1>10. FilledInv'
  BY <1>2, <1>7, <1>8, <1>9, SavingAny DEF FilledInv
<1>11. BarrierInv'
  BY <1>2 DEF AnyInv, BarrierInv
<1>12. shard' \in [Groups -> [Steps -> [Ranks -> Content]]]
  BY <1>1, <1>4, AnyTypes DEF AnyInv, Content
<1> QED BY <1>2, <1>10, <1>11, <1>12, AnyTypes, SaveFrameAny DEF AnyInv

\* What rotation leaves of a group's list has what the run has filled, and room for one more.
LEMMA RoomMade ==
  ASSUME AnyInv, pc = "save", rpc[Rank0] = "called",
         \A s \in Doomed(group), r \in Ranks : shard[group][s][r] = Absent
  PROVE  LET p == previous_saved_paths[group]
             q == SubSeq(p, KeepStart(group) + 1, Len(p)) IN
           /\ q \in Seq(Steps) /\ Len(q) \in Nat
           /\ MaxKeep[group] > 0 => Len(q) + 1 <= MaxKeep[group]
           /\ FilledBy(group) \subseteq {q[i] : i \in 1..Len(q)}
<1> DEFINE p == previous_saved_paths[group]
           k == KeepStart(group)
           q == SubSeq(p, k + 1, Len(p))
           keep == MaxKeep[group]
<1>1. /\ p \in Seq(Steps) /\ Len(p) \in Nat /\ keep \in Nat /\ group \in Groups
      /\ ~HasRoom(group) /\ FilledBy(group) \subseteq Listed(group)
      /\ keep > 0 => Len(p) + 0 <= keep
  <2>1. ~HasRoom(group)
    BY DEF HasRoom
  <2> QED BY <2>1, SavingAny, AnyTypes DEF AnyInv
<1>2. k = IF keep > 0 /\ Len(p) >= keep THEN Len(p) - keep + 1 ELSE 0
  BY DEF KeepStart
<1>3. k \in 0..Len(p)
  BY <1>1, <1>2
<1>4. \A s \in FilledBy(group) : s \notin Doomed(group)
  <2>1. life # Absent
    BY SavingAny, ConstantFacts DEF Lives, Absent
  <2> QED BY <2>1 DEF FilledBy
<1>5. Doomed(group) = {p[i] : i \in 1..k}
  BY DEF Doomed
<1>6. /\ q \in Seq(Steps) /\ Len(q) \in Nat /\ Len(q) = Len(p) - k
      /\ \A i \in k + 1..Len(p) : i - k \in 1..Len(q) /\ q[i - k] = p[i]
  <2>1. /\ q \in Seq(Steps) /\ Len(q) \in Nat /\ Len(q) = Len(p) - k
        /\ \A i \in 1..Len(q) : q[i] = p[i + k]
    BY <1>1, <1>3, DropFirst
  <2> HIDE DEF p, q, k
  <2>2. \A i \in k + 1..Len(p) : i - k \in 1..Len(q) /\ (i - k) + k = i
    BY <1>1, <1>3, <2>1
  <2> QED BY <2>1, <2>2
<1>7. Listed(group) = {p[i] : i \in 1..Len(p)}
  BY DEF Listed
<1> HIDE DEF k, q, p, keep
<1>8. keep > 0 => Len(q) + 1 <= keep
  BY <1>1, <1>2, <1>3, <1>6
<1>9. ASSUME NEW s \in FilledBy(group) PROVE s \in {q[i] : i \in 1..Len(q)}
  <2>1. PICK i \in 1..Len(p) : s = p[i]
    BY <1>1, <1>7
  <2>2. i \notin 1..k
    BY <1>4, <1>5, <2>1
  <2>3. i \in k + 1..Len(p)
    BY <1>1, <1>3, <2>2
  <2> QED BY <1>6, <2>1, <2>3
<1> QED BY <1>6, <1>8, <1>9 DEF k, q, p, keep

LEMMA EnterSaveAny ==
  ASSUME AnyInv, pc = "save", NEW r \in Ranks, EnterSave(group, r),
         folders' = folders \cup {step},
         UNCHANGED <<driverVars, data, datapos, tracker>>
  PROVE  AnyInv'
<1> DEFINE q == SubSeq(previous_saved_paths[group], KeepStart(group) + 1,
                       Len(previous_saved_paths[group]))
<1>1. /\ rpc[r] = "called" /\ rpc' = [rpc EXCEPT ![r] = "entered"]
      /\ UNCHANGED <<shard, loaded, pc, life, step, group>>
      /\ r = Rank0 => \A s \in Doomed(group), x \in Ranks : shard[group][s][x] = Absent
      /\ previous_saved_paths' = IF r = Rank0 THEN [previous_saved_paths EXCEPT ![group] = q]
                                              ELSE previous_saved_paths
  BY DEF EnterSave, driverVars
<1>2. r = Rank0 => /\ q \in Seq(Steps) /\ Len(q) \in Nat
                   /\ MaxKeep[group] > 0 => Len(q) + 1 <= MaxKeep[group]
                   /\ FilledBy(group) \subseteq {q[i] : i \in 1..Len(q)}
  BY <1>1, RoomMade
<1> HIDE DEF q
<1>3. /\ previous_saved_paths \in [Groups -> Seq(Steps)] /\ rpc \in [Ranks -> RankPhases]
      /\ group \in Groups /\ Rank0 \in Ranks
      /\ \A x \in Ranks : rpc'[x] = IF x = r THEN "entered" ELSE rpc[x]
  BY <1>1, AnyTypes DEF AnyInv
<1>4. previous_saved_paths' \in [Groups -> Seq(Steps)] /\ rpc' \in [Ranks -> RankPhases]
  BY <1>1, <1>2, <1>3 DEF RankPhases
<1>5. BarrierInv'
  BY <1>1, <1>3 DEF AnyInv, BarrierInv
<1>6. \A g \in Groups : FilledBy(g)' = FilledBy(g)
  BY <1>1 DEF FilledBy
<1>7. ASSUME NEW g \in Groups
      PROVE  /\ FilledBy(g)' \subseteq Listed(g)' \cup (IF HasRoom(g)' THEN {step'} ELSE {})
             /\ MaxKeep[g] > 0 =>
                  Len(previous_saved_paths'[g]) + (IF HasRoom(g)' THEN 1 ELSE 0) <= MaxKeep[g]
  <2>1. CASE g = group /\ r = Rank0
    <3>1. previous_saved_paths'[g] = q /\ HasRoom(g)'
      BY <1>1, <1>3, <2>1 DEF HasRoom
    <3>2. Listed(g)' = {q[i] : i \in 1..Len(q)}
      BY <3>1 DEF Listed
    <3> QED BY <1>2, <1>6, <2>1, <3>1, <3>2
  <2>2. CASE ~(g = group /\ r = Rank0)
    <3>1. previous_saved_paths'[g] = previous_saved_paths[g]
      BY <1>1, <1>3, <2>2
    <3>2. HasRoom(g)' = HasRoom(g)
      BY <1>1, <1>3, <2>2 DEF HasRoom
    <3>3. Listed(g)' = Listed(g)
      BY <3>1 DEF Listed
    <3> QED BY <1>1, <1>6, <3>1, <3>2, <3>3, SavingAny
  <2> QED BY <2>1, <2>2
<1>8. FilledInv'
  BY <1>1, <1>7 DEF AnyInv, FilledInv
<1> QED BY <1>1, <1>4, <1>5, <1>8, AnyTypes, SaveFrameAny DEF AnyInv

\* A rank's shard of the step being saved: torn first, then this run's.
LEMMA ShardAny ==
  ASSUME AnyInv, pc = "save", NEW r \in Ranks, NEW c \in {Torn, life},
         NEW phase \in {"writing", "dumped"},
         rpc[r] \in {"entered", "writing"}, \A q \in Ranks : rpc[q] # "called",
         shard' = [shard EXCEPT ![group][step][r] = c],
         rpc' = [rpc EXCEPT ![r] = phase],
         UNCHANGED <<previous_saved_paths, loaded, driverVars, folders, data, datapos, tracker>>
  PROVE  AnyInv'
<1>1. /\ shard \in [Groups -> [Steps -> [Ranks -> Content]]]
      /\ rpc \in [Ranks -> RankPhases] /\ life \in Nat
      /\ group \in Groups /\ step \in Steps /\ Rank0 \in Ranks
      /\ \A x \in Ranks : rpc'[x] = IF x = r THEN phase ELSE rpc[x]
      /\ UNCHANGED <<pc, life, step, group>>
  BY AnyTypes, SavingAny DEF AnyInv, driverVars
<1>2. /\ rpc[Rank0] \in {"entered", "writing", "dumped"}
      /\ rpc'[Rank0] \in {"entered", "writing", "dumped"}
  <2>1. rpc[Rank0] # "returned"
    BY DEF AnyInv, BarrierInv
  <2>2. rpc[Rank0] # "called"
    BY <1>1
  <2> QED BY <1>1, <2>1, <2>2, SavingAny
<1>3. BarrierInv'
  BY <1>1, <1>2 DEF AnyInv, BarrierInv
<1>4. c <= life /\ c \in Content
  BY <1>1, SavingAny DEF Torn, Content
<1>5. \A g \in Groups, s \in Steps, q \in Ranks :
        shard'[g][s][q] = IF g = group /\ s = step /\ q = r THEN c ELSE shard[g][s][q]
  BY <1>1
<1>6. \A g \in Groups, s \in Steps, q \in Ranks : shard'[g][s][q] <= life'
  BY <1>1, <1>4, <1>5 DEF AnyInv, FilledInv
<1>7. HasRoom(group) /\ \A g \in Groups : HasRoom(g)' = HasRoom(g) /\ Listed(g)' = Listed(g)
  BY <1>1, <1>2 DEF HasRoom, Listed
<1>8. \A g \in Groups : FilledBy(g)' \subseteq FilledBy(g) \cup (IF HasRoom(g) THEN {step} ELSE {})
  <2> SUFFICES ASSUME NEW g \in Groups, NEW s \in FilledBy(g)'
               PROVE  s \in FilledBy(g) \cup (IF HasRoom(g) THEN {step} ELSE {})
    OBVIOUS
  <2>1. PICK q \in Ranks : shard'[g][s][q] = life
    BY <1>1 DEF FilledBy
  <2>2. s \in Steps
    BY DEF FilledBy
  <2>3. CASE g = group /\ s = step
    BY <1>7, <2>3
  <2>4. CASE ~(g = group /\ s = step)
    BY <1>5, <2>1, <2>2, <2>4 DEF FilledBy
  <2> QED BY <2>3, <2>4
<1>9. FilledInv'
  BY <1>1, <1>6, <1>7, <1>8, SavingAny DEF FilledInv
<1>10. shard' \in [Groups -> [Steps -> [Ranks -> Content]]] /\ rpc' \in [Ranks -> RankPhases]
  BY <1>1, <1>4 DEF RankPhases
<1> QED BY <1>1, <1>3, <1>9, <1>10, AnyTypes, SaveFrameAny DEF AnyInv

LEMMA ReturnSaveAny ==
  ASSUME AnyInv, pc = "save", NEW r \in Ranks, ReturnSave(group, step, r),
         UNCHANGED <<driverVars, folders, data, datapos, tracker>>
  PROVE  AnyInv'
<1> DEFINE p == previous_saved_paths[group]
           q == Append(p, step)
<1>1. /\ rpc[r] = "dumped" /\ rpc' = [rpc EXCEPT ![r] = "returned"]
      /\ \A x \in Ranks : rpc[x] \in {"dumped", "returned"}
      /\ UNCHANGED <<shard, loaded, pc, life, step, group>>
      /\ previous_saved_paths' = IF r = Rank0 THEN [previous_saved_paths EXCEPT ![group] = q]
                                              ELSE previous_saved_paths
  BY DEF ReturnSave, driverVars
<1>2. /\ previous_saved_paths \in [Groups -> Seq(Steps)] /\ rpc \in [Ranks -> RankPhases]
      /\ group \in Groups /\ step \in Steps /\ Rank0 \in Ranks
      /\ \A x \in Ranks : rpc'[x] = IF x = r THEN "returned" ELSE rpc[x]
  BY <1>1, AnyTypes, SavingAny DEF AnyInv
<1>3. p \in Seq(Steps)
  BY <1>2
<1>4. /\ q \in Seq(Steps) /\ Len(q) = Len(p) + 1 /\ Len(p) \in Nat /\ q[Len(p) + 1] = step
      /\ \A i \in 1..Len(p) : i \in 1..Len(p) + 1 /\ q[i] = p[i]
      /\ Len(p) + 1 \in 1..Len(p) + 1
  BY <1>2, <1>3
<1> HIDE DEF q, p
<1>5. previous_saved_paths' \in [Groups -> Seq(Steps)] /\ rpc' \in [Ranks -> RankPhases]
  BY <1>1, <1>2, <1>4 DEF RankPhases
<1>6. BarrierInv'
  BY <1>1, <1>2 DEF AnyInv, BarrierInv
<1>7. \A g \in Groups : FilledBy(g)' = FilledBy(g)
  BY <1>1 DEF FilledBy
<1>8. ASSUME NEW g \in Groups
      PROVE  /\ FilledBy(g)' \subseteq Listed(g)' \cup (IF HasRoom(g)' THEN {step'} ELSE {})
             /\ MaxKeep[g] > 0 =>
                  Len(previous_saved_paths'[g]) + (IF HasRoom(g)' THEN 1 ELSE 0) <= MaxKeep[g]
  <2>1. CASE g = group /\ r = Rank0
    <3>1. previous_saved_paths'[g] = q /\ HasRoom(g) /\ ~HasRoom(g)' /\ previous_saved_paths[g] = p
      BY <1>1, <1>2, <2>1 DEF HasRoom, p
    <3>2. Listed(g)' = {q[i] : i \in 1..Len(q)} /\ Listed(g) = {p[i] : i \in 1..Len(p)}
      BY <3>1 DEF Listed
    <3>3. Listed(g) \cup {step} \subseteq Listed(g)'
      BY <1>4, <3>2
    <3>4. FilledBy(g) \subseteq Listed(g) \cup {step} /\ (MaxKeep[g] > 0 => Len(p) + 1 <= MaxKeep[g])
      BY <3>1, SavingAny
    <3> QED BY <1>4, <1>7, <3>1, <3>3, <3>4
  <2>2. CASE ~(g = group /\ r = Rank0)
    <3>1. previous_saved_paths'[g] = previous_saved_paths[g]
      BY <1>1, <1>2, <2>2
    <3>2. HasRoom(g)' = HasRoom(g)
      BY <1>1, <1>2, <2>2 DEF HasRoom
    <3>3. Listed(g)' = Listed(g)
      BY <3>1 DEF Listed
    <3> QED BY <1>1, <1>7, <3>1, <3>2, <3>3, SavingAny
  <2> QED BY <2>1, <2>2
<1>9. FilledInv'
  BY <1>1, <1>8 DEF AnyInv, FilledInv
<1> QED BY <1>1, <1>5, <1>6, <1>9, AnyTypes, SaveFrameAny DEF AnyInv

LEMMA SaveGroupAny == ASSUME AnyInv, SaveGroup PROVE AnyInv'
<1>1. /\ pc = "save" /\ UNCHANGED <<driverVars, data, datapos, tracker>>
      /\ SaveStep(group, step, life)
      /\ folders' = IF \E r \in Ranks : rpc[r] = "called" /\ rpc'[r] = "entered"
                      THEN folders \cup {step} ELSE folders
  BY DEF SaveGroup
<1>2. rpc \in [Ranks -> RankPhases]
  BY AnyTypes DEF AnyInv
<1>3. CASE RemoveOldFile(group)
  <2>1. folders' = folders
    BY <1>1, <1>3 DEF RemoveOldFile
  <2> QED BY <1>1, <1>3, <2>1, RemoveOldFileAny
<1>4. ASSUME NEW r \in Ranks, EnterSave(group, r) PROVE AnyInv'
  <2>1. folders' = folders \cup {step}
    BY <1>1, <1>2, <1>4 DEF EnterSave
  <2> QED BY <1>1, <1>4, <2>1, EnterSaveAny
<1>5. ASSUME NEW r \in Ranks, BeginShard(group, step, r) PROVE AnyInv'
  <2>1. /\ rpc[r] = "entered" /\ rpc' = [rpc EXCEPT ![r] = "writing"]
        /\ \A q \in Ranks : rpc[q] # "called"
        /\ shard' = [shard EXCEPT ![group][step][r] = Torn]
        /\ UNCHANGED <<previous_saved_paths, loaded>>
    BY <1>5 DEF BeginShard
  <2>2. folders' = folders
    BY <1>1, <1>2, <2>1
  <2> QED BY <1>1, <2>1, <2>2, ShardAny
<1>6. ASSUME NEW r \in Ranks, EndShard(group, step, r, life) PROVE AnyInv'
  <2>1. /\ rpc[r] = "writing" /\ rpc' = [rpc EXCEPT ![r] = "dumped"]
        /\ shard' = [shard EXCEPT ![group][step][r] = life]
        /\ UNCHANGED <<previous_saved_paths, loaded>>
    BY <1>6 DEF EndShard
  <2>2. \A q \in Ranks : rpc[q] # "called"
    BY <1>1, <2>1 DEF AnyInv, BarrierInv
  <2>3. folders' = folders
    BY <1>1, <1>2, <2>1
  <2> QED BY <1>1, <2>1, <2>2, <2>3, ShardAny
<1>7. ASSUME NEW r \in Ranks, ReturnSave(group, step, r) PROVE AnyInv'
  <2>1. folders' = folders
    BY <1>1, <1>2, <1>7 DEF ReturnSave
  <2> QED BY <1>1, <1>7, <2>1, ReturnSaveAny
<1> QED BY <1>1, <1>3, <1>4, <1>5, <1>6, <1>7 DEF SaveStep

LEMMA GroupSavedAny == ASSUME AnyInv, GroupSaved PROVE AnyInv'
<1>1. /\ pc = "save" /\ \A r \in Ranks : rpc[r] = "returned"
      /\ UNCHANGED <<shard, folders, data, datapos, tracker, previous_saved_paths, loaded,
                     life, step, epoch, pos, drawn, dataFrom>>
      /\ \/ group < NumGroups /\ pc' = "save" /\ group' = group + 1 /\ CallAll("called")
         \/ pc' = "data_open" /\ group' = 1 /\ CallAll("idle")
  BY DEF GroupSaved, AllAt, diskVars
<1>2. group \in 1..NumGroups /\ NumGroups \in Nat /\ Rank0 \in Ranks
  BY ConstantFacts DEF AnyInv, TypeOK, Groups
<1>3. TypeOK'
  BY <1>1, <1>2 DEF AnyInv, TypeOK, ManagerTypeOK, RankPhases, CallAll, Running, Groups
<1>4. PublishedIsFound'
  BY <1>1, FoundRests
<1>5. FilledInv'
  <2>1. \A g \in Groups : ~HasRoom(g) /\ ~HasRoom(g)'
    BY <1>1, <1>2 DEF HasRoom, CallAll
  <2> QED BY <1>1, <2>1, FilledRests DEF Running
<1>6. BarrierInv'
  BY <1>1, <1>2 DEF BarrierInv, CallAll
<1>7. BoundsInv'
  BY <1>1 DEF AnyInv, BoundsInv, Running
<1> QED BY <1>3, <1>4, <1>5, <1>6, <1>7 DEF AnyInv

LEMMA OpenDataAny == ASSUME AnyInv, OpenData PROVE AnyInv'
<1>1. /\ pc = "data_open" /\ pc' = "data_write" /\ folders' = folders \cup {step}
      /\ data' = [data EXCEPT ![step] = Torn]
      /\ UNCHANGED <<shard, datapos, tracker, previous_saved_paths, rpc, loaded,
                     life, step, group, epoch, pos, drawn, dataFrom>>
  BY DEF OpenData, managerVars
<1>2. step \in Steps /\ step < MaxStep
  BY <1>1 DEF AnyInv, BoundsInv, Running
<1>3. TypeOK'
  BY <1>1, <1>2 DEF AnyInv, TypeOK, ManagerTypeOK, Running, Content
<1>4. PublishedIsFound'
  BY <1>1, FoundRests
<1>5. FilledInv'
  BY <1>1, FilledRests DEF HasRoom, Running
<1>6. BoundsInv' /\ BarrierInv'
  BY <1>1, <1>2 DEF AnyInv, BoundsInv, BarrierInv, Running
<1> QED BY <1>3, <1>4, <1>5, <1>6 DEF AnyInv

LEMMA WriteDataAny == ASSUME AnyInv, WriteData PROVE AnyInv'
<1>1. /\ pc = "data_write" /\ pc' = "tracker_open"
      /\ data' = [data EXCEPT ![step] = life] /\ datapos' = [datapos EXCEPT ![step] = drawn]
      /\ UNCHANGED <<shard, folders, tracker, previous_saved_paths, rpc, loaded,
                     life, step, group, epoch, pos, drawn, dataFrom>>
  BY DEF WriteData, managerVars
<1>2. life \in Lives
  BY <1>1 DEF AnyInv, BoundsInv, Running
<1>3. TypeOK'
  BY <1>1, <1>2 DEF AnyInv, TypeOK, ManagerTypeOK, Running, Content
<1>4. PublishedIsFound'
  BY <1>1, FoundRests
<1>5. FilledInv'
  BY <1>1, FilledRests DEF HasRoom, Running
<1>6. BoundsInv' /\ BarrierInv'
  BY <1>1, <1>2 DEF AnyInv, BoundsInv, BarrierInv, Running
<1> QED BY <1>3, <1>4, <1>5, <1>6 DEF AnyInv

LEMMA OpenTrackerAny == ASSUME AnyInv, OpenTracker PROVE AnyInv'
<1>1. /\ pc = "tracker_open" /\ pc' = "tracker_write" /\ tracker' = Torn
      /\ UNCHANGED <<shard, folders, data, datapos, previous_saved_paths, rpc, loaded,
                     life, step, group, epoch, pos, drawn, dataFrom>>
  BY DEF OpenTracker, managerVars
<1>2. TypeOK'
  BY <1>1 DEF AnyInv, TypeOK, ManagerTypeOK, Running
<1>3. PublishedIsFound'
  BY <1>1 DEF PublishedIsFound, Steps, Torn
<1>4. FilledInv'
  BY <1>1, FilledRests DEF HasRoom, Running
<1>5. BoundsInv' /\ BarrierInv'
  BY <1>1 DEF AnyInv, BoundsInv, BarrierInv, Running
<1> QED BY <1>2, <1>3, <1>4, <1>5 DEF AnyInv

LEMMA WriteTrackerAny == ASSUME AnyInv, WriteTracker PROVE AnyInv'
<1>1. /\ pc = "tracker_write" /\ tracker' = step /\ step' = step + 1
      /\ pc' \in {"train", "finished"}
      /\ UNCHANGED <<shard, folders, data, datapos, previous_saved_paths, rpc, loaded,
                     life, group, epoch, pos, drawn, dataFrom>>
  BY DEF WriteTracker, EndOfStep, managerVars
<1>2. /\ step \in Steps /\ step < MaxStep /\ step \in folders /\ life \in Lives /\ epoch < TotalEpochs
      /\ MaxStep \in Nat
  BY <1>1, ConstantFacts DEF AnyInv, BoundsInv, Running
<1>3. step' \in Steps
  BY <1>1, <1>2 DEF Steps
<1>4. TypeOK'
  BY <1>1, <1>2, <1>3 DEF AnyInv, TypeOK, ManagerTypeOK, Running, Steps
<1>5. PublishedIsFound'
  BY <1>1, <1>2 DEF PublishedIsFound, FindLatest
<1>6. FilledInv'
  BY <1>1, FilledRests DEF HasRoom, Running
<1>7. BoundsInv' /\ BarrierInv'
  BY <1>1, <1>2, <1>3 DEF AnyInv, BoundsInv, BarrierInv, Running
<1> QED BY <1>4, <1>5, <1>6, <1>7 DEF AnyInv

LEMMA NextAny == ASSUME AnyInv, [Next]_vars PROVE AnyInv'
<1>1. CASE UNCHANGED vars
  <2> USE <1>1 DEF vars, managerVars, diskVars, driverVars
  <2>1. TypeOK'
    BY DEF AnyInv, TypeOK, ManagerTypeOK
  <2>2. PublishedIsFound' /\ BoundsInv' /\ BarrierInv'
    BY DEF AnyInv, PublishedIsFound, FindLatest, BoundsInv, BarrierInv
  <2>3. FilledInv'
    <3>1. \A g \in Groups : /\ FilledBy(g)' = FilledBy(g) /\ Listed(g)' = Listed(g)
                            /\ HasRoom(g)' = HasRoom(g)
      BY DEF FilledBy, Listed, HasRoom
    <3> QED BY <3>1 DEF AnyInv, FilledInv
  <2> QED BY <2>1, <2>2, <2>3 DEF AnyInv
<1>2. CASE \E mode \in ResumeModes : Start(mode)
  BY <1>2, StartAny
<1>3. CASE LoadGroup \/ GroupLoaded \/ LoadData
  BY <1>3, LoadGroupAny, GroupLoadedAny, LoadDataAny
<1>4. CASE LoadFails \/ Crash
  BY <1>4, StopAny DEF LoadFails, Crash
<1>5. CASE NextEpoch \/ \E esi \in BOOLEAN : TrainStep(esi)
  BY <1>5, NextEpochAny, TrainStepAny
<1>6. CASE SaveGroup \/ GroupSaved \/ OpenData \/ WriteData \/ OpenTracker \/ WriteTracker
  BY <1>6, SaveGroupAny, GroupSavedAny, OpenDataAny, WriteDataAny, OpenTrackerAny, WriteTrackerAny
<1> QED BY <1>1, <1>2, <1>3, <1>4, <1>5, <1>6 DEF Next, Progress

\* In every resume mode, with any retention and wherever the job crashes.
THEOREM AnyInvariance == Spec => []AnyInv
BY InitAny, NextAny, PTL DEF Spec

\* A list of n elements and one more have at most n + 1.
LEMMA ListBound ==
  ASSUME NEW S, NEW p \in Seq(S), NEW F, F \subseteq {p[i] : i \in 1..Len(p)}
  PROVE  IsFiniteSet(F) /\ Cardinality(F) \in Nat /\ Cardinality(F) <= Len(p)
<1> DEFINE n == Len(p)
           E == {p[i] : i \in 1..n}
           f == [i \in 1..n |-> p[i]]
<1>1. n \in Nat
  OBVIOUS
<1> HIDE DEF n
<1>2. IsFiniteSet(1..n) /\ Cardinality(1..n) = n
  BY <1>1, FS_Interval
<1>3. f \in Surjection(1..n, E)
  BY DEF Surjection
<1> HIDE DEF f
<1>4. IsFiniteSet(E) /\ Cardinality(E) <= n
  BY <1>2, <1>3, FS_Surjection
<1> HIDE DEF E
<1>5. F \in SUBSET E
  BY DEF E, n
<1>6. IsFiniteSet(F) /\ Cardinality(F) <= Cardinality(E)
  BY <1>4, <1>5, FS_Subset
<1>7. Cardinality(F) \in Nat /\ Cardinality(E) \in Nat
  BY <1>4, <1>6, FS_CardinalityType
<1> QED BY <1>1, <1>4, <1>6, <1>7 DEF n

\* A run keeps at most max_ckpt_to_keep directories of a group, also while it fills the next.
THEOREM RotationBoundAlways == Spec => []RotationBound
<1>1. AnyInv => RotationBound
  <2> SUFFICES ASSUME AnyInv, pc \in Running, NEW g \in Groups, MaxKeep[g] > 0
               PROVE  Cardinality(FilledBy(g)) <= MaxKeep[g]
    BY DEF RotationBound, FilledBy
  <2> DEFINE p    == previous_saved_paths[g]
             keep == MaxKeep[g]
             more == IF HasRoom(g) THEN {step} ELSE {}
             F    == FilledBy(g) \ more
  <2>1. p \in Seq(Steps) /\ Len(p) \in Nat /\ keep \in Nat
    BY AnyTypes DEF AnyInv
  <2>2. F \subseteq {p[i] : i \in 1..Len(p)}
    BY DEF AnyInv, FilledInv, Listed
  <2>3. IsFiniteSet(F) /\ Cardinality(F) \in Nat /\ Cardinality(F) <= Len(p)
    BY <2>1, <2>2, ListBound
  <2>4. /\ ~HasRoom(g) => F = FilledBy(g) /\ Len(p) + 0 <= keep
        /\ HasRoom(g) => FilledBy(g) \subseteq F \cup {step} /\ Len(p) + 1 <= keep
    BY DEF AnyInv, FilledInv
  <2> HIDE DEF F, more, p, keep
  <2>5. CASE ~HasRoom(g)
    <3>1. Cardinality(FilledBy(g)) <= keep
      BY <2>1, <2>3, <2>4, <2>5
    <3> QED BY <3>1 DEF keep
  <2>6. CASE HasRoom(g)
    <3>1. Len(p) + 1 <= keep /\ FilledBy(g) \in SUBSET (F \cup {step})
      BY <2>4, <2>6
    <3>2. IsFiniteSet(F \cup {step}) /\ Cardinality(F \cup {step}) <= Cardinality(F) + 1
      <4>1. /\ IsFiniteSet(F \cup {step})
            /\ \/ Cardinality(F \cup {step}) = Cardinality(F)
               \/ Cardinality(F \cup {step}) = Cardinality(F) + 1
        BY <2>3, FS_AddElement
      <4> QED BY <2>3, <4>1
    <3>3. IsFiniteSet(FilledBy(g)) /\ Cardinality(FilledBy(g)) <= Cardinality(F \cup {step})
      BY <3>1, <3>2, FS_Subset
    <3>4. Cardinality(FilledBy(g)) \in Nat /\ Cardinality(F \cup {step}) \in Nat
      BY <3>2, <3>3, FS_CardinalityType
    <3>5. Cardinality(FilledBy(g)) <= keep
      BY <2>1, <2>3, <3>1, <3>2, <3>3, <3>4
    <3> QED BY <3>5 DEF keep
  <2> QED BY <2>5, <2>6
<1> QED BY AnyInvariance, <1>1, PTL

\* Every state is well typed, in every resume mode and with any retention.
THEOREM TypeCorrect == Spec => []TypeOK
<1>1. AnyInv => TypeOK
  BY DEF AnyInv
<1> QED BY AnyInvariance, <1>1, PTL

\* The directory the tracker names exists: find_latest_ckpt_path never passes a published
\* checkpoint over, in every resume mode and with any retention.
THEOREM PublishedIsFoundAlways == Spec => []PublishedIsFound
<1>1. AnyInv => PublishedIsFound
  BY DEF AnyInv
<1> QED BY AnyInvariance, <1>1, PTL
=============================================================================
