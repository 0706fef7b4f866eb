------------------------ MODULE SFTCheckpointProofs ------------------------
(***************************************************************************)
(* What holds of SFTCheckpoint for every number of ranks, steps and runs,  *)
(* when more than one checkpoint is kept; and, when no checkpoint but the  *)
(* last is taken at the end of an epoch, that training resumes where it    *)
(* was and implements the store.                                           *)
(***************************************************************************)
EXTENDS SFTCheckpoint, FiniteSetTheorems, TLAPS

KeepsMany == MaxKeep[1] # 1

Saving  == {"save", "data_write", "rename"}
Looping == {"train"} \cup Saving
paths   == previous_saved_paths[1]
keep    == MaxKeep[1]

LEMMA ConstantFacts ==
  /\ Rank0 \in Ranks /\ Groups = {1}
  /\ MaxStep \in Nat \ {0} /\ MaxLife \in Nat \ {0}
  /\ keep \in Nat /\ SaveFreq \in Nat
  /\ StepsPerEpoch \in Nat \ {0} /\ TotalEpochs \in Nat \ {0} /\ TotalSteps \in Nat \ {0}
  /\ \A g \in Groups : g = 1
<1>1. NumGroups = 1 /\ 1..1 = {1}
  BY SFTAssumption
<1> QED
  BY <1>1, RanksAssumption, BoundsAssumption, GroupsAssumption, SFTAssumption DEF Groups, keep

\* A run is behind the tracker nowhere, and ahead of it when it saves.
LoopInv ==
  /\ pc \in Running => life \in Lives
  /\ pc = "load" => tracker \in Steps /\ step = tracker
  /\ pc \in Looping => tracker <= step
  /\ pc \in Saving => step \in Steps /\ tracker < step

\* The newest step on the list of rank 0: the one it has saved, or the published one.
Newest == IF pc \in {"data_write", "rename"} \/ rpc[Rank0] = "returned" THEN step ELSE tracker

\* The list ends with that step, if it has any, and lists only older ones before.
ListInv ==
  pc \in Running => \A i \in 1..Len(paths) :
    paths[i] <= Newest /\ (i < Len(paths) => paths[i] < Newest)

\* Between two barriers no rank is behind the first or past the second.
BarrierInv ==
  /\ pc = "save" => \A r \in Ranks : rpc[r] \in {"called", "entered", "writing", "dumped", "returned"}
  /\ pc # "save" => \A r \in Ranks : rpc[r] \in {"idle", "loading", "loaded"}
  /\ \A q, r \in Ranks : rpc[q] = "called" => rpc[r] \notin {"writing", "dumped", "returned"}
  /\ \A q, r \in Ranks : rpc[q] = "returned" => rpc[r] \notin {"entered", "writing"}

\* What is on disk of the step being saved.
WrittenInv ==
  /\ pc = "save" => \A r \in Ranks : rpc[r] \in {"dumped", "returned"} => shard[1][step][r] = life
  /\ pc \in {"data_write", "rename"} => step \in folders /\ \A r \in Ranks : shard[1][step][r] = life
  /\ pc = "rename" => data[step] = life

PublishedIsThere == tracker \in Steps => tracker \in folders

\* Nothing on disk is of a later run.
NoneLater == \A s \in Steps : data[s] <= life /\ \A r \in Ranks : shard[1][s][r] <= life

\* The directories of this run are on the list, but for the one being saved, for which
\* rank 0 makes room when it enters the save.
Filled   == {s \in Steps : \E r \in Ranks : shard[1][s][r] = life}
OnList   == {paths[i] : i \in 1..Len(paths)}
MadeRoom == pc = "save" /\ rpc[Rank0] \in {"entered", "writing", "dumped"}
KeptInv ==
  pc \in Running =>
    /\ Filled \subseteq OnList \cup (IF MadeRoom THEN {step} ELSE {})
    /\ keep > 0 => Len(paths) + (IF MadeRoom THEN 1 ELSE 0) <= keep

SInv ==
  /\ TypeOK /\ PublishedComplete /\ PublishedIsThere
  /\ LoopInv /\ ListInv /\ BarrierInv /\ WrittenInv /\ NoneLater /\ KeptInv

-----------------------------------------------------------------------------
LEMMA TypeFacts ==
  ASSUME TypeOK
  PROVE  /\ shard \in [Groups -> [Steps -> [Ranks -> Content]]] /\ 1 \in Groups
         /\ previous_saved_paths \in [Groups -> Seq(Steps)]
         /\ paths \in Seq(Steps) /\ Len(paths) \in Nat /\ \A i \in 1..Len(paths) : paths[i] \in Steps
         /\ rpc \in [Ranks -> RankPhases] /\ Rank0 \in Ranks
         /\ loaded \in [Groups -> [Ranks -> Lives \cup {Absent}]]
         /\ life \in Nat /\ step \in Nat /\ tracker \in Nat /\ (tracker = 0 <=> tracker \notin Steps)
         /\ Steps \subseteq Nat \ {0} /\ Lives \subseteq Nat \ {0}
BY ConstantFacts DEF TypeOK, ManagerTypeOK, Steps, Lives, Absent, paths

LEMMA InitSInv == Init => SInv
<1> SUFFICES ASSUME Init PROVE SInv
  OBVIOUS
<1> USE ConstantFacts DEF Init, ManagerInit
<1>1. TypeOK
  BY DEF TypeOK, ManagerTypeOK, RankPhases, Content, Absent, Torn, Running, Steps
<1>2. tracker \notin Steps /\ pc \notin Running \cup Looping /\ pc # "save"
  BY DEF Steps, Absent, Running, Looping, Saving
<1>3. NoneLater
  BY DEF NoneLater, Absent
<1> QED
  BY <1>1, <1>2, <1>3 DEF SInv, PublishedComplete, PublishedIsThere, LoopInv, ListInv, BarrierInv,
     WrittenInv, KeptInv, Running, Saving

\* A step that leaves the disk alone keeps what is published.
LEMMA DiskRests ==
  ASSUME SInv, UNCHANGED diskVars
  PROVE  PublishedComplete' /\ PublishedIsThere'
BY DEF SInv, diskVars, PublishedComplete, PublishedIsThere

LEMMA StopSInv == ASSUME SInv, StopJob PROVE SInv'
<1> USE ConstantFacts DEF StopJob, ForgetManager, CallAll
<1>1. UNCHANGED <<diskVars, life>> /\ pc' = "down"
  OBVIOUS
<1>2. TypeOK'
  BY DEF SInv, diskVars, TypeOK, ManagerTypeOK, RankPhases, Absent
<1>3. pc' \notin Running \cup Looping /\ pc' \notin Saving
  BY DEF Running, Looping, Saving
<1>4. BarrierInv'
  BY <1>1 DEF BarrierInv
<1> QED
  BY <1>1, <1>2, <1>3, <1>4, DiskRests DEF SInv, diskVars, LoopInv, ListInv, WrittenInv, NoneLater,
     KeptInv, Saving

LEMMA StartSInv == ASSUME SInv, Start PROVE SInv'
<1>1. /\ life < MaxLife /\ life' = life + 1 /\ pos' = 0
      /\ previous_saved_paths' = [g \in Groups |-> <<>>]
      /\ loaded' = [g \in Groups |-> [r \in Ranks |-> Absent]]
      /\ UNCHANGED diskVars
      /\ IF FindLatest = 0 THEN TrainFromScratch ELSE LoadFrom(FindLatest)
  BY DEF Start
<1>2. FindLatest = tracker /\ (tracker = 0 <=> tracker \notin Steps) /\ tracker \in Nat
  BY TypeFacts DEF SInv, FindLatest, PublishedIsThere
<1>3. /\ step' = tracker /\ epoch' = tracker \div StepsPerEpoch
      /\ \/ pc' = "train" /\ tracker = 0 /\ rpc' = [r \in Ranks |-> "idle"]
         \/ pc' = "load" /\ tracker \in Steps /\ rpc' = [r \in Ranks |-> "loading"]
  BY <1>1, <1>2 DEF TrainFromScratch, LoadFrom, StartLoop, CallAll
<1>4. life' \in Lives /\ life \in Nat
  BY <1>1, ConstantFacts, TypeFacts DEF SInv, Lives
<1>5. TypeOK'
  <2>1. epoch' \in Nat /\ step' \in 0..MaxStep
    BY <1>2, <1>3, ConstantFacts, SMTT(30) DEF SInv, TypeOK, Steps
  <2> QED BY <1>1, <1>3, <1>4, <2>1, ConstantFacts
     DEF SInv, diskVars, TypeOK, ManagerTypeOK, RankPhases, Running, Lives
<1>6. paths' = <<>> /\ Len(paths') = 0
  BY <1>1, ConstantFacts DEF paths
<1>7. NoneLater' /\ Filled' = {}
  <2>1. /\ shard' = shard /\ data' = data
        /\ \A s \in Steps : /\ data[s] <= life /\ data[s] \in Int
                            /\ \A r \in Ranks : shard[1][s][r] <= life /\ shard[1][s][r] \in Int
    BY <1>1, TypeFacts DEF diskVars, SInv, TypeOK, NoneLater, Content, Lives, Absent, Torn
  <2> QED BY <1>1, <1>4, <2>1 DEF NoneLater, Filled
<1>8. LoopInv'
  BY <1>1, <1>2, <1>3, <1>4 DEF diskVars, LoopInv, Looping, Saving
<1>9. ListInv' /\ BarrierInv' /\ WrittenInv'
  BY <1>3, <1>6, ConstantFacts DEF ListInv, BarrierInv, WrittenInv
<1>10. KeptInv'
  BY <1>3, <1>6, <1>7, ConstantFacts DEF KeptInv, MadeRoom
<1> QED BY <1>1, <1>5, <1>7, <1>8, <1>9, <1>10, DiskRests DEF SInv

LEMMA LoadModelSInv == ASSUME SInv, LoadModel PROVE SInv'
<1>1. PICK r \in Ranks : LoadShard(1, step, r)
  BY DEF LoadModel
<1>2. /\ pc = "load" /\ UNCHANGED <<loopVars, diskVars, previous_saved_paths>>
      /\ rpc[r] = "loading" /\ rpc' = [rpc EXCEPT ![r] = "loaded"]
      /\ loaded' = [loaded EXCEPT ![1][r] = shard[1][step][r]] /\ shard[1][step][r] \in Lives
  BY <1>1 DEF LoadModel, LoadShard, diskVars, Whole
<1>3. TypeOK'
  BY <1>2, TypeFacts DEF SInv, TypeOK, ManagerTypeOK, RankPhases, loopVars, diskVars
<1>4. \A q \in Ranks : rpc'[q] = IF q = r THEN "loaded" ELSE rpc[q]
  BY <1>2, TypeFacts DEF SInv
<1>5. BarrierInv' /\ WrittenInv'
  BY <1>2, <1>4 DEF SInv, BarrierInv, WrittenInv, loopVars, diskVars
<1>6. paths' = paths /\ pc' = pc /\ pc # "save" /\ Newest' = Newest
  BY <1>2, <1>4, ConstantFacts DEF paths, Newest, loopVars, diskVars
<1>7. LoopInv' /\ ListInv' /\ NoneLater'
  BY <1>2, <1>6 DEF SInv, LoopInv, ListInv, NoneLater, loopVars, diskVars
<1>8. KeptInv'
  BY <1>2, <1>6 DEF SInv, KeptInv, Filled, OnList, MadeRoom, loopVars, diskVars
<1> QED BY <1>2, <1>3, <1>5, <1>7, <1>8, DiskRests DEF SInv

\* The loop goes on, with nothing to save: from a load, an epoch, a step or a tracker.
LEMMA LoopsOn ==
  ASSUME SInv, UNCHANGED <<diskVars, previous_saved_paths, loaded, life>>, TypeOK',
         pc \in {"load", "train"}, pc' \in {"train", "finished"},
         rpc' = rpc \/ rpc' = [r \in Ranks |-> "idle"],
         step <= step'
  PROVE  SInv'
<1>1. pc' \notin Saving /\ pc \notin Saving /\ pc' # "load" /\ pc' # "save" /\ pc # "save"
  BY DEF Saving
<1>2. BarrierInv'
  BY <1>1 DEF SInv, BarrierInv
<1>3. rpc[Rank0] # "returned" /\ rpc'[Rank0] # "returned"
  BY <1>1, ConstantFacts DEF SInv, BarrierInv
<1>4. Newest' = tracker /\ Newest = tracker /\ paths' = paths /\ pc \in Running
  BY <1>3 DEF Newest, paths, diskVars, Running
<1>5. LoopInv'
  <2>1. tracker <= step
    BY TypeFacts DEF SInv, LoopInv, Looping
  <2> QED BY <1>1, <1>4, <2>1, TypeFacts DEF SInv, LoopInv, Looping, Saving, diskVars, TypeOK
<1>6. ListInv' /\ WrittenInv' /\ NoneLater'
  BY <1>1, <1>4 DEF SInv, ListInv, WrittenInv, NoneLater, Saving, diskVars
<1>7. KeptInv'
  BY <1>1, <1>4 DEF SInv, KeptInv, Filled, OnList, MadeRoom, diskVars
<1> QED BY <1>2, <1>5, <1>6, <1>7, DiskRests DEF SInv

LEMMA LoadDataSInv == ASSUME SInv, LoadData PROVE SInv'
<1> USE DEF LoadData, CallAll
<1>1. TypeOK'
  BY TypeFacts, ConstantFacts DEF SInv, LoopInv, TypeOK, ManagerTypeOK, diskVars, RankPhases, Running
<1> QED BY <1>1, TypeFacts, LoopsOn DEF SInv

LEMMA NextEpochSInv == ASSUME SInv, NextEpoch PROVE SInv'
<1>1. TypeOK'
  BY ConstantFacts DEF SInv, NextEpoch, TypeOK, ManagerTypeOK, managerVars, diskVars, Running
<1> QED BY <1>1, TypeFacts, LoopsOn DEF SInv, NextEpoch, managerVars

LEMMA TrainStepSInv == ASSUME SInv, TrainStep PROVE SInv'
<1> DEFINE due == IsLast(step + 1) \/ (SaveFreq > 0 /\ (step + 1) % SaveFreq = 0)
<1>1. /\ pc = "train" /\ pos' = pos + 1 /\ step' = step + 1 /\ step < MaxStep /\ pos < StepsPerEpoch
      /\ UNCHANGED <<diskVars, previous_saved_paths, loaded, life, epoch>>
      /\ \/ due /\ pc' = "save" /\ rpc' = [r \in Ranks |-> "called"]
         \/ ~due /\ pc' = "train" /\ rpc' = [r \in Ranks |-> "idle"]
  BY DEF TrainStep, AfterStep, CallAll
<1> HIDE DEF due
<1>2. TypeOK' /\ step' \in Steps
  BY <1>1, ConstantFacts DEF SInv, TypeOK, ManagerTypeOK, diskVars, RankPhases, Running, Steps
<1>3. CASE pc' = "train"
  BY <1>1, <1>2, <1>3, TypeFacts, LoopsOn DEF SInv
<1>4. CASE pc' = "save"
  <2>1. \A r \in Ranks : rpc'[r] = "called"
    BY <1>1, <1>4
  <2>2. LoopInv'
    BY <1>1, <1>2, <1>4, TypeFacts DEF SInv, LoopInv, Looping, Saving, diskVars, Running
  <2>3. Newest' = tracker /\ Newest = tracker /\ paths' = paths /\ pc \in Running
    BY <1>1, <1>4, <2>1, ConstantFacts DEF Newest, paths, diskVars, Running, SInv, BarrierInv
  <2>4. ListInv' /\ BarrierInv' /\ WrittenInv' /\ NoneLater'
    BY <1>1, <1>4, <2>1, <2>3 DEF SInv, ListInv, BarrierInv, WrittenInv, NoneLater, diskVars
  <2>5. KeptInv'
    BY <1>1, <1>4, <2>1, <2>3, ConstantFacts DEF SInv, KeptInv, Filled, OnList, MadeRoom, diskVars
  <2> QED BY <1>1, <1>2, <2>2, <2>4, <2>5, DiskRests DEF SInv
<1> QED BY <1>1, <1>3, <1>4

-----------------------------------------------------------------------------
(* save_checkpoint.                                                        *)

\* What a save may rely on before any of its steps.
LEMMA SaveFacts ==
  ASSUME SInv, pc = "save"
  PROVE  /\ life \in Lives /\ step \in Steps /\ tracker \in Nat /\ tracker < step
         /\ \A r \in Ranks : rpc[r] \in {"called", "entered", "writing", "dumped", "returned"}
         /\ pc \in Running /\ keep \in Nat
BY TypeFacts, ConstantFacts DEF SInv, LoopInv, BarrierInv, Saving, Running

\* Everything rotation drops is older than the published step.
LEMMA DoomedIsOld ==
  ASSUME KeepsMany, SInv, pc = "save", rpc[Rank0] = "called", NEW s \in Doomed(1)
  PROVE  s \in Steps /\ tracker \in Steps /\ s < tracker /\ s < step
<1>1. PICK i \in 1..KeepStart(1) : s = paths[i]
  BY DEF Doomed, paths
<1>2. KeepStart(1) = Len(paths) - keep + 1 /\ keep >= 2 /\ Len(paths) >= keep
  BY <1>1, ConstantFacts, TypeFacts DEF SInv, KeepStart, paths, keep, KeepsMany
<1>3. i \in 1..Len(paths) /\ i < Len(paths)
  <2>1. Len(paths) \in Nat /\ keep \in Nat
    BY ConstantFacts, TypeFacts DEF SInv
  <2> HIDE DEF paths, keep
  <2>2. i \in 1..(Len(paths) - keep + 1)
    BY <1>1, <1>2
  <2> QED BY ONLY <1>2, <2>1, <2>2
<1>4. Newest = tracker
  BY DEF Newest
<1>5. paths[i] < tracker /\ paths[i] \in Steps
  BY <1>3, <1>4, SaveFacts, TypeFacts DEF SInv, ListInv
<1> QED BY <1>1, <1>5, SaveFacts, TypeFacts, ConstantFacts DEF SInv, Steps

\* A step of the save that spares what is published and written.
LEMMA SaveFrame ==
  ASSUME SInv, pc = "save", UNCHANGED <<loopVars, datapos, tracker, loaded>>, TypeOK',
         tracker \in Steps =>
           /\ data'[tracker] = data[tracker] /\ tracker \in folders'
           /\ \A r \in Ranks : shard'[1][tracker][r] = shard[1][tracker][r],
         ListInv', BarrierInv', WrittenInv', NoneLater', KeptInv'
  PROVE  SInv'
<1>1. LoopInv'
  BY DEF SInv, LoopInv, loopVars
<1>2. PublishedComplete' /\ PublishedIsThere'
  BY DEF SInv, PublishedComplete, PublishedIsThere
<1> QED BY <1>1, <1>2 DEF SInv

LEMMA RemoveOldFileSInv ==
  ASSUME KeepsMany, SInv, pc = "save", RemoveOldFile(1),
         UNCHANGED <<loopVars, folders, data, datapos, tracker>>
  PROVE  SInv'
<1>1. PICK s \in Doomed(1), r \in Ranks : shard' = [shard EXCEPT ![1][s][r] = Absent]
  BY DEF RemoveOldFile
<1>2. rpc[Rank0] = "called" /\ UNCHANGED <<previous_saved_paths, rpc, loaded>>
  BY DEF RemoveOldFile
<1>3. s \in Steps /\ s # tracker /\ s # step
  BY <1>2, DoomedIsOld, SaveFacts, TypeFacts DEF SInv
<1>4. /\ shard' \in [Groups -> [Steps -> [Ranks -> Content]]]
      /\ \A x \in Steps, q \in Ranks :
           shard'[1][x][q] = IF x = s /\ q = r THEN Absent ELSE shard[1][x][q]
  BY <1>1, <1>3, TypeFacts DEF SInv, Content
<1>5. TypeOK'
  BY <1>2, <1>4 DEF SInv, TypeOK, ManagerTypeOK, loopVars
<1>6. ListInv' /\ BarrierInv'
  BY <1>2 DEF SInv, ListInv, BarrierInv, Newest, paths, loopVars
<1>7. WrittenInv' /\ NoneLater' /\ Filled' \subseteq Filled
  BY <1>2, <1>3, <1>4, SaveFacts, TypeFacts DEF SInv, WrittenInv, NoneLater, Filled, loopVars, Absent
<1>8. KeptInv'
  BY <1>2, <1>7 DEF SInv, KeptInv, OnList, MadeRoom, paths, loopVars
<1> QED
  BY <1>2, <1>3, <1>4, <1>5, <1>6, <1>7, <1>8, SaveFrame DEF SInv, PublishedIsThere

\* A list without its first k elements.
LEMMA DropFirst ==
  ASSUME NEW S, NEW p \in Seq(S), NEW k \in 0..Len(p)
  PROVE  LET q == SubSeq(p, k + 1, Len(p)) IN
           /\ q \in Seq(S) /\ Len(q) = Len(p) - k
           /\ \A i \in 1..Len(q) : i + k \in 1..Len(p) /\ q[i] = p[i + k]
           /\ \A i \in k + 1..Len(p) : i - k \in 1..Len(q) /\ q[i - k] = p[i]
<1> DEFINE n == Len(p)
           q == SubSeq(p, k + 1, n)
<1>1. n \in Nat /\ k \in Nat /\ k <= n
  OBVIOUS
<1>2. q \in Seq(S) /\ Len(q) = n - k /\ \A i \in 1..(n - k) : q[i] = p[i + k]
  OBVIOUS
<1> HIDE DEF n, q
<1>3. /\ \A i \in 1..(n - k) : i + k \in 1..n
      /\ \A i \in k + 1..n : i - k \in 1..(n - k) /\ (i - k) + k = i
  BY <1>1
<1>4. /\ q \in Seq(S) /\ Len(q) = n - k
      /\ \A i \in 1..Len(q) : i + k \in 1..n /\ q[i] = p[i + k]
      /\ \A i \in k + 1..n : i - k \in 1..Len(q) /\ q[i - k] = p[i]
  BY <1>2, <1>3
<1> QED BY <1>4 DEF n, q

\* What is left of the list is as new as it was, and has room for one more.
LEMMA RoomMade ==
  ASSUME SInv, pc = "save", rpc[Rank0] = "called",
         \A s \in Doomed(1), r \in Ranks : shard[1][s][r] = Absent
  PROVE  LET q == SubSeq(paths, KeepStart(1) + 1, Len(paths)) IN
           /\ q \in Seq(Steps) /\ Len(q) \in Nat /\ (keep > 0 => Len(q) + 1 <= keep)
           /\ \A i \in 1..Len(q) : q[i] <= tracker /\ (i < Len(q) => q[i] < tracker)
           /\ Filled \subseteq {q[i] : i \in 1..Len(q)}
<1> DEFINE k == KeepStart(1)
           q == SubSeq(paths, k + 1, Len(paths))
<1>1. /\ paths \in Seq(Steps) /\ Len(paths) \in Nat /\ keep \in Nat
      /\ (keep > 0 => Len(paths) <= keep) /\ Filled \subseteq OnList
      /\ \A i \in 1..Len(paths) : paths[i] <= tracker /\ (i < Len(paths) => paths[i] < tracker)
  BY SaveFacts, TypeFacts DEF SInv, KeptInv, MadeRoom, ListInv, Newest
<1>2. k = IF keep > 0 /\ Len(paths) >= keep THEN Len(paths) - keep + 1 ELSE 0
  BY DEF KeepStart, keep, paths
<1>3. k \in 0..Len(paths)
  BY <1>1, <1>2
<1>4. \A s \in Filled : s \notin Doomed(1)
  BY SaveFacts, TypeFacts, ConstantFacts DEF SInv, Filled, Absent
<1>5. Doomed(1) = {paths[i] : i \in 1..k}
  BY DEF Doomed, paths
<1>6. /\ q \in Seq(Steps) /\ Len(q) = Len(paths) - k
      /\ \A i \in 1..Len(q) : i + k \in 1..Len(paths) /\ q[i] = paths[i + k]
      /\ \A i \in k + 1..Len(paths) : i - k \in 1..Len(q) /\ q[i - k] = paths[i]
  BY <1>1, <1>3, DropFirst
<1> HIDE DEF k, q
<1>7. Len(q) \in Nat /\ (keep > 0 => Len(q) + 1 <= keep)
  BY <1>1, <1>2, <1>3, <1>6
<1>8. ASSUME NEW i \in 1..Len(q) PROVE q[i] <= tracker /\ (i < Len(q) => q[i] < tracker)
  <2>1. i + k \in 1..Len(paths) /\ q[i] = paths[i + k] /\ (i < Len(q) => i + k < Len(paths))
    BY <1>1, <1>3, <1>6, <1>7
  <2> QED BY <1>1, <2>1
<1>9. ASSUME NEW s \in Filled PROVE s \in {q[i] : i \in 1..Len(q)}
  <2>1. PICK i \in 1..Len(paths) : s = paths[i]
    BY <1>1 DEF OnList
  <2>2. i \notin 1..k
    BY <1>4, <1>5, <2>1
  <2>3. i \in k + 1..Len(paths)
    BY <1>1, <1>3, <2>2
  <2> QED BY <1>6, <2>1, <2>3
<1> QED BY <1>6, <1>7, <1>8, <1>9 DEF k, q

LEMMA EnterSaveSInv ==
  ASSUME KeepsMany, SInv, pc = "save", NEW r \in Ranks, EnterSave(1, r),
         folders' = (folders \ (IF r = Rank0 THEN Doomed(1) ELSE {})) \cup {step},
         UNCHANGED <<loopVars, data, datapos, tracker>>
  PROVE  SInv'
<1> DEFINE q == SubSeq(paths, KeepStart(1) + 1, Len(paths))
<1>1. /\ rpc[r] = "called" /\ rpc' = [rpc EXCEPT ![r] = "entered"] /\ UNCHANGED <<shard, loaded>>
      /\ r = Rank0 => \A s \in Doomed(1), x \in Ranks : shard[1][s][x] = Absent
      /\ previous_saved_paths' =
           IF r = Rank0 THEN [previous_saved_paths EXCEPT ![1] = q] ELSE previous_saved_paths
  BY DEF EnterSave, paths
<1>2. paths' = IF r = Rank0 THEN q ELSE paths
  BY <1>1, TypeFacts DEF SInv, paths
<1>3. r = Rank0 =>
        /\ q \in Seq(Steps) /\ Len(q) \in Nat /\ (keep > 0 => Len(q) + 1 <= keep)
        /\ \A i \in 1..Len(q) : q[i] <= tracker /\ (i < Len(q) => q[i] < tracker)
        /\ Filled \subseteq {q[i] : i \in 1..Len(q)}
  BY <1>1, RoomMade
<1> HIDE DEF q
<1>4. \A x \in Ranks : rpc'[x] = IF x = r THEN "entered" ELSE rpc[x]
  BY <1>1, TypeFacts DEF SInv
<1>5. TypeOK'
  <2>1. folders' \subseteq Steps
    BY SaveFacts DEF SInv, TypeOK
  <2>2. previous_saved_paths' \in [Groups -> Seq(Steps)] /\ rpc' \in [Ranks -> RankPhases]
    BY <1>1, <1>3, TypeFacts DEF SInv, RankPhases
  <2> QED BY <1>1, <2>1, <2>2 DEF SInv, TypeOK, ManagerTypeOK, loopVars
<1>6. BarrierInv' /\ rpc[Rank0] # "returned" /\ rpc'[Rank0] # "returned"
  BY <1>1, <1>4, ConstantFacts DEF SInv, BarrierInv, loopVars
<1>7. Newest = tracker /\ Newest' = tracker
  BY <1>6 DEF Newest, loopVars
<1>8. ListInv'
  BY <1>2, <1>3, <1>7, SaveFacts DEF SInv, ListInv, loopVars
<1>9. WrittenInv' /\ NoneLater' /\ Filled' = Filled
  BY <1>1, <1>4 DEF SInv, WrittenInv, NoneLater, Filled, loopVars
<1>10. KeptInv'
  <2>1. CASE r = Rank0
    BY <1>2, <1>3, <1>4, <1>9, <2>1 DEF KeptInv, OnList, MadeRoom, loopVars
  <2>2. CASE r # Rank0
    <3>1. MadeRoom' = MadeRoom /\ OnList' = OnList
      BY <1>2, <1>4, <2>2, ConstantFacts DEF MadeRoom, OnList, loopVars
    <3> QED BY <1>2, <1>9, <2>2, <3>1 DEF SInv, KeptInv, loopVars
  <2> QED BY <2>1, <2>2
<1>11. tracker \in Steps => tracker \in folders'
  BY <1>1, DoomedIsOld, TypeFacts DEF SInv, PublishedIsThere
<1> QED
  BY <1>1, <1>5, <1>6, <1>8, <1>9, <1>10, <1>11, SaveFrame

\* A rank opens, or completes, its file of the step being saved.
LEMMA ShardSInv ==
  ASSUME SInv, pc = "save", NEW r \in Ranks,
         BeginShard(1, step, r) \/ EndShard(1, step, r, life),
         UNCHANGED <<loopVars, folders, data, datapos, tracker>>
  PROVE  SInv'
<1>1. PICK c \in Content, phase \in {"writing", "dumped"} :
        /\ shard' = [shard EXCEPT ![1][step][r] = c] /\ rpc' = [rpc EXCEPT ![r] = phase]
        /\ c <= life /\ (phase = "writing" => c # life) /\ (phase = "dumped" => c = life)
        /\ rpc[r] \in {"entered", "writing"} /\ \A q \in Ranks : rpc[q] # "called"
        /\ UNCHANGED <<previous_saved_paths, loaded>>
  <2>1. life \in Lives /\ life \in Nat /\ Torn \in Content /\ life \in Content
        /\ Torn <= life /\ Torn # life /\ life <= life
    BY SaveFacts, TypeFacts DEF SInv, Content, Torn
  <2>2. (\E q \in Ranks : rpc[q] = "called") => rpc[r] # "writing"
    BY DEF SInv, BarrierInv
  <2>3. CASE BeginShard(1, step, r)
    BY <2>1, <2>3 DEF BeginShard
  <2>4. CASE EndShard(1, step, r, life)
    BY <2>1, <2>2, <2>4 DEF EndShard
  <2> QED BY <2>3, <2>4
<1>2. \A q \in Ranks : rpc'[q] = IF q = r THEN phase ELSE rpc[q]
  BY <1>1, TypeFacts DEF SInv
<1>3. /\ shard' \in [Groups -> [Steps -> [Ranks -> Content]]]
      /\ \A x \in Steps, q \in Ranks :
           shard'[1][x][q] = IF x = step /\ q = r THEN c ELSE shard[1][x][q]
  BY <1>1, SaveFacts, TypeFacts DEF SInv
<1>4. TypeOK'
  BY <1>1, <1>3, TypeFacts DEF SInv, TypeOK, ManagerTypeOK, loopVars, RankPhases
<1>5. BarrierInv'
  BY <1>1, <1>2 DEF SInv, BarrierInv, loopVars
<1>6. Newest' = Newest /\ paths' = paths /\ MadeRoom' = MadeRoom
  BY <1>1, <1>2 DEF Newest, paths, MadeRoom, loopVars
<1>7. ListInv'
  BY <1>6 DEF SInv, ListInv, loopVars
<1>8. WrittenInv' /\ NoneLater'
  BY <1>1, <1>2, <1>3, SaveFacts DEF SInv, WrittenInv, NoneLater, loopVars
<1>9. KeptInv'
  <2>1. Filled' \subseteq Filled \cup {step}
    BY <1>3, SaveFacts DEF Filled, loopVars
  <2>2. MadeRoom
    BY <1>1, SaveFacts, ConstantFacts DEF SInv, BarrierInv, MadeRoom
  <2> QED BY <1>6, <2>1, <2>2 DEF SInv, KeptInv, OnList, loopVars
<1> QED
  BY <1>1, <1>3, <1>4, <1>5, <1>7, <1>8, <1>9, SaveFacts, SaveFrame DEF SInv, PublishedIsThere

LEMMA ReturnSaveSInv ==
  ASSUME SInv, pc = "save", NEW r \in Ranks, ReturnSave(1, step, r),
         UNCHANGED <<loopVars, folders, data, datapos, tracker>>
  PROVE  SInv'
<1> DEFINE q == Append(paths, step)
           n == Len(paths)
<1>1. /\ rpc[r] = "dumped" /\ rpc' = [rpc EXCEPT ![r] = "returned"] /\ UNCHANGED <<shard, loaded>>
      /\ \A x \in Ranks : rpc[x] \in {"dumped", "returned"}
      /\ previous_saved_paths' =
           IF r = Rank0 THEN [previous_saved_paths EXCEPT ![1] = q] ELSE previous_saved_paths
  BY DEF ReturnSave, paths
<1>2. paths' = IF r = Rank0 THEN q ELSE paths
  BY <1>1, TypeFacts DEF SInv, paths
<1>3. \A x \in Ranks : rpc'[x] = IF x = r THEN "returned" ELSE rpc[x]
  BY <1>1, TypeFacts DEF SInv
<1>4. /\ q \in Seq(Steps) /\ Len(q) = n + 1 /\ q[n + 1] = step /\ n \in Nat
      /\ \A i \in 1..n : q[i] = paths[i]
  BY SaveFacts, TypeFacts DEF SInv
<1>5. TypeOK'
  BY <1>1, <1>4, TypeFacts DEF SInv, TypeOK, ManagerTypeOK, loopVars, RankPhases
<1>6. BarrierInv' /\ WrittenInv' /\ NoneLater' /\ Filled' = Filled
  BY <1>1, <1>3 DEF SInv, BarrierInv, WrittenInv, NoneLater, Filled, loopVars
<1> HIDE DEF n, q
<1>7. CASE r = Rank0
  <2>1. Newest = tracker /\ Newest' = step /\ MadeRoom /\ ~MadeRoom'
    BY <1>1, <1>3, <1>7 DEF Newest, MadeRoom, loopVars
  <2>2. \A i \in 1..n : paths[i] < step /\ paths[i] \in Nat
    BY <2>1, SaveFacts, TypeFacts DEF SInv, ListInv, n
  <2>3. paths' = q /\ Len(paths') = n + 1 /\ \A i \in 1..n + 1 : i # n + 1 => i \in 1..n
    BY <1>2, <1>4, <1>7
  <2>4. ListInv'
    BY <1>4, <2>1, <2>2, <2>3, SaveFacts, TypeFacts, SMTT(30) DEF SInv, ListInv
  <2>5. OnList \cup {step} \subseteq OnList'
    <3>1. n + 1 \in 1..n + 1 /\ \A i \in 1..n : i \in 1..n + 1
      BY <1>4
    <3> QED BY <1>4, <2>3, <3>1 DEF OnList, n
  <2>6. KeptInv'
    BY <1>6, <2>1, <2>3, <2>5, SaveFacts DEF SInv, KeptInv, n
  <2> QED BY <1>1, <1>5, <1>6, <2>4, <2>6, SaveFrame DEF SInv, PublishedIsThere
<1>8. CASE r # Rank0
  <2>1. Newest' = Newest /\ MadeRoom' = MadeRoom /\ paths' = paths
    BY <1>2, <1>3, <1>8, ConstantFacts DEF Newest, MadeRoom, loopVars
  <2>2. ListInv' /\ KeptInv'
    BY <1>6, <2>1 DEF SInv, ListInv, KeptInv, OnList, loopVars
  <2> QED BY <1>1, <1>5, <1>6, <2>2, SaveFrame DEF SInv, PublishedIsThere
<1> QED BY <1>7, <1>8

LEMMA SaveModelSInv == ASSUME KeepsMany, SInv, SaveModel PROVE SInv'
<1>1. /\ pc = "save" /\ SaveStep(1, step, life) /\ UNCHANGED <<loopVars, data, datapos, tracker>>
      /\ folders' = (folders \ (IF Entering(Rank0) THEN Doomed(1) ELSE {}))
                    \cup (IF \E r \in Ranks : Entering(r) THEN {step} ELSE {})
  BY DEF SaveModel
<1>2. rpc \in [Ranks -> RankPhases] /\ Rank0 \in Ranks
  BY TypeFacts DEF SInv
<1>3. CASE RemoveOldFile(1)
  <2>1. \A r \in Ranks : ~Entering(r)
    BY <1>3 DEF RemoveOldFile, Entering
  <2> QED BY <1>1, <1>2, <1>3, <2>1, RemoveOldFileSInv
<1>4. ASSUME NEW r \in Ranks, EnterSave(1, r) PROVE SInv'
  <2>1. \A x \in Ranks : Entering(x) <=> x = r
    BY <1>2, <1>4 DEF EnterSave, Entering
  <2> QED BY <1>1, <1>2, <1>4, <2>1, EnterSaveSInv
<1>5. ASSUME NEW r \in Ranks,
             BeginShard(1, step, r) \/ EndShard(1, step, r, life) \/ ReturnSave(1, step, r)
      PROVE  SInv'
  <2>1. \A x \in Ranks : ~Entering(x)
    BY <1>2, <1>5 DEF BeginShard, EndShard, ReturnSave, Entering
  <2>2. folders' = folders
    BY <1>1, <1>2, <2>1
  <2> QED BY <1>1, <1>5, <2>2, ShardSInv, ReturnSaveSInv
<1> QED BY <1>1, <1>3, <1>4, <1>5 DEF SaveStep

LEMMA RemoveOldDataSInv == ASSUME KeepsMany, SInv, RemoveOldData PROVE SInv'
<1>1. PICK s \in Doomed(1) : data' = [data EXCEPT ![s] = Absent]
  BY DEF RemoveOldData
<1>2. pc = "save" /\ rpc[Rank0] = "called"
      /\ UNCHANGED <<managerVars, loopVars, folders, datapos, tracker>>
  BY DEF RemoveOldData
<1>3. s \in Steps /\ s # tracker
  BY <1>2, DoomedIsOld, TypeFacts DEF SInv
<1>4. data' \in [Steps -> Content] /\ \A x \in Steps : data'[x] = IF x = s THEN Absent ELSE data[x]
  BY <1>1, <1>3 DEF SInv, TypeOK, Content
<1>5. TypeOK'
  BY <1>2, <1>4 DEF SInv, TypeOK, ManagerTypeOK, managerVars, loopVars
<1>6. ListInv' /\ BarrierInv' /\ WrittenInv' /\ KeptInv'
  BY <1>2, ZenonT(60) DEF SInv, ListInv, BarrierInv, WrittenInv, KeptInv, Newest, OnList, MadeRoom, Filled, paths,
     managerVars, loopVars
<1>7. NoneLater'
  <2>1. shard' = shard /\ life' = life /\ life \in Nat
    BY <1>2, TypeFacts DEF SInv, managerVars, loopVars
  <2> QED BY <1>4, <2>1 DEF SInv, NoneLater, Absent
<1> QED
  BY <1>2, <1>3, <1>4, <1>5, <1>6, <1>7, SaveFrame DEF SInv, PublishedIsThere, managerVars

LEMMA OpenDataSInv == ASSUME SInv, OpenData PROVE SInv'
<1>1. /\ pc = "save" /\ (\A r \in Ranks : rpc[r] = "returned") /\ pc' = "data_write"
      /\ rpc' = [r \in Ranks |-> "idle"] /\ folders' = folders \cup {step}
      /\ data' = [data EXCEPT ![step] = Torn]
      /\ UNCHANGED <<shard, previous_saved_paths, loaded, datapos, tracker, life, step, epoch, pos>>
  BY DEF OpenData, AllAt, CallAll
<1>2. data' \in [Steps -> Content] /\ \A x \in Steps : data'[x] = IF x = step THEN Torn ELSE data[x]
  BY <1>1, SaveFacts DEF SInv, TypeOK, Content
<1>3. TypeOK'
  BY <1>1, <1>2, SaveFacts DEF SInv, TypeOK, ManagerTypeOK, RankPhases, Running
<1>4. PublishedComplete' /\ PublishedIsThere'
  BY <1>1, <1>2, SaveFacts DEF SInv, PublishedComplete, PublishedIsThere
<1>5. LoopInv'
  BY <1>1, SaveFacts, TypeFacts DEF SInv, LoopInv, Saving, Looping
<1>6. Newest = step /\ Newest' = step /\ paths' = paths /\ ~MadeRoom /\ ~MadeRoom' /\ Filled' = Filled
  BY <1>1, ConstantFacts DEF Newest, paths, MadeRoom, Filled
<1>7. ListInv' /\ BarrierInv' /\ WrittenInv' /\ KeptInv'
  BY <1>1, <1>6, SaveFacts DEF SInv, ListInv, BarrierInv, WrittenInv, KeptInv, OnList
<1>8. NoneLater'
  BY <1>1, <1>2, SaveFacts, TypeFacts DEF SInv, NoneLater, Torn
<1> QED BY <1>3, <1>4, <1>5, <1>7, <1>8 DEF SInv

LEMMA WriteDataSInv == ASSUME SInv, WriteData PROVE SInv'
<1>1. /\ pc = "data_write" /\ pc' = "rename"
      /\ data' = [data EXCEPT ![step] = life] /\ datapos' = [datapos EXCEPT ![step] = pos]
      /\ UNCHANGED <<managerVars, folders, tracker, life, step, epoch, pos>>
  BY DEF WriteData
<1> HIDE DEF WriteData
<1>2. step \in Steps /\ tracker # step /\ life \in Lives /\ pos \in 0..StepsPerEpoch
  BY <1>1, TypeFacts DEF SInv, LoopInv, Saving, Running, TypeOK
<1>3. data' \in [Steps -> Content] /\ \A x \in Steps : data'[x] = IF x = step THEN life ELSE data[x]
  BY <1>1, <1>2 DEF SInv, TypeOK, Content
<1>4. TypeOK'
  BY <1>1, <1>2, <1>3 DEF SInv, TypeOK, ManagerTypeOK, managerVars, Running
<1>5. PublishedComplete' /\ PublishedIsThere'
  BY <1>1, <1>2, <1>3 DEF SInv, PublishedComplete, PublishedIsThere, managerVars
<1>6. LoopInv'
  BY <1>1, <1>2 DEF SInv, LoopInv, Saving, Looping, Running
<1>7. Newest' = Newest /\ paths' = paths /\ ~MadeRoom /\ ~MadeRoom' /\ Filled' = Filled
  BY <1>1 DEF Newest, paths, MadeRoom, Filled, managerVars
<1>8. ListInv' /\ BarrierInv' /\ KeptInv'
  BY <1>1, <1>7 DEF SInv, ListInv, BarrierInv, KeptInv, OnList, Running, managerVars
<1>9. NoneLater'
  BY <1>1, <1>2, <1>3, TypeFacts DEF SInv, NoneLater, managerVars
<1>10. WrittenInv'
  BY <1>1, <1>2, <1>3 DEF SInv, WrittenInv, managerVars
<1> QED BY <1>4, <1>5, <1>6, <1>8, <1>9, <1>10 DEF SInv

LEMMA RenameTrackerSInv == ASSUME SInv, RenameTracker PROVE SInv'
<1>1. /\ pc = "rename" /\ pc' \in {"train", "finished"} /\ tracker' = step
      /\ UNCHANGED <<managerVars, folders, data, datapos, life, step, epoch, pos>>
  BY DEF RenameTracker, AfterStep
<1>2. step \in Steps /\ step \in Nat /\ life \in Lives
  BY <1>1, TypeFacts DEF SInv, LoopInv, Saving, Running
<1>3. TypeOK'
  BY <1>1, <1>2 DEF SInv, TypeOK, ManagerTypeOK, managerVars, Running
<1>4. PublishedComplete' /\ PublishedIsThere'
  BY <1>1, <1>2 DEF SInv, WrittenInv, PublishedComplete, PublishedIsThere, managerVars
<1>5. LoopInv'
  BY <1>1, <1>2 DEF LoopInv, Saving, Looping
<1>6. Newest' = step /\ Newest = step /\ paths' = paths /\ ~MadeRoom /\ ~MadeRoom' /\ Filled' = Filled
  BY <1>1 DEF Newest, paths, MadeRoom, Filled, managerVars
<1>7. ListInv' /\ BarrierInv' /\ WrittenInv' /\ NoneLater' /\ KeptInv'
  BY <1>1, <1>6 DEF SInv, ListInv, BarrierInv, WrittenInv, NoneLater, KeptInv, OnList, Running, managerVars
<1> QED BY <1>3, <1>4, <1>5, <1>7 DEF SInv

-----------------------------------------------------------------------------
LEMMA NextSInv == ASSUME KeepsMany, SInv, [Next]_vars PROVE SInv'
<1>1. CASE UNCHANGED vars
  <2>1. UNCHANGED <<shard, previous_saved_paths, rpc, loaded, folders, data, datapos, tracker,
                    pc, life, step, epoch, pos>>
    BY <1>1 DEF vars, managerVars, diskVars, loopVars
  <2>2. TypeOK' /\ PublishedComplete' /\ PublishedIsThere' /\ LoopInv'
    BY <2>1 DEF SInv, TypeOK, ManagerTypeOK, PublishedComplete, PublishedIsThere, LoopInv
  <2>3. ListInv' /\ BarrierInv' /\ WrittenInv' /\ NoneLater'
    BY <2>1 DEF SInv, ListInv, BarrierInv, WrittenInv, NoneLater, Newest, paths
  <2>4. KeptInv'
    BY <2>1 DEF SInv, KeptInv, OnList, MadeRoom, Filled, paths
  <2> QED BY <2>2, <2>3, <2>4 DEF SInv
<1>2. CASE Start \/ LoadModel \/ LoadData \/ NextEpoch \/ TrainStep
  BY <1>2, StartSInv, LoadModelSInv, LoadDataSInv, NextEpochSInv, TrainStepSInv
<1>3. CASE RemoveOldData \/ SaveModel \/ OpenData \/ WriteData \/ RenameTracker
  BY <1>3, RemoveOldDataSInv, SaveModelSInv, OpenDataSInv, WriteDataSInv, RenameTrackerSInv
<1>4. CASE Crash
  BY <1>4, StopSInv DEF Crash
<1>5. Next \/ UNCHANGED vars
  OBVIOUS
<1> QED BY <1>1, <1>2, <1>3, <1>4, <1>5 DEF Next, Progress

\* Rotation, the barriers and the order of save_checkpoint keep what is published whole.
THEOREM Invariance == ASSUME KeepsMany PROVE Spec => []SInv
<1>1. SInv /\ [Next]_vars => SInv'
  BY NextSInv
<1> QED BY InitSInv, <1>1, PTL DEF Spec

\* Every reachable state is well typed.
THEOREM TypeCorrect == ASSUME KeepsMany PROVE Spec => []TypeOK
<1>1. SInv => TypeOK
  BY DEF SInv
<1> QED BY Invariance, <1>1, PTL

\* Wherever the job dies, the checkpoint that the tracker names is complete and of one run.
THEOREM PublishedCompleteAlways == ASSUME KeepsMany PROVE Spec => []PublishedComplete
<1>1. SInv => PublishedComplete
  BY DEF SInv
<1> QED BY Invariance, <1>1, PTL

\* A list of n elements and one more have at most n + 1.
LEMMA ListBound ==
  ASSUME NEW S, NEW p \in Seq(S), NEW F, F \subseteq {p[i] : i \in 1..Len(p)}
  PROVE  IsFiniteSet(F) /\ Cardinality(F) \in Nat /\ Cardinality(F) <= Len(p)
<1> DEFINE n == Len(p)
           E == {p[i] : i \in 1..n}
           f == [i \in 1..n |-> p[i]]
<1>1. n \in Nat
  OBVIOUS
<1> HIDE DEF n
<1>2. IsFiniteSet(1..n) /\ Cardinality(1..n) = n
  BY <1>1, FS_Interval
<1>3. f \in Surjection(1..n, E)
  BY DEF Surjection
<1> HIDE DEF f
<1>4. IsFiniteSet(E) /\ Cardinality(E) <= n
  BY <1>2, <1>3, FS_Surjection
<1> HIDE DEF E
<1>5. F \in SUBSET E
  BY DEF E, n
<1>6. IsFiniteSet(F) /\ Cardinality(F) <= Cardinality(E)
  BY <1>4, <1>5, FS_Subset
<1>7. Cardinality(F) \in Nat /\ Cardinality(E) \in Nat
  BY <1>4, <1>6, FS_CardinalityType
<1> QED BY <1>1, <1>4, <1>6, <1>7 DEF n

\* A run keeps at most max_ckpt_to_keep directories, also while it fills the next one.
THEOREM RotationBoundAlways == ASSUME KeepsMany PROVE Spec => []RotationBound
<1>1. SInv => RotationBound
  <2> SUFFICES ASSUME SInv, pc \in Running, keep > 0 PROVE Cardinality(Filled) <= keep
    BY DEF RotationBound, Filled, keep
  <2>1. paths \in Seq(Steps) /\ Len(paths) \in Nat /\ keep \in Nat
    BY TypeFacts, ConstantFacts DEF SInv
  <2> DEFINE more == IF MadeRoom THEN {step} ELSE {}
             F    == Filled \ more
  <2>2. F \subseteq {paths[i] : i \in 1..Len(paths)}
    BY DEF SInv, KeptInv, OnList
  <2>3. IsFiniteSet(F) /\ Cardinality(F) \in Nat /\ Cardinality(F) <= Len(paths)
    BY <2>1, <2>2, ListBound
  <2>6. (~MadeRoom => F = Filled) /\ (MadeRoom => Filled \subseteq F \cup {step})
    OBVIOUS
  <2> HIDE DEF F, more
  <2>4. CASE ~MadeRoom
    <3>1. F = Filled /\ Len(paths) <= keep
      BY <2>1, <2>4, <2>6 DEF SInv, KeptInv
    <3> QED BY <2>1, <2>3, <3>1
  <2>5. CASE MadeRoom
    <3>1. Len(paths) + 1 <= keep /\ Filled \subseteq F \cup {step}
      BY <2>5, <2>6 DEF SInv, KeptInv
    <3>2. IsFiniteSet(F \cup {step}) /\ Cardinality(F \cup {step}) <= Cardinality(F) + 1
      BY <2>3, FS_AddElement, SMTT(30)
    <3>3. Filled \in SUBSET (F \cup {step})
      BY <3>1
    <3>4. IsFiniteSet(Filled) /\ Cardinality(Filled) <= Cardinality(F \cup {step})
      BY <3>2, <3>3, FS_Subset
    <3>5. Cardinality(Filled) \in Nat /\ Cardinality(F \cup {step}) \in Nat
      BY <3>2, <3>4, FS_CardinalityType
    <3> QED BY <2>1, <2>3, <3>1, <3>2, <3>4, <3>5
  <2> QED BY <2>4, <2>5
<1> QED BY Invariance, <1>1, PTL

-----------------------------------------------------------------------------
(* Where training resumes.                                                 *)

\* A save is due: every save_freq steps, and at the last one.
Due(s) == IsLast(s) \/ (SaveFreq > 0 /\ s % SaveFreq = 0)

\* No checkpoint is taken at the end of an epoch that another one follows: one that is
\* resumes in the wrong epoch (run sft_epoch_end).
SavesInside == \A s \in Steps : Due(s) /\ s % StepsPerEpoch = 0 => s \div StepsPerEpoch >= TotalEpochs

\* The dataloader positions on disk are those of their steps, in the pass of some epoch.
DataSaved ==
  \A s \in Steps : data[s] \in Lives =>
    /\ Due(s) /\ datapos[s] \in 1..StepsPerEpoch
    /\ \E e \in Nat : s = e * StepsPerEpoch + datapos[s]

AlignInv ==
  /\ DataSaved
  /\ pc \in Looping /\ epoch < TotalEpochs => step = epoch * StepsPerEpoch + pos
  /\ pc \in Saving => epoch < TotalEpochs /\ pos # 0 /\ Due(step)
  /\ pc = "load" => epoch = step \div StepsPerEpoch

\* Division finds the epoch that a step before its end belongs to.
LEMMA EpochOf ==
  ASSUME NEW n \in Nat \ {0}, NEW e \in Nat, NEW d \in 0..(n - 1)
  PROVE  (e * n + d) \div n = e
<1> DEFINE x == e * n + d
           q == x \div n
<1>1. e * n \in Nat /\ x \in Nat
  OBVIOUS
<1>2. q \in Int /\ n * q <= x /\ x < n * q + n
  BY <1>1
<1> HIDE DEF q
<1>3. n * e <= x /\ x < n * e + n
  OBVIOUS
<1>4. ~(q < e)
  <2> SUFFICES ASSUME q + 1 <= e PROVE FALSE
    BY <1>2
  <2>1. n * (q + 1) <= n * e
    BY <1>2
  <2>2. n * (q + 1) = n * q + n
    BY <1>2
  <2> QED BY <1>2, <1>3, <2>1, <2>2
<1>5. ~(e < q)
  <2> SUFFICES ASSUME e + 1 <= q PROVE FALSE
    BY <1>2
  <2>1. n * (e + 1) <= n * q
    BY <1>2
  <2>2. n * (e + 1) = n * e + n
    OBVIOUS
  <2> QED BY <1>2, <1>3, <2>1, <2>2
<1> QED BY <1>2, <1>4, <1>5 DEF q

LEMMA EpochEnd ==
  ASSUME NEW n \in Nat \ {0}, NEW e \in Nat
  PROVE  e * n + n = (e + 1) * n /\ (e * n + n) % n = 0
<1>1. e * n + n = (e + 1) * n
  OBVIOUS
<1>2. (e * n + n) \div n = e + 1
  <2>1. ((e + 1) * n + 0) \div n = e + 1
    BY EpochOf
  <2> QED BY <1>1, <2>1
<1>3. e * n + n \in Nat
  OBVIOUS
<1>4. e * n + n = n * ((e * n + n) \div n) + ((e * n + n) % n)
  BY <1>3
<1>5. n * (e + 1) = e * n + n
  OBVIOUS
<1> QED BY <1>1, <1>2, <1>3, <1>4, <1>5

LEMMA EpochsDone ==
  ASSUME NEW n \in Nat \ {0}, NEW s \in Nat, NEW k \in Nat, s \div n >= k
  PROVE  s >= k * n
<1> DEFINE q == s \div n
           a == n * k
           b == n * q
<1>1. q \in Int /\ b <= s /\ q >= k
  OBVIOUS
<1> HIDE DEF q
<1>2. a <= b /\ a \in Int /\ b \in Int /\ a = k * n
  BY <1>1
<1> HIDE DEF a, b
<1>3. a <= s
  BY <1>1, <1>2
<1> QED BY <1>2, <1>3

-----------------------------------------------------------------------------
\* Actions that leave the dataloader's files alone, or one of them unreadable.
LEMMA DataSavedKept ==
  ASSUME TypeOK, DataSaved, UNCHANGED datapos,
         \/ data' = data
         \/ \E s \in Steps : data' = [data EXCEPT ![s] = Absent] \/ data' = [data EXCEPT ![s] = Torn]
  PROVE  DataSaved'
<1>1. \A x \in Steps : data'[x] = data[x] \/ data'[x] \notin Lives
  BY DEF TypeOK, Absent, Torn, Lives
<1> QED BY <1>1 DEF DataSaved

LEMMA InitAlign == Init => AlignInv
BY DEF Init, AlignInv, DataSaved, Looping, Saving, Absent, Lives

LEMMA StartAlign == ASSUME SInv, AlignInv, Start PROVE AlignInv'
<1>1. UNCHANGED diskVars /\ pos' = 0
      /\ \/ TrainFromScratch
         \/ LoadFrom(FindLatest)
  BY DEF Start
<1>2. DataSaved'
  BY <1>1, DataSavedKept DEF SInv, AlignInv, diskVars
<1>3. CASE TrainFromScratch
  <2>1. pc' = "train" /\ step' = 0 /\ epoch' = 0 \div StepsPerEpoch
    BY <1>3 DEF TrainFromScratch, StartLoop
  <2>2. (0 * StepsPerEpoch + 0) \div StepsPerEpoch = 0
    BY ConstantFacts, EpochOf
  <2>3. epoch' = 0 /\ 0 = 0 * StepsPerEpoch + 0
    BY <2>1, <2>2, ConstantFacts
  <2> QED BY <1>1, <1>2, <2>1, <2>3 DEF AlignInv, Saving
<1>4. CASE LoadFrom(FindLatest)
  BY <1>2, <1>4 DEF AlignInv, LoadFrom, StartLoop, Looping, Saving
<1> QED BY <1>1, <1>3, <1>4

\* A resumed run finds the position it left, unless an epoch just ended.
LEMMA LoadDataAlign == ASSUME SavesInside, SInv, AlignInv, LoadData PROVE AlignInv'
<1>1. /\ pc = "load" /\ pc' = "train" /\ UNCHANGED <<diskVars, step, epoch>>
      /\ data[step] # Absent => pos' = datapos[step]
  BY DEF LoadData
<1>2. step \in Steps /\ step \in Nat /\ data[step] \in Lives /\ data[step] # Absent
  BY <1>1, TypeFacts, ConstantFacts DEF SInv, LoopInv, PublishedComplete, Absent
<1>3. DataSaved'
  BY <1>1, DataSavedKept DEF SInv, AlignInv, diskVars
<1>4. epoch = step \div StepsPerEpoch /\ pos' = datapos[step]
  BY <1>1, <1>2 DEF AlignInv
<1> DEFINE n == StepsPerEpoch
           d == datapos[step]
<1>5. PICK e \in Nat : step = e * n + d
  BY <1>2 DEF AlignInv, DataSaved
<1>6. Due(step) /\ d \in 1..n /\ n \in Nat \ {0}
  BY <1>2, ConstantFacts DEF AlignInv, DataSaved
<1>7. CASE d < n
  <2>1. d \in 0..(n - 1)
    BY <1>6, <1>7
  <2>2. step \div n = e
    BY <1>5, <1>6, <2>1, EpochOf
  <2> QED BY <1>1, <1>3, <1>4, <1>5, <2>2 DEF AlignInv, Saving
<1>8. CASE d = n
  <2>1. step % n = 0
    BY <1>5, <1>6, <1>8, EpochEnd
  <2>2. epoch >= TotalEpochs
    BY <1>2, <1>4, <1>6, <2>1 DEF SavesInside
  <2>3. ~(epoch' < TotalEpochs)
    BY <1>1, <2>2, ConstantFacts DEF SInv, TypeOK
  <2> QED BY <1>1, <1>3, <2>3 DEF AlignInv, Saving
<1> QED BY <1>6, <1>7, <1>8

LEMMA NextEpochAlign == ASSUME SInv, AlignInv, NextEpoch PROVE AlignInv'
<1>1. /\ pc = "train" /\ UNCHANGED <<diskVars, step>>
      /\ pos = StepsPerEpoch \/ epoch >= TotalEpochs
      /\ \/ epoch + 1 < TotalEpochs /\ pc' = "train" /\ epoch' = epoch + 1 /\ pos' = 0
         \/ pc' = "finished"
  BY DEF NextEpoch
<1>2. DataSaved'
  BY <1>1, DataSavedKept DEF SInv, AlignInv, diskVars
<1>3. CASE pc' = "finished"
  BY <1>2, <1>3 DEF AlignInv, Looping, Saving
<1>4. CASE epoch + 1 < TotalEpochs /\ pc' = "train" /\ epoch' = epoch + 1 /\ pos' = 0
  <2>1. epoch \in Nat /\ epoch < TotalEpochs /\ pos = StepsPerEpoch
    BY <1>1, <1>4, ConstantFacts DEF SInv, TypeOK
  <2>2. step = epoch * StepsPerEpoch + StepsPerEpoch
    BY <1>1, <2>1 DEF AlignInv, Looping
  <2>3. step = (epoch + 1) * StepsPerEpoch /\ step \in Nat
    BY <2>1, <2>2, EpochEnd, ConstantFacts, TypeFacts DEF SInv
  <2>4. step' = epoch' * StepsPerEpoch + pos'
    <3>1. step + 0 = step
      BY <2>3
    <3> QED BY <1>1, <1>4, <2>3, <3>1
  <2> QED BY <1>2, <1>4, <2>4 DEF AlignInv, Saving
<1> QED BY <1>1, <1>3, <1>4

LEMMA TrainStepAlign == ASSUME SInv, AlignInv, TrainStep PROVE AlignInv'
<1>1. /\ pc = "train" /\ epoch < TotalEpochs /\ pos' = pos + 1 /\ step' = step + 1
      /\ UNCHANGED <<diskVars, epoch>>
      /\ pc' \in {"train", "save", "finished"} /\ (pc' = "save" => Due(step'))
  BY DEF TrainStep, AfterStep, Due
<1>2. DataSaved'
  BY <1>1, DataSavedKept DEF SInv, AlignInv, diskVars
<1>3. step = epoch * StepsPerEpoch + pos
  BY <1>1 DEF AlignInv, Looping
<1>4. epoch * StepsPerEpoch \in Nat /\ pos \in Nat
  BY ConstantFacts DEF SInv, TypeOK
<1>5. step' = epoch * StepsPerEpoch + pos' /\ pos' # 0
  BY <1>1, <1>3, <1>4
<1> QED BY <1>1, <1>2, <1>5 DEF AlignInv, Due, Saving, Looping

LEMMA WriteDataAlign == ASSUME SInv, AlignInv, WriteData PROVE AlignInv'
<1>1. /\ pc = "data_write" /\ pc' = "rename" /\ UNCHANGED <<step, epoch, pos>>
      /\ data' = [data EXCEPT ![step] = life] /\ datapos' = [datapos EXCEPT ![step] = pos]
  BY DEF WriteData
<1>2. /\ step \in Steps /\ epoch < TotalEpochs /\ epoch \in Nat /\ pos \in 1..StepsPerEpoch
      /\ step = epoch * StepsPerEpoch + pos /\ Due(step)
  BY <1>1, ConstantFacts DEF SInv, LoopInv, TypeOK, AlignInv, Saving, Looping
<1>3. /\ datapos' \in [Steps -> 0..StepsPerEpoch] /\ datapos'[step] = pos
      /\ \A s \in Steps : s # step => data'[s] = data[s] /\ datapos'[s] = datapos[s]
  BY <1>1, <1>2, ConstantFacts DEF SInv, TypeOK
<1>4. DataSaved'
  BY <1>2, <1>3 DEF AlignInv, DataSaved, Due
<1> QED BY <1>1, <1>2, <1>4 DEF AlignInv, Saving, Looping, Due

\* The other actions of a run keep its place: they save, or go on after a save.
LEMMA QuietAlign ==
  ASSUME SInv, AlignInv, UNCHANGED <<step, epoch, pos>>, DataSaved',
         \/ pc' = pc
         \/ pc \in Saving /\ pc' \in Saving \cup {"train", "finished"}
  PROVE  AlignInv'
BY DEF AlignInv, Saving, Looping, Due

LEMMA NextAlign ==
  ASSUME SavesInside, KeepsMany, SInv, AlignInv, [Next]_vars PROVE AlignInv'
<1>1. CASE UNCHANGED vars
  BY <1>1, DataSavedKept, QuietAlign DEF vars, diskVars, loopVars, SInv, AlignInv
<1>2. CASE Start \/ LoadData \/ NextEpoch \/ TrainStep \/ WriteData
  BY <1>2, StartAlign, LoadDataAlign, NextEpochAlign, TrainStepAlign, WriteDataAlign
<1>3. CASE LoadModel \/ SaveModel \/ RenameTracker
  <2>1. /\ UNCHANGED <<data, datapos, step, epoch, pos>>
        /\ pc' = pc \/ (pc \in Saving /\ pc' \in {"train", "finished"})
    BY <1>3 DEF LoadModel, SaveModel, RenameTracker, AfterStep, loopVars, Saving
  <2> QED BY <2>1, DataSavedKept, QuietAlign DEF SInv, AlignInv
<1>4. CASE RemoveOldData
  <2>1. PICK s \in Doomed(1) : data' = [data EXCEPT ![s] = Absent]
    BY <1>4 DEF RemoveOldData
  <2>2. UNCHANGED <<datapos, step, epoch, pos, pc>> /\ pc = "save" /\ rpc[Rank0] = "called"
    BY <1>4 DEF RemoveOldData, loopVars
  <2>3. s \in Steps
    BY <2>2, DoomedIsOld
  <2> QED BY <2>1, <2>2, <2>3, DataSavedKept, QuietAlign DEF SInv, AlignInv
<1>5. CASE OpenData
  <2>1. /\ pc = "save" /\ pc' = "data_write" /\ data' = [data EXCEPT ![step] = Torn]
        /\ UNCHANGED <<datapos, step, epoch, pos>>
    BY <1>5 DEF OpenData
  <2>2. step \in Steps
    BY <2>1, SaveFacts
  <2>3. DataSaved'
    BY <2>1, <2>2, DataSavedKept DEF SInv, AlignInv
  <2>4. pc \in Saving /\ pc' \in Saving
    BY <2>1 DEF Saving
  <2> QED BY <2>1, <2>3, <2>4, QuietAlign
<1>6. CASE Crash
  <2>1. UNCHANGED <<data, datapos>> /\ pc' = "down"
    BY <1>6 DEF Crash, StopJob, diskVars
  <2> QED BY <2>1, DataSavedKept DEF SInv, AlignInv, Saving, Looping
<1>7. Next \/ UNCHANGED vars
  OBVIOUS
<1> QED BY <1>1, <1>2, <1>3, <1>4, <1>5, <1>6, <1>7 DEF Next, Progress

\* When no epoch but the last ends in a checkpoint, a resumed run trains the very batches
\* that the interrupted one had left: none twice, none skipped.
THEOREM DataAlignedAlways == ASSUME KeepsMany, SavesInside PROVE Spec => []DataAligned
<1>1. SInv /\ AlignInv /\ [Next]_vars => (SInv /\ AlignInv)'
  BY NextSInv, NextAlign
<1>2. AlignInv => DataAligned
  BY DEF AlignInv, DataAligned, Looping
<1> QED BY InitSInv, InitAlign, <1>1, <1>2, PTL DEF Spec

-----------------------------------------------------------------------------
(* What the end of training leaves behind.                                 *)

\* total_training_steps is at most what the epochs yield.
EnoughBatches == TotalSteps <= TotalEpochs * StepsPerEpoch

\* Only a resumed run stands behind the last step, and at its checkpoint.
LastInv ==
  /\ pc = "train" /\ step >= TotalSteps => tracker = step
  /\ pc \in {"load", "train"} /\ epoch >= TotalEpochs => step >= TotalSteps
  /\ FinishedIsComplete

LEMMA InitLast == Init => LastInv
BY DEF Init, LastInv, FinishedIsComplete

LEMMA StartLast == ASSUME EnoughBatches, SInv, Start PROVE LastInv'
<1>1. \/ TrainFromScratch
      \/ LoadFrom(FindLatest)
  BY DEF Start
<1>2. CASE TrainFromScratch
  <2>1. pc' = "train" /\ step' = 0 /\ epoch' = 0 \div StepsPerEpoch
    BY <1>2 DEF TrainFromScratch, StartLoop
  <2>2. (0 * StepsPerEpoch + 0) \div StepsPerEpoch = 0
    BY ConstantFacts, EpochOf
  <2>3. epoch' = 0 /\ ~(0 >= TotalSteps) /\ ~(0 >= TotalEpochs)
    BY <2>1, <2>2, ConstantFacts
  <2> QED BY <2>1, <2>3 DEF LastInv, FinishedIsComplete
<1>3. CASE LoadFrom(FindLatest)
  <2>1. pc' = "load" /\ step' = FindLatest /\ epoch' = FindLatest \div StepsPerEpoch
    BY <1>3 DEF LoadFrom, StartLoop
  <2>2. FindLatest \in Nat
    BY TypeFacts DEF SInv, FindLatest
  <2>3. ASSUME epoch' >= TotalEpochs PROVE step' >= TotalSteps
    <3>1. FindLatest >= TotalEpochs * StepsPerEpoch
      BY <2>1, <2>2, <2>3, EpochsDone, ConstantFacts
    <3>2. TotalEpochs * StepsPerEpoch \in Nat
      BY ConstantFacts
    <3> HIDE DEF FindLatest
    <3> QED BY <2>1, <2>2, <3>1, <3>2, ConstantFacts DEF EnoughBatches
  <2> QED BY <2>1, <2>3 DEF LastInv, FinishedIsComplete
<1> QED BY <1>1, <1>2, <1>3

LEMMA LoadDataLast == ASSUME SInv, LastInv, LoadData PROVE LastInv'
<1>1. pc = "load" /\ pc' = "train" /\ UNCHANGED <<tracker, step, epoch>>
  BY DEF LoadData, diskVars
<1>2. tracker = step
  BY <1>1 DEF SInv, LoopInv
<1> QED BY <1>1, <1>2 DEF LastInv, FinishedIsComplete

\* The epochs are over: every batch of them is behind the state.
LEMMA NextEpochLast ==
  ASSUME EnoughBatches, SInv, AlignInv, LastInv, NextEpoch PROVE LastInv'
<1>1. /\ pc = "train" /\ UNCHANGED <<tracker, step>>
      /\ pos = StepsPerEpoch \/ epoch >= TotalEpochs
      /\ \/ epoch + 1 < TotalEpochs /\ pc' = "train" /\ epoch' = epoch + 1
         \/ ~(epoch + 1 < TotalEpochs) /\ pc' = "finished"
  BY DEF NextEpoch, diskVars
<1>2. epoch \in Nat /\ TotalEpochs \in Nat
  BY ConstantFacts DEF SInv, TypeOK
<1>3. CASE epoch + 1 < TotalEpochs /\ pc' = "train" /\ epoch' = epoch + 1
  <2>1. ~(epoch' >= TotalEpochs)
    BY <1>2, <1>3
  <2> QED BY <1>1, <1>3, <2>1 DEF LastInv, FinishedIsComplete
<1>4. CASE ~(epoch + 1 < TotalEpochs) /\ pc' = "finished"
  <2>1. CASE epoch >= TotalEpochs
    BY <1>1, <1>4, <2>1 DEF LastInv, FinishedIsComplete
  <2>2. CASE epoch < TotalEpochs
    <3>1. pos = StepsPerEpoch /\ TotalEpochs = epoch + 1
      BY <1>1, <1>2, <1>4, <2>2
    <3>2. step = epoch * StepsPerEpoch + StepsPerEpoch
      BY <1>1, <2>2, <3>1 DEF AlignInv, Looping
    <3>3. step = TotalEpochs * StepsPerEpoch
      BY <1>2, <3>1, <3>2, EpochEnd, ConstantFacts
    <3>4. step >= TotalSteps
      BY <3>3, TypeFacts, ConstantFacts DEF SInv, EnoughBatches
    <3> QED BY <1>1, <1>4, <3>4 DEF LastInv, FinishedIsComplete
  <2> QED BY <1>2, <2>1, <2>2
<1> QED BY <1>1, <1>3, <1>4

LEMMA TrainStepLast == ASSUME SInv, LastInv, TrainStep PROVE LastInv'
<1>1. /\ pc = "train" /\ epoch < TotalEpochs /\ step' = step + 1 /\ epoch' = epoch
      /\ \/ pc' = "save"
         \/ pc' = "train" /\ ~(step' >= TotalSteps)
  BY DEF TrainStep, AfterStep, IsLast
<1>2. ~(epoch' >= TotalEpochs)
  BY <1>1, ConstantFacts DEF SInv, TypeOK
<1> QED BY <1>1, <1>2 DEF LastInv, FinishedIsComplete

LEMMA RenameTrackerLast == ASSUME SInv, AlignInv, RenameTracker PROVE LastInv'
<1>1. /\ pc = "rename" /\ tracker' = step /\ UNCHANGED <<step, epoch>>
      /\ pc' = IF step >= TotalSteps THEN "finished" ELSE "train"
  BY DEF RenameTracker, AfterStep, IsLast
<1>2. ~(epoch' >= TotalEpochs)
  BY <1>1, ConstantFacts DEF SInv, TypeOK, AlignInv, Saving
<1> QED BY <1>1, <1>2 DEF LastInv, FinishedIsComplete

LEMMA NextLast ==
  ASSUME EnoughBatches, SInv, AlignInv, LastInv, [Next]_vars PROVE LastInv'
<1>1. CASE UNCHANGED vars \/ LoadModel
  BY <1>1 DEF vars, LoadModel, diskVars, loopVars, LastInv, FinishedIsComplete
<1>2. CASE Start \/ LoadData \/ NextEpoch \/ TrainStep \/ RenameTracker
  BY <1>2, StartLast, LoadDataLast, NextEpochLast, TrainStepLast, RenameTrackerLast
<1>3. CASE RemoveOldData \/ SaveModel \/ OpenData \/ WriteData \/ Crash
  <2>1. pc' \in Saving \cup {"down"}
    BY <1>3 DEF RemoveOldData, SaveModel, OpenData, WriteData, Crash, StopJob, loopVars, Saving
  <2> QED BY <2>1 DEF LastInv, FinishedIsComplete, Saving
<1>4. Next \/ UNCHANGED vars
  OBVIOUS
<1> QED BY <1>1, <1>2, <1>3, <1>4 DEF Next, Progress

AllInside == KeepsMany /\ SavesInside /\ EnoughBatches

LEMMA ProgressKept ==
  ASSUME AllInside
  PROVE  SInv /\ AlignInv /\ LastInv /\ [Next]_vars => (SInv /\ AlignInv /\ LastInv)'
BY NextSInv, NextAlign, NextLast DEF AllInside

\* fit ends only with total_training_steps trained and published.
THEOREM FinishedIsCompleteAlways == ASSUME AllInside PROVE Spec => []FinishedIsComplete
<1>1. LastInv => FinishedIsComplete
  BY DEF LastInv
<1> QED BY InitSInv, InitAlign, InitLast, ProgressKept, <1>1, PTL DEF Spec

-----------------------------------------------------------------------------
(* The store: a run goes on from the last committed step and from nothing  *)
(* else.                                                                   *)

\* What the ranks load is of one run, and older than theirs.
OriginInv ==
  /\ pc = "load" => /\ \A s \in Steps : data[s] < life
                    /\ \A r \in Ranks : rpc[r] = "loaded" => loaded[1][r] = data[tracker]
  /\ pc \in Looping \cup {"finished"} =>
       \E c \in Lives \cup {Absent} : c < life /\ \A r \in Ranks : loaded[1][r] = c

LEMMA InitOrigin == Init => OriginInv
BY DEF Init, OriginInv, Looping, Saving

LEMMA StartOrigin == ASSUME SInv, Start PROVE OriginInv'
<1>1. /\ UNCHANGED diskVars /\ life' = life + 1
      /\ loaded' = [g \in Groups |-> [r \in Ranks |-> Absent]]
      /\ TrainFromScratch \/ LoadFrom(FindLatest)
  BY DEF Start
<1>2. life \in Nat /\ \A s \in Steps : data[s] \in Int /\ data[s] <= life
  BY ConstantFacts DEF SInv, TypeOK, NoneLater, Content, Absent, Torn, Lives
<1>3. CASE TrainFromScratch
  <2>1. Absent < life' /\ \A r \in Ranks : loaded'[1][r] = Absent
    BY <1>1, <1>2, ConstantFacts DEF Absent
  <2> QED BY <1>3, <2>1 DEF OriginInv, TrainFromScratch
<1>4. CASE LoadFrom(FindLatest)
  <2>1. pc' = "load" /\ \A r \in Ranks : rpc'[r] = "loading"
    BY <1>4 DEF LoadFrom, CallAll
  <2>2. \A s \in Steps : data'[s] < life'
    BY <1>1, <1>2 DEF diskVars
  <2> QED BY <2>1, <2>2 DEF OriginInv, Looping, Saving
<1> QED BY <1>1, <1>3, <1>4

LEMMA LoadModelOrigin == ASSUME SInv, OriginInv, LoadModel PROVE OriginInv'
<1>1. PICK r \in Ranks : LoadShard(1, step, r)
  BY DEF LoadModel
<1>2. /\ pc = "load" /\ pc' = "load" /\ UNCHANGED <<data, tracker, life>>
      /\ rpc' = [rpc EXCEPT ![r] = "loaded"]
      /\ loaded' = [loaded EXCEPT ![1][r] = shard[1][step][r]]
  BY <1>1 DEF LoadModel, LoadShard, loopVars
<1>3. step = tracker /\ shard[1][step][r] = data[tracker]
  BY <1>2 DEF SInv, LoopInv, PublishedComplete
<1>4. \A q \in Ranks : /\ rpc'[q] = IF q = r THEN "loaded" ELSE rpc[q]
                       /\ loaded'[1][q] = IF q = r THEN data[tracker] ELSE loaded[1][q]
  BY <1>2, <1>3, TypeFacts DEF SInv
<1> QED BY <1>2, <1>4 DEF OriginInv, Looping, Saving

LEMMA LoadDataOrigin ==
  ASSUME SInv, OriginInv, LoadData
  PROVE  OriginInv' /\ \A r \in Ranks : loaded'[1][r] = data[tracker]
<1>1. /\ pc = "load" /\ pc' = "train" /\ UNCHANGED <<data, tracker, life, loaded>>
      /\ \A r \in Ranks : rpc[r] = "loaded"
  BY DEF LoadData, AllAt, diskVars
<1>2. data[tracker] \in Lives /\ data[tracker] < life
  BY <1>1 DEF SInv, LoopInv, PublishedComplete, OriginInv
<1>3. \A r \in Ranks : loaded'[1][r] = data[tracker]
  BY <1>1 DEF OriginInv
<1> QED BY <1>1, <1>2, <1>3 DEF OriginInv

\* Actions that leave what the ranks loaded alone.
LEMMA QuietOrigin ==
  ASSUME OriginInv, UNCHANGED <<loaded, life>>, pc' # "load",
         pc \in Looping \cup {"finished"} \/ pc' = pc
  PROVE  OriginInv'
BY DEF OriginInv

LEMMA NextOrigin == ASSUME SInv, OriginInv, [Next]_vars PROVE OriginInv'
<1>1. CASE UNCHANGED vars
  BY <1>1 DEF vars, managerVars, diskVars, loopVars, OriginInv
<1>2. CASE Start \/ LoadModel \/ LoadData
  BY <1>2, StartOrigin, LoadModelOrigin, LoadDataOrigin
<1>3. CASE NextEpoch \/ TrainStep \/ RemoveOldData \/ OpenData \/ WriteData \/ RenameTracker
  <2>1. UNCHANGED <<loaded, life>> /\ pc' # "load" /\ pc \in Looping
    BY <1>3 DEF NextEpoch, TrainStep, RemoveOldData, OpenData, WriteData, RenameTracker, AfterStep,
       managerVars, loopVars, Looping, Saving
  <2> QED BY <2>1, QuietOrigin
<1>4. CASE SaveModel
  <2>1. UNCHANGED <<loaded, life, pc>> /\ pc = "save"
    BY <1>4 DEF SaveModel, SaveStep, RemoveOldFile, EnterSave, BeginShard, EndShard, ReturnSave, loopVars
  <2> QED BY <2>1, QuietOrigin DEF Looping, Saving
<1>5. CASE Crash
  BY <1>5 DEF Crash, StopJob, OriginInv, Looping, Saving
<1>6. Next \/ UNCHANGED vars
  OBVIOUS
<1> QED BY <1>1, <1>2, <1>3, <1>4, <1>5, <1>6 DEF Next, Progress

(***************************************************************************)
(* The refinement mapping, part by part.                                   *)
(***************************************************************************)
Up          == pc \in Trained
Done        == IF pc \in Trained THEN step ELSE 0
Origin      == IF pc \notin Trained THEN 0
               ELSE IF \E c \in Lives \cup {Absent} : \A r \in Ranks : loaded[1][r] = c
                      THEN loaded[1][Rank0]
                      ELSE Torn
CommittedBy == IF tracker = Absent THEN 0 ELSE data[tracker]

LEMMA OriginIs ==
  ASSUME SInv, OriginInv
  PROVE  /\ Origin = IF pc \in Trained THEN loaded[1][Rank0] ELSE 0
         /\ pc \in Trained => Origin < life
BY ConstantFacts DEF Origin, OriginInv, Trained, Running, Looping, Saving

LEMMA OriginIsNext ==
  ASSUME OriginInv'
  PROVE  Origin' = IF pc' \in Trained THEN loaded'[1][Rank0] ELSE 0
BY DEF Origin, OriginInv, Trained, Running, Looping, Saving

AbstractView == <<Up, Done, Origin, tracker, CommittedBy>>

AbstractRecover ==
  /\ ~Up /\ Up' /\ Done' = tracker /\ Origin' = CommittedBy
  /\ UNCHANGED <<tracker, CommittedBy>>
AbstractWork ==
  Up /\ Done' = Done + 1 /\ Up' /\ UNCHANGED <<Origin, tracker, CommittedBy>>
AbstractCommit ==
  /\ Up /\ tracker' = Done /\ tracker' > tracker
  /\ CommittedBy' \in Lives /\ CommittedBy' > Origin
  /\ Up' /\ UNCHANGED <<Done, Origin>>
AbstractStop ==
  Up /\ ~Up' /\ Done' = 0 /\ Origin' = 0 /\ UNCHANGED <<tracker, CommittedBy>>

\* What is shown of the parts of the mapping is a step of the store.
LEMMA StoreMove ==
  ASSUME \/ UNCHANGED AbstractView
         \/ AbstractRecover \/ AbstractWork \/ AbstractCommit \/ AbstractStop
  PROVE  [Store!Next]_(Store!storeVars)
<1>1. CASE UNCHANGED AbstractView
  BY <1>1 DEF AbstractView, Store!storeVars, Up, Done, Origin, CommittedBy
<1>2. CASE AbstractRecover
  BY <1>2 DEF AbstractRecover, Store!Next, Store!Recover, Up, Done, Origin, CommittedBy
<1>3. CASE AbstractWork
  BY <1>3 DEF AbstractWork, Store!Next, Store!Work, Up, Done, Origin, CommittedBy
<1>4. CASE AbstractCommit
  BY <1>4 DEF AbstractCommit, Store!Next, Store!Commit, Up, Done, Origin, CommittedBy
<1>5. CASE AbstractStop
  BY <1>5 DEF AbstractStop, Store!Next, Store!Stop, Up, Done, Origin, CommittedBy
<1> QED BY <1>1, <1>2, <1>3, <1>4, <1>5

LEMMA StopMove ==
  ASSUME SInv, OriginInv, OriginInv', pc' \notin Trained, UNCHANGED diskVars
  PROVE  UNCHANGED AbstractView \/ AbstractStop
<1>1. UNCHANGED <<tracker, CommittedBy>>
  BY DEF diskVars, CommittedBy
<1>2. ~Up' /\ Done' = 0 /\ Origin' = 0
  BY OriginIsNext DEF Up, Done
<1>3. ~Up => Done = 0 /\ Origin = 0
  BY OriginIs DEF Up, Done
<1> QED BY <1>1, <1>2, <1>3 DEF AbstractView, AbstractStop, Up

\* A finished job that is started again finds its checkpoint: it never starts over.
LEMMA StartMove ==
  ASSUME SInv, LastInv, OriginInv, OriginInv', Start
  PROVE  UNCHANGED AbstractView \/ AbstractStop \/ AbstractRecover
<1>1. /\ pc \in {"down", "finished"} /\ UNCHANGED diskVars
      /\ loaded' = [g \in Groups |-> [r \in Ranks |-> Absent]]
      /\ \/ FindLatest = 0 /\ pc' = "train" /\ step' = 0
         \/ pc' = "load"
  BY DEF Start, TrainFromScratch, LoadFrom
<1>2. CASE pc' = "load"
  BY <1>1, <1>2, StopMove DEF Trained, Running
<1>3. CASE FindLatest = 0 /\ pc' = "train" /\ step' = 0
  <2>1. tracker = 0
    BY <1>3, TypeFacts DEF SInv, FindLatest, PublishedIsThere
  <2>2. pc = "down"
    BY <1>1, <2>1, ConstantFacts, TypeFacts DEF SInv, LastInv, FinishedIsComplete
  <2>3. ~Up /\ Up' /\ Done' = 0 /\ UNCHANGED <<tracker, CommittedBy>> /\ CommittedBy = 0
    BY <1>1, <1>3, <2>1, <2>2 DEF Up, Done, CommittedBy, Trained, Running, diskVars, Absent
  <2>4. Origin' = 0
    BY <1>1, <1>3, OriginIsNext, ConstantFacts DEF Trained, Running, Absent
  <2> QED BY <2>1, <2>3, <2>4 DEF AbstractRecover
<1> QED BY <1>1, <1>2, <1>3

LEMMA LoadDataMove == ASSUME SInv, OriginInv, OriginInv', LoadData PROVE AbstractRecover
<1>1. pc = "load" /\ pc' = "train" /\ UNCHANGED <<tracker, data, step>>
  BY DEF LoadData, diskVars
<1>2. tracker = step /\ tracker # Absent
  BY <1>1, TypeFacts DEF SInv, LoopInv, Absent
<1>3. ~Up /\ Up' /\ Done' = tracker /\ CommittedBy = data[tracker] /\ UNCHANGED CommittedBy
  BY <1>1, <1>2 DEF Up, Done, CommittedBy, Trained, Running
<1>4. Origin' = data[tracker]
  BY <1>1, OriginIsNext, LoadDataOrigin, ConstantFacts DEF Trained, Running
<1> QED BY <1>1, <1>3, <1>4 DEF AbstractRecover

LEMMA TrainStepMove == ASSUME SInv, OriginInv, OriginInv', TrainStep PROVE AbstractWork
<1>1. pc = "train" /\ pc' \in {"train", "save", "finished"} /\ step' = step + 1
      /\ UNCHANGED <<tracker, data, loaded>>
  BY DEF TrainStep, AfterStep, diskVars
<1>2. Up /\ Up' /\ Done = step /\ Done' = step + 1 /\ UNCHANGED CommittedBy
  BY <1>1 DEF Up, Done, CommittedBy, Trained, Running
<1>3. Origin' = Origin
  BY <1>1, OriginIs, OriginIsNext DEF Trained, Running
<1> QED BY <1>1, <1>2, <1>3 DEF AbstractWork

\* The rename commits: all that the tracker will name is on disk.
LEMMA RenameTrackerMove == ASSUME SInv, OriginInv, OriginInv', RenameTracker PROVE AbstractCommit
<1>1. pc = "rename" /\ pc' \in {"train", "finished"} /\ tracker' = step
      /\ UNCHANGED <<data, step, loaded>>
  BY DEF RenameTracker, AfterStep, managerVars
<1>2. step \in Steps /\ tracker < step /\ data[step] = life /\ life \in Lives /\ step # Absent
  BY <1>1, ConstantFacts DEF SInv, LoopInv, WrittenInv, Saving, Running, Steps, Absent
<1>3. Up /\ Up' /\ Done = step /\ Done' = step /\ CommittedBy' = life
  BY <1>1, <1>2 DEF Up, Done, CommittedBy, Trained, Running
<1>4. Origin' = Origin /\ Origin < life
  BY <1>1, OriginIs, OriginIsNext DEF Trained, Running
<1>5. tracker' > tracker /\ CommittedBy' > Origin
  <2>1. tracker \in Int /\ step \in Int /\ life \in Int /\ Origin \in Int
    BY <1>1, <1>2, OriginIs, TypeFacts DEF SInv, Trained, Running, Absent
  <2> QED BY <1>1, <1>2, <1>3, <1>4, <2>1
<1> QED BY <1>1, <1>2, <1>3, <1>4, <1>5 DEF AbstractCommit

\* Whatever else a run does leaves the state and the committed step as they are.
LEMMA QuietMove ==
  ASSUME SInv, OriginInv, OriginInv', UNCHANGED <<tracker, step, loaded>>,
         pc \in Trained, pc' \in Trained,
         tracker \in Steps => data'[tracker] = data[tracker]
  PROVE  UNCHANGED AbstractView
<1>1. UNCHANGED <<Up, Done, Origin>>
  BY OriginIs, OriginIsNext DEF Up, Done
<1>2. UNCHANGED CommittedBy
  BY TypeFacts DEF SInv, CommittedBy, Absent
<1> QED BY <1>1, <1>2 DEF AbstractView

LEMMA SavingMove ==
  ASSUME KeepsMany, SInv, OriginInv, OriginInv',
         RemoveOldData \/ SaveModel \/ OpenData \/ WriteData
  PROVE  UNCHANGED AbstractView
<1>1. /\ UNCHANGED <<tracker, step, loaded>> /\ pc \in Saving /\ pc' \in Saving
  BY DEF RemoveOldData, SaveModel, OpenData, WriteData, SaveStep, RemoveOldFile, EnterSave, BeginShard,
     EndShard, ReturnSave, managerVars, loopVars, Saving
<1>2. pc \in Trained /\ pc' \in Trained /\ tracker # step /\ data \in [Steps -> Content]
  BY <1>1, TypeFacts DEF SInv, LoopInv, Saving, Trained, Running, TypeOK
<1>3. tracker \in Steps => data'[tracker] = data[tracker]
  <2>1. CASE RemoveOldData
    <3>1. PICK s \in Doomed(1) : data' = [data EXCEPT ![s] = Absent]
      BY <2>1 DEF RemoveOldData
    <3>2. s # tracker
      BY <2>1, DoomedIsOld, TypeFacts DEF RemoveOldData, SInv
    <3> QED BY <1>2, <3>1, <3>2
  <2>2. CASE SaveModel
    BY <2>2 DEF SaveModel
  <2>3. CASE OpenData \/ WriteData
    BY <1>2, <2>3 DEF OpenData, WriteData
  <2> QED BY <2>1, <2>2, <2>3
<1> QED BY <1>1, <1>2, <1>3, QuietMove

-----------------------------------------------------------------------------
LEMMA InitStore == Init => Store!Init
BY DEF Init, Store!Init, Trained, Running, Absent

LEMMA NextStore ==
  ASSUME KeepsMany, SInv, LastInv, OriginInv, OriginInv', [Next]_vars
  PROVE  [Store!Next]_(Store!storeVars)
<1>1. CASE UNCHANGED vars \/ LoadModel
  <2>1. UNCHANGED <<pc, step, tracker, data>> /\ (pc \in Trained => UNCHANGED loaded)
    BY <1>1 DEF vars, managerVars, diskVars, loopVars, LoadModel, Trained, Running
  <2>2. UNCHANGED <<Up, Done, Origin, CommittedBy>>
    BY <2>1, OriginIs, OriginIsNext DEF Up, Done, CommittedBy
  <2> QED BY <2>1, <2>2, StoreMove DEF AbstractView
<1>2. CASE Start \/ LoadData \/ TrainStep \/ RenameTracker
  BY <1>2, StartMove, LoadDataMove, TrainStepMove, RenameTrackerMove, StoreMove
<1>3. CASE NextEpoch
  <2>1. UNCHANGED <<tracker, data, step, loaded>> /\ pc \in Trained /\ pc' \in Trained
    BY <1>3 DEF NextEpoch, managerVars, diskVars, Trained, Running
  <2> QED BY <2>1, QuietMove, StoreMove
<1>4. CASE RemoveOldData \/ SaveModel \/ OpenData \/ WriteData
  BY <1>4, SavingMove, StoreMove
<1>5. CASE Crash
  <2>1. pc' \notin Trained /\ UNCHANGED diskVars
    BY <1>5 DEF Crash, StopJob, Trained, Running
  <2> QED BY <2>1, StopMove, StoreMove
<1>6. Next \/ UNCHANGED vars
  OBVIOUS
<1> QED BY <1>1, <1>2, <1>3, <1>4, <1>5, <1>6 DEF Next, Progress

\* Over all crashes and resubmissions, a run that comes up goes on from the step committed
\* last and from the state of the run that committed it, and commits only later steps.
THEOREM StoreImplemented == ASSUME AllInside PROVE Spec => ImplementsStore
<1>1. KeepsMany
  BY DEF AllInside
<1>2. SInv /\ OriginInv /\ [Next]_vars => OriginInv'
  BY NextOrigin
<1>3. SInv /\ LastInv /\ OriginInv /\ OriginInv' /\ [Next]_vars => [Store!Next]_(Store!storeVars)
  BY <1>1, NextStore
<1> QED
  BY InitSInv, InitAlign, InitLast, InitOrigin, InitStore, ProgressKept, <1>2, <1>3, PTL
  DEF Spec, ImplementsStore, Store!Spec
=============================================================================
