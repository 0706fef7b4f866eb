------------------------- MODULE HybridEngineProofs -------------------------
(***************************************************************************)
(* What holds of actor and rollout engine for every number of engines,     *)
(* ranks and steps and every configuration: the peaks of training and of   *)
(* rollout are never on a GPU together, and no engine serves weights older *)
(* than the actor's, unless the job is one of asynchronous servers that    *)
(* keep their memory between rollouts.                                     *)
(***************************************************************************)
EXTENDS HybridEngine, TLAPS

Training == {"log_prob", "update", "save"}
Places   == {"idle", "called", "syncing", "synced", "awake", "loaded", "computed"}

EngineTypeOK ==
  /\ config \in Configs
  /\ task \in Tasks \union {"end", "failed"}
  /\ at \in [Ranks -> Places]
  /\ actor \in [Ranks -> SUBSET {"params", "grads", "optim"}]
  /\ engine \in [Ranks -> SUBSET {"weights", "kv"}]
  /\ version \in Nat /\ engineVer \in [Ranks -> Nat]

\* Where rank k may be, given what the driver has called.
Placed(k) ==
  /\ at[k] \in {"syncing", "synced"} => task \in {"generate", "wake", "failed"}
  /\ at[k] = "awake" => task \in {"generate", "failed"}
  /\ at[k] \in {"loaded", "computed"} => task \in Training

\* What of an offloaded actor may be on the GPU, given where the rank is.
Offloaded(k) ==
  /\ at[k] \in {"idle", "called", "awake"} => actor[k] = {}
  /\ at[k] \in {"syncing", "synced"} => actor[k] \subseteq EnterLoads
  /\ at[k] \in {"loaded", "computed"} => actor[k] \subseteq Offloads

\* The rank that takes and gives back the engine's memory on rank k.
Controller(k) == IF config.backend = "vllm" THEN k ELSE <<k[1], 1>>

\* A rank c that has left the rollout has given the memory back, and none is taken outside it;
\* a rank of vLLM takes that of the cache last.
Freed(k, c) ==
  /\ task \in Training \union {"end"} => engine[k] = {}
  /\ task \in {"generate", "sleep"} /\ at[c] = "idle" => engine[k] = {}
  /\ config.backend = "vllm" =>
       /\ task \in {"generate", "wake"} /\ at[k] = "called" => engine[k] = {}
       /\ at[k] \in {"syncing", "synced"} => engine[k] \subseteq {"weights"}

\* Engines that are not freed keep their memory; of one that is, what has been taken again.
Full == {"weights", "kv"}
Held(k, c) ==
  /\ ~Frees => engine[k] = Full
  /\ at[c] \in {"syncing", "synced"} =>
       "weights" \in engine[k] /\ (Staged \/ engine[k] = Full)
  /\ at[c] = "awake" => engine[k] = Full
  /\ task = "wake" /\ at[c] = "idle" => engine[k] = Full
  /\ task = "agent" => engine[k] = Full

\* Once copied, the weights are those of the last update until training goes on.
Synced(k) ==
  /\ at[k] \in {"synced", "awake"} => engineVer[k] = version
  /\ task = "wake" /\ at[k] = "idle" => engineVer[k] = version
  /\ task = "agent" => engineVer[k] = version

\* The rollout is entered before every use of the engines.
Refreshes == config.mode = "sync" \/ Frees

TasksOfMode ==
  /\ config.mode = "sync" => task \notin {"wake", "agent", "sleep"}
  /\ config.mode = "async" => task # "generate"

\* All of it for rank k, whose engine's memory rank c controls.
RankInv(k, c) ==
  /\ Placed(k)
  /\ config.offload => Offloaded(k)
  /\ Frees => Freed(k, c)
  /\ Refreshes => Held(k, c) /\ Synced(k)

EngineInv ==
  /\ EngineTypeOK /\ TasksOfMode
  /\ \A k, c \in Ranks : c = Controller(k) => RankInv(k, c)

ConfigFacts == 
  /\ config.mode \in {"sync", "async"} /\ config.strategy \in {"fsdp", "megatron"}
  /\ config.backend \in {"vllm", "sglang"} /\ config.free_cache \in BOOLEAN
  /\ config.multi_stage \in BOOLEAN /\ config.offload \in BOOLEAN

LEMMA ConfigOK == ASSUME config \in Configs PROVE ConfigFacts
BY HybridAssumption DEF ConfigFacts

LEMMA ControllerFacts ==
  ASSUME config \in Configs
  PROVE  /\ \A k \in Ranks : Controller(k) \in Ranks /\ k \in Controls(Controller(k))
         /\ \A j, k \in Ranks : j \in Controls(k) => k = Controller(j)
<1>1. Tp \in Nat \ {0} /\ 1 \in 1..Tp
  BY HybridAssumption
<1>2. CASE config.backend = "vllm"
  BY <1>2 DEF Controller, Controls
<1>3. CASE config.backend # "vllm"
  <2>1. \A k \in Ranks : /\ k = <<k[1], k[2]>> /\ k[1] \in Servers
                         /\ <<k[1], 1>> \in Ranks /\ k \in Group(k[1])
    BY <1>1 DEF Ranks, Group
  <2>2. ASSUME NEW j \in Ranks, NEW k \in Ranks, j \in Controls(k) PROVE k = Controller(j)
    <3>1. k[2] = 1 /\ j \in Group(k[1])
      BY <1>3, <2>2 DEF Controls, Leader
    <3>2. j[1] = k[1]
      BY <3>1 DEF Group
    <3> QED BY <1>3, <2>1, <3>1, <3>2 DEF Controller
  <2> QED BY <1>3, <2>1, <2>2 DEF Controller, Controls, Leader
<1> QED BY <1>2, <1>3

LEMMA EngineInitInv == EngineInit => EngineInv
<1> SUFFICES ASSUME EngineInit PROVE EngineInv
  OBVIOUS
<1>1. config \in Configs /\ ConfigFacts
  BY ConfigOK DEF EngineInit
<1>2. /\ task \in {"generate", "wake", "agent"} /\ (Frees => task # "agent")
      /\ TasksOfMode /\ (Refreshes => task # "agent")
  BY <1>1 DEF EngineInit, FirstTask, ConfigFacts, Frees, TasksOfMode, Refreshes
<1>3. \A k \in Ranks : at[k] \in {"idle", "called"} /\ (task # "agent" => at[k] = "called")
  BY <1>2 DEF EngineInit, Called
<1>4. EngineTypeOK
  BY <1>1, <1>2, <1>3 DEF EngineInit, EngineTypeOK, Tasks, Places, Called, Built, EngineLoaded
<1> SUFFICES ASSUME NEW k \in Ranks, NEW c \in Ranks, c = Controller(k) PROVE RankInv(k, c)
  BY <1>2, <1>4 DEF EngineInv
<1>5. Placed(k)
  BY <1>3 DEF Placed
<1>6. config.offload => Offloaded(k)
  BY <1>3 DEF EngineInit, Offloaded
<1>7. Frees => Freed(k, c)
  BY DEF EngineInit, Freed
<1>8. Refreshes => Held(k, c)
  BY <1>1, <1>2, <1>3 DEF EngineInit, Held, Full
<1>9. Refreshes => Synced(k)
  BY <1>2, <1>3 DEF EngineInit, Synced
<1> QED BY <1>5, <1>6, <1>7, <1>8, <1>9 DEF RankInv

-----------------------------------------------------------------------------
\* What no action changes.
Kept ==
  /\ config' = config /\ ConfigFacts /\ Frees' = Frees /\ Refreshes' = Refreshes
  /\ Staged' = Staged /\ EnterLoads' = EnterLoads
  /\ \A k \in Ranks : Controller(k)' = Controller(k) /\ Controller(k) \in Ranks
  /\ \A j, k \in Ranks : j \in Controls(k) <=> k = Controller(j)

LEMMA SameConfig == ASSUME config \in Configs, config' = config PROVE Kept
<1>1. /\ ConfigFacts
      /\ \A k \in Ranks : Controller(k) \in Ranks
      /\ \A j, k \in Ranks : j \in Controls(k) <=> k = Controller(j)
  BY ConfigOK, ControllerFacts
<1>2. \A k \in Ranks : Controller(k)' = Controller(k)
  BY DEF Controller
<1>3. Frees' = Frees /\ Staged' = Staged /\ EnterLoads' = EnterLoads /\ Refreshes' = Refreshes
  BY DEF Frees, Refreshes, Staged, EnterLoads, Megatron
<1> QED BY <1>1, <1>2, <1>3 DEF Kept

\* To show the invariant of the next state, one may assume what it says of a rank k and the
\* rank c that controls its engine in this one.
Step(k, c) ==
  /\ c = Controller(k) /\ RankInv(k, c) /\ engine[k] \subseteq Full
  /\ config.backend = "vllm" => c = k
  /\ \A j \in Ranks : k \in Controls(j) <=> c = j

LEMMA StepInv ==
  ASSUME EngineInv, config' = config, EngineTypeOK', TasksOfMode',
         \A k, c \in Ranks : Step(k, c) => RankInv(k, c)'
  PROVE  EngineInv'
<1>1. Kept
  BY SameConfig DEF EngineInv, EngineTypeOK
<1>2. ASSUME NEW k \in Ranks, NEW c \in Ranks, c = Controller(k)' PROVE Step(k, c)
  <2>1. c = Controller(k)
    BY <1>1, <1>2 DEF Kept
  <2>2. RankInv(k, c) /\ engine[k] \subseteq Full
    BY <2>1 DEF EngineInv, EngineTypeOK, Full
  <2>3. \A j \in Ranks : k \in Controls(j) <=> c = j
    BY <1>1, <2>1 DEF Kept
  <2> QED BY <2>1, <2>2, <2>3 DEF Step, Controller
<1>3. \A k, c \in Ranks : c = Controller(k)' => RankInv(k, c)'
  BY <1>2
<1> QED BY <1>3 DEF EngineInv

LEMMA EnterInv == ASSUME EngineInv, NEW r \in Ranks, Enter(r) PROVE EngineInv'
<1>1. /\ task \in {"generate", "wake"} /\ at[r] = "called"
      /\ at' = [at EXCEPT ![r] = "syncing"]
      /\ actor' = [actor EXCEPT ![r] = @ \union (IF config.offload THEN EnterLoads ELSE {})]
      /\ UNCHANGED <<config, task, step, version, engineVer>>
  BY DEF Enter
<1>2. \A k \in Ranks : engine'[k] = IF Frees /\ k \in Controls(r)
                                      THEN engine[k] \union (IF Staged THEN {"weights"} ELSE Full)
                                      ELSE engine[k]
  BY DEF Enter, TakeMemory, Full
<1>3. engine' \in [Ranks -> SUBSET Full]
  BY DEF Enter, TakeMemory, EngineInv, EngineTypeOK, Full
<1>4. Kept
  BY <1>1, SameConfig DEF EngineInv, EngineTypeOK
<1>5. EngineTypeOK' /\ TasksOfMode'
  BY <1>1, <1>3 DEF EngineInv, EngineTypeOK, Places, EnterLoads, Full, TasksOfMode
<1>6. \A k \in Ranks : /\ at[k] \in Places /\ at'[k] = IF k = r THEN "syncing" ELSE at[k]
                       /\ k # r => actor'[k] = actor[k]
                       /\ config.offload => actor'[r] = actor[r] \union EnterLoads
  BY <1>1 DEF EngineInv, EngineTypeOK
<1> SUFFICES ASSUME NEW k \in Ranks, NEW c \in Ranks, Step(k, c) PROVE RankInv(k, c)'
  BY <1>1, <1>5, StepInv
<1>8. Placed(k)'
  BY <1>1, <1>6 DEF Step, RankInv, Placed
<1>9. config.offload' => Offloaded(k)'
  BY <1>1, <1>4, <1>6 DEF Step, RankInv, Offloaded, Kept, Offloads, Model
<1>7. /\ c = r <=> k \in Controls(r)
      /\ at'[c] = IF c = r THEN "syncing" ELSE at[c]
      /\ at'[k] = IF k = r THEN "syncing" ELSE at[k]
      /\ engine'[k] = IF Frees /\ c = r
                        THEN engine[k] \union (IF Staged THEN {"weights"} ELSE Full)
                        ELSE engine[k]
      /\ task' = task /\ config' = config
  BY <1>1, <1>2, <1>6 DEF Step
<1>10. Frees' => Freed(k, c)'
  <2> SUFFICES ASSUME Frees PROVE Freed(k, c)'
    BY <1>4 DEF Kept
  <2>1. Freed(k, c)
    BY DEF Step, RankInv
  <2> QED BY <1>1, <1>7, <2>1 DEF Step, Freed, Staged, Training
<1>11. Refreshes' => Held(k, c)'
  <2> SUFFICES ASSUME Refreshes PROVE Held(k, c)'
    BY <1>4 DEF Kept
  <2>1. Held(k, c) /\ engine[k] \subseteq Full
    BY DEF Step, RankInv
  <2>2. Frees' = Frees /\ Staged' = Staged
    BY <1>4 DEF Kept
  <2> QED BY <1>1, <1>7, <2>1, <2>2 DEF Held, Full
<1>12. Refreshes' => Synced(k)'
  BY <1>1, <1>4, <1>6 DEF Step, RankInv, Synced, Kept
<1> QED BY <1>8, <1>9, <1>10, <1>11, <1>12 DEF RankInv

\* All ranks together copy the weights.
LEMMA SyncWeightsInv == ASSUME EngineInv, SyncWeights PROVE EngineInv'
<1>1. /\ \A j \in Ranks : at[j] = "syncing" /\ at'[j] = "synced" /\ engineVer'[j] = version
      /\ UNCHANGED <<config, task, step, actor, engine, version>>
  BY DEF SyncWeights
<1>2. EngineTypeOK' /\ TasksOfMode'
  BY DEF SyncWeights, EngineInv, EngineTypeOK, Places, TasksOfMode
<1>3. Kept
  BY <1>1, SameConfig DEF EngineInv, EngineTypeOK
<1> SUFFICES ASSUME NEW k \in Ranks, NEW c \in Ranks, Step(k, c) PROVE RankInv(k, c)'
  BY <1>1, <1>2, StepInv
<1>4. Placed(k)'
  BY <1>1 DEF Step, RankInv, Placed
<1>5. config.offload' => Offloaded(k)'
  BY <1>1, <1>3 DEF Step, RankInv, Offloaded, Kept
<1>6. Frees' => Freed(k, c)'
  BY <1>1, <1>3 DEF Step, RankInv, Freed, Kept
<1>7. Refreshes' => Held(k, c)'
  BY <1>1, <1>3 DEF Step, RankInv, Held, Kept
<1>8. Refreshes' => Synced(k)'
  BY <1>1, <1>3 DEF Step, RankInv, Synced, Kept
<1> QED BY <1>4, <1>5, <1>6, <1>7, <1>8 DEF RankInv

\* A rank is in the rollout: the actor has left the GPU, and the cache has its memory.
LEMMA EnteredInv == ASSUME EngineInv, NEW r \in Ranks, Entered(r) PROVE EngineInv'
<1>1. /\ at[r] = "synced"
      /\ at' = [at EXCEPT ![r] = IF task = "wake" THEN "idle" ELSE "awake"]
      /\ actor' = [actor EXCEPT ![r] = IF config.offload THEN @ \ Model ELSE @]
      /\ UNCHANGED <<config, task, step, version, engineVer>>
  BY DEF Entered
<1>2. \A k \in Ranks : engine'[k] = IF Frees /\ k \in Controls(r)
                                      THEN engine[k] \union (IF Staged THEN {"kv"} ELSE {})
                                      ELSE engine[k]
  BY DEF Entered, TakeMemory
<1>3. engine' \in [Ranks -> SUBSET Full]
  BY DEF Entered, TakeMemory, EngineInv, EngineTypeOK, Full
<1>4. Kept
  BY <1>1, SameConfig DEF EngineInv, EngineTypeOK
<1>5. EngineTypeOK' /\ TasksOfMode'
  BY <1>1, <1>3 DEF EngineInv, EngineTypeOK, Places, Full, TasksOfMode
<1>6. task \in {"generate", "wake", "failed"}
  BY <1>1, <1>4 DEF EngineInv, RankInv, Placed, Kept
<1> SUFFICES ASSUME NEW k \in Ranks, NEW c \in Ranks, Step(k, c) PROVE RankInv(k, c)'
  BY <1>1, <1>5, StepInv
<1>7. /\ at'[c] = IF c = r THEN (IF task = "wake" THEN "idle" ELSE "awake") ELSE at[c]
      /\ at'[k] = IF k = r THEN (IF task = "wake" THEN "idle" ELSE "awake") ELSE at[k]
      /\ actor'[k] = IF k = r /\ config.offload THEN actor[k] \ Model ELSE actor[k]
      /\ engine'[k] = IF Frees /\ c = r
                        THEN engine[k] \union (IF Staged THEN {"kv"} ELSE {}) ELSE engine[k]
      /\ task' = task /\ config' = config /\ version' = version /\ engineVer' = engineVer
  BY <1>1, <1>2 DEF Step, EngineInv, EngineTypeOK
<1>8. Placed(k)'
  BY <1>1, <1>6, <1>7 DEF Step, RankInv, Placed
<1>9. config.offload' => Offloaded(k)'
  BY <1>1, <1>4, <1>7 DEF Step, RankInv, Offloaded, Kept, EnterLoads, Model, Offloads
<1>10. Frees' => Freed(k, c)'
  <2> SUFFICES ASSUME Frees PROVE Freed(k, c)'
    BY <1>4 DEF Kept
  <2>1. Freed(k, c)
    BY DEF Step, RankInv
  <2> QED BY <1>1, <1>6, <1>7, <2>1 DEF Step, Freed, Training
<1>11. Refreshes' => Held(k, c)'
  <2> SUFFICES ASSUME Refreshes PROVE Held(k, c)'
    BY <1>4 DEF Kept
  <2>1. Held(k, c) /\ engine[k] \subseteq Full
    BY DEF Step, RankInv
  <2>2. Frees' = Frees /\ Staged' = Staged
    BY <1>4 DEF Kept
  <2> QED BY <1>1, <1>6, <1>7, <2>1, <2>2 DEF Held, Full
<1>12. Refreshes' => Synced(k)'
  BY <1>1, <1>4, <1>6, <1>7 DEF Step, RankInv, Synced, Kept
<1> QED BY <1>8, <1>9, <1>10, <1>11, <1>12 DEF RankInv

\* A rank leaves the rollout.
LEMMA ExitInv == ASSUME EngineInv, NEW r \in Ranks, Exit(r) PROVE EngineInv'
<1>1. /\ \/ task = "generate" /\ at[r] = "awake"
         \/ task = "sleep" /\ at[r] = "called"
      /\ at' = [at EXCEPT ![r] = "idle"]
      /\ engine' = [j \in Ranks |-> IF Frees /\ j \in Controls(r) THEN {} ELSE engine[j]]
      /\ UNCHANGED <<config, task, step, actor, version, engineVer>>
  BY DEF Exit
<1>2. Kept
  BY <1>1, SameConfig DEF EngineInv, EngineTypeOK
<1>3. EngineTypeOK' /\ TasksOfMode'
  BY <1>1 DEF EngineInv, EngineTypeOK, Places, TasksOfMode
<1> SUFFICES ASSUME NEW k \in Ranks, NEW c \in Ranks, Step(k, c) PROVE RankInv(k, c)'
  BY <1>1, <1>3, StepInv
<1>4. /\ at'[c] = IF c = r THEN "idle" ELSE at[c]
      /\ at'[k] = IF k = r THEN "idle" ELSE at[k]
      /\ engine'[k] = IF Frees /\ c = r THEN {} ELSE engine[k]
  BY <1>1 DEF Step, EngineInv, EngineTypeOK
<1>5. Placed(k)'
  BY <1>1, <1>4 DEF Step, RankInv, Placed
<1>6. config.offload' => Offloaded(k)'
  BY <1>1, <1>2, <1>4 DEF Step, RankInv, Offloaded, Kept, Offloads
<1>7. Frees' => Freed(k, c)'
  <2> SUFFICES ASSUME Frees PROVE Freed(k, c)'
    BY <1>2 DEF Kept
  <2>1. Freed(k, c)
    BY DEF Step, RankInv
  <2> QED BY <1>1, <1>4, <2>1 DEF Step, Freed, Training
<1>8. Refreshes' => Held(k, c)'
  <2> SUFFICES ASSUME Refreshes PROVE Held(k, c)'
    BY <1>2 DEF Kept
  <2>1. Held(k, c)
    BY DEF Step, RankInv
  <2>2. Frees' = Frees /\ Staged' = Staged
    BY <1>2 DEF Kept
  <2> QED BY <1>1, <1>4, <2>1, <2>2 DEF Held, Full
<1>9. Refreshes' => Synced(k)'
  BY <1>1, <1>2, <1>4 DEF Step, RankInv, Synced, Kept
<1> QED BY <1>5, <1>6, <1>7, <1>8, <1>9 DEF RankInv

-----------------------------------------------------------------------------
\* A rank loads what a call needs.
LEMMA LoadInv == ASSUME EngineInv, NEW r \in Ranks, Load(r) PROVE EngineInv'
<1>1. /\ task \in Training /\ at[r] = "called"
      /\ at' = [at EXCEPT ![r] = "loaded"]
      /\ actor' = [actor EXCEPT ![r] = @ \union Loads]
      /\ UNCHANGED <<config, task, step, engine, version, engineVer>>
  BY DEF Load, Training
<1>2. Kept /\ Offloads' = Offloads
  BY <1>1, SameConfig DEF EngineInv, EngineTypeOK, Offloads
<1>3. Loads \subseteq Offloads /\ Loads \subseteq {"params", "grads", "optim"}
  BY DEF Loads, FSDPLoads, MegatronLoads, Offloads, Model
<1>4. EngineTypeOK' /\ TasksOfMode'
  BY <1>1, <1>3 DEF EngineInv, EngineTypeOK, Places, TasksOfMode
<1> SUFFICES ASSUME NEW k \in Ranks, NEW c \in Ranks, Step(k, c) PROVE RankInv(k, c)'
  BY <1>1, <1>4, StepInv
<1>5. /\ at'[c] = IF c = r THEN "loaded" ELSE at[c]
      /\ at'[k] = IF k = r THEN "loaded" ELSE at[k]
      /\ actor'[k] = IF k = r THEN actor[k] \union Loads ELSE actor[k]
  BY <1>1 DEF Step, EngineInv, EngineTypeOK
<1>6. Placed(k)'
  BY <1>1, <1>5 DEF Step, RankInv, Placed
<1>7. config.offload' => Offloaded(k)'
  <2> SUFFICES ASSUME config.offload PROVE Offloaded(k)'
    BY <1>1
  <2>1. Offloaded(k)
    BY DEF Step, RankInv
  <2>2. EnterLoads' = EnterLoads
    BY <1>2 DEF Kept
  <2>3. CASE k = r
    <3>1. actor[k] = {}
      BY <1>1, <2>1, <2>3 DEF Offloaded
    <3>2. at'[k] = "loaded" /\ actor'[k] = actor[k] \union Loads
      BY <1>5, <2>3
    <3>3. actor'[k] \subseteq Offloads'
      BY <1>2, <1>3, <3>1, <3>2
    <3> QED BY <3>2, <3>3 DEF Offloaded
  <2>4. CASE k # r
    <3>1. at'[k] = at[k] /\ actor'[k] = actor[k]
      BY <1>5, <2>4
    <3>2. EnterLoads' = EnterLoads /\ Offloads' = Offloads
      BY <1>2, <2>2
    <3> QED BY <2>1, <3>1, <3>2 DEF Offloaded
  <2> QED BY <2>3, <2>4
<1>8. Frees' => Freed(k, c)'
  <2> SUFFICES ASSUME Frees PROVE Freed(k, c)'
    BY <1>2 DEF Kept
  <2>1. Freed(k, c)
    BY DEF Step, RankInv
  <2> QED BY <1>1, <1>5, <2>1 DEF Step, Freed, Training
<1>9. Refreshes' => Held(k, c)'
  <2> SUFFICES ASSUME Refreshes PROVE Held(k, c)'
    BY <1>2 DEF Kept
  <2>1. Held(k, c)
    BY DEF Step, RankInv
  <2>2. Frees' = Frees /\ Staged' = Staged
    BY <1>2 DEF Kept
  <2> QED BY <1>1, <1>5, <2>1, <2>2 DEF Held, Training
<1>10. Refreshes' => Synced(k)'
  BY <1>1, <1>2, <1>5 DEF Step, RankInv, Synced, Kept, Training
<1> QED BY <1>6, <1>7, <1>8, <1>9, <1>10 DEF RankInv

\* All ranks together run the model.
LEMMA ComputeInv == ASSUME EngineInv, Compute PROVE EngineInv'
<1>1. /\ \A j \in Ranks : at[j] = "loaded" /\ at'[j] = "computed"
      /\ \/ task = "update" /\ \A j \in Ranks : actor'[j] = actor[j] \union {"optim"}
         \/ task # "update" /\ UNCHANGED <<version, actor>>
      /\ UNCHANGED <<config, task, step, engine, engineVer>>
  BY DEF Compute
<1>2. Kept /\ Offloads' = Offloads /\ (task = "update" => "optim" \in Offloads)
  BY <1>1, SameConfig DEF EngineInv, EngineTypeOK, Offloads
<1>3. EngineTypeOK' /\ TasksOfMode'
  BY DEF Compute, EngineInv, EngineTypeOK, Places, TasksOfMode
<1> SUFFICES ASSUME NEW k \in Ranks, NEW c \in Ranks, Step(k, c) PROVE RankInv(k, c)'
  BY <1>1, <1>3, StepInv
<1>4. task \in Training
  BY <1>1 DEF Step, RankInv, Placed
<1>5. Placed(k)'
  BY <1>1, <1>4 DEF Placed
<1>6. config.offload' => Offloaded(k)'
  BY <1>1, <1>2 DEF Step, RankInv, Offloaded, Kept
<1>7. Frees' => Freed(k, c)'
  BY <1>1, <1>2 DEF Step, RankInv, Freed, Kept
<1>8. Refreshes' => Held(k, c)'
  BY <1>1, <1>2, <1>4 DEF Step, RankInv, Held, Kept, Training
<1>9. Refreshes' => Synced(k)'
  BY <1>1, <1>4 DEF Synced, Training
<1> QED BY <1>5, <1>6, <1>7, <1>8, <1>9 DEF RankInv

\* A rank offloads what it had loaded or made.
LEMMA OffloadInv == ASSUME EngineInv, NEW r \in Ranks, Offload(r) PROVE EngineInv'
<1>1. /\ at[r] = "computed" /\ at' = [at EXCEPT ![r] = "idle"]
      /\ actor' = [actor EXCEPT ![r] = IF config.offload THEN @ \ Offloads ELSE @]
      /\ UNCHANGED <<config, task, step, engine, version, engineVer>>
  BY DEF Offload
<1>2. Kept /\ Offloads' = Offloads
  BY <1>1, SameConfig DEF EngineInv, EngineTypeOK, Offloads
<1>3. EngineTypeOK' /\ TasksOfMode'
  BY <1>1 DEF EngineInv, EngineTypeOK, Places, TasksOfMode
<1>4. task \in Training
  BY <1>1, <1>2 DEF EngineInv, RankInv, Placed, Kept
<1> SUFFICES ASSUME NEW k \in Ranks, NEW c \in Ranks, Step(k, c) PROVE RankInv(k, c)'
  BY <1>1, <1>3, StepInv
<1>5. /\ at'[c] = IF c = r THEN "idle" ELSE at[c]
      /\ at'[k] = IF k = r THEN "idle" ELSE at[k]
      /\ actor'[k] = IF k = r /\ config.offload THEN actor[k] \ Offloads ELSE actor[k]
  BY <1>1 DEF Step, EngineInv, EngineTypeOK
<1>6. Placed(k)'
  BY <1>1, <1>5 DEF Step, RankInv, Placed
<1>7. config.offload' => Offloaded(k)'
  BY <1>1, <1>2, <1>5 DEF Step, RankInv, Offloaded, Kept
<1>8. Frees' => Freed(k, c)'
  <2> SUFFICES ASSUME Frees PROVE Freed(k, c)'
    BY <1>2 DEF Kept
  <2>1. Freed(k, c)
    BY DEF Step, RankInv
  <2> QED BY <1>1, <1>4, <1>5, <2>1 DEF Step, Freed, Training
<1>9. Refreshes' => Held(k, c)'
  <2> SUFFICES ASSUME Refreshes PROVE Held(k, c)'
    BY <1>2 DEF Kept
  <2>1. Held(k, c)
    BY DEF Step, RankInv
  <2>2. Frees' = Frees /\ Staged' = Staged
    BY <1>2 DEF Kept
  <2> QED BY <1>1, <1>4, <1>5, <2>1, <2>2 DEF Held, Training
<1>10. Refreshes' => Synced(k)'
  BY <1>1, <1>2, <1>4, <1>5 DEF Step, RankInv, Synced, Kept, Training
<1> QED BY <1>6, <1>7, <1>8, <1>9, <1>10 DEF RankInv

-----------------------------------------------------------------------------
\* Which call follows which, and which cannot.
Follows(next) ==
  /\ next \in Tasks
  /\ next \in Training =>
       task \in Training \union {"generate", "sleep"} \/ (~Frees /\ task = "agent")
  /\ next \in {"generate", "wake"} => task \in Training
  /\ next = "agent" => task = "wake" \/ ~Refreshes
  /\ config.mode = "sync" => next \notin {"wake", "agent", "sleep"}
  /\ config.mode = "async" => next # "generate"

LEMMA AfterFacts == ASSUME ConfigFacts, TasksOfMode, task \in Tasks PROVE Follows(After(task))
BY DEF ConfigFacts, TasksOfMode, Tasks, After, FirstTask, Training, Refreshes, Frees, Follows

\* The driver goes on when all ranks have answered.
LEMMA AdvanceInv == ASSUME EngineInv, Advance PROVE EngineInv'
<1>1. /\ task \in Tasks /\ \A j \in Ranks : at[j] = "idle"
      /\ UNCHANGED <<config, actor, engine, version, engineVer>>
      /\ \/ task = "save" /\ task' = "end" /\ at' = at
         \/ task' = After(task) /\ at' = Called(After(task))
  BY DEF Advance
<1>2. Kept
  BY <1>1, SameConfig DEF EngineInv, EngineTypeOK
<1>3. Follows(After(task))
  BY <1>1, <1>2, AfterFacts DEF EngineInv, Kept
<1>4. /\ \/ task = "save" /\ task' = "end"
         \/ Follows(task')
      /\ \A j \in Ranks : at'[j] = "idle" \/ (at'[j] = "called" /\ task' # "agent")
      /\ \A j \in Ranks : at'[j] = "idle" => task' \in {"end", "agent"}
  BY <1>1, <1>3 DEF Called
<1>5. EngineTypeOK' /\ TasksOfMode'
  <2>1. at' \in [Ranks -> Places]
    BY <1>1 DEF Called, EngineInv, EngineTypeOK, Places
  <2>2. task' \in Tasks \union {"end", "failed"}
    BY <1>1, <1>3 DEF Follows
  <2> QED BY <1>1, <1>4, <2>1, <2>2 DEF EngineInv, EngineTypeOK, TasksOfMode, Follows
<1> SUFFICES ASSUME NEW k \in Ranks, NEW c \in Ranks, Step(k, c) PROVE RankInv(k, c)'
  BY <1>1, <1>5, StepInv
<1>6. Placed(k)'
  BY <1>4 DEF Placed
<1>7. config.offload' => Offloaded(k)'
  BY <1>1, <1>4 DEF Step, RankInv, Offloaded
<1>8. Frees' => Freed(k, c)'
  <2> SUFFICES ASSUME Frees PROVE Freed(k, c)'
    BY <1>2 DEF Kept
  <2>1. Freed(k, c)
    BY DEF Step, RankInv
  <2>2. task \in Training \union {"generate", "sleep"} => engine[k] = {}
    BY <1>1, <2>1 DEF Freed
  <2> QED BY <1>1, <1>4, <2>2 DEF Freed, Follows, Tasks, Training
<1>9. Refreshes' => Held(k, c)'
  <2> SUFFICES ASSUME Refreshes PROVE Held(k, c)'
    BY <1>2 DEF Kept
  <2>1. Held(k, c)
    BY DEF Step, RankInv
  <2>2. Frees' = Frees
    BY <1>2 DEF Kept
  <2>3. task' = "agent" => engine[k] = Full
    BY <1>1, <1>4, <2>1 DEF Held, Follows
  <2> QED BY <1>1, <1>4, <2>1, <2>2, <2>3 DEF Held
<1>10. Refreshes' => Synced(k)'
  <2> SUFFICES ASSUME Refreshes PROVE Synced(k)'
    BY <1>2 DEF Kept
  <2>1. Synced(k)
    BY DEF Step, RankInv
  <2>2. task' = "agent" => engineVer[k] = version
    BY <1>1, <1>4, <2>1 DEF Synced, Follows
  <2> QED BY <1>1, <1>4, <2>2 DEF Synced
<1> QED BY <1>6, <1>7, <1>8, <1>9, <1>10 DEF RankInv

\* The driver gives up.
LEMMA FailInv == ASSUME EngineInv, Fail PROVE EngineInv'
<1>1. /\ task \in {"generate", "agent"} /\ task' = "failed"
      /\ UNCHANGED <<config, step, at, actor, engine, version, engineVer>>
  BY DEF Fail
<1>2. Kept
  BY <1>1, SameConfig DEF EngineInv, EngineTypeOK
<1>3. EngineTypeOK' /\ TasksOfMode'
  BY <1>1 DEF EngineInv, EngineTypeOK, TasksOfMode
<1> SUFFICES ASSUME NEW k \in Ranks, NEW c \in Ranks, Step(k, c) PROVE RankInv(k, c)'
  BY <1>1, <1>3, StepInv
<1>4. Placed(k)'
  BY <1>1 DEF Step, RankInv, Placed, Training
<1>5. config.offload' => Offloaded(k)'
  <2>1. at[k] \notin {"loaded", "computed"}
    BY <1>1 DEF Step, RankInv, Placed, Training
  <2> QED BY <1>1, <1>2, <2>1 DEF Step, RankInv, Offloaded, Kept
<1>6. Frees' => Freed(k, c)'
  BY <1>1, <1>2 DEF Step, RankInv, Freed, Kept, Training
<1>7. Refreshes' => Held(k, c)'
  BY <1>1, <1>2 DEF Step, RankInv, Held, Kept
<1>8. Refreshes' => Synced(k)'
  BY <1>1, <1>2 DEF Step, RankInv, Synced, Kept
<1> QED BY <1>4, <1>5, <1>6, <1>7, <1>8 DEF RankInv

\* Nothing happens to the engines.
LEMMA EngineRestInv == ASSUME EngineInv, UNCHANGED engineVars PROVE EngineInv'
BY DEF EngineInv, engineVars, EngineTypeOK, TasksOfMode, RankInv, Placed, Offloaded, Freed,
       Held, Synced, Controller, Refreshes, Frees, Staged, EnterLoads, Megatron, Offloads

LEMMA EngineNextInv == ASSUME EngineInv, [EngineNext]_engineVars PROVE EngineInv'
BY EnterInv, EnteredInv, ExitInv, LoadInv, OffloadInv, SyncWeightsInv, ComputeInv, AdvanceInv,
   FailInv, EngineRestInv DEF EngineNext, RankStep

-----------------------------------------------------------------------------
LEMMA EngineInvExcludes == EngineInv => MemoryExclusive
<1> SUFFICES ASSUME EngineInv, Frees, config.offload, NEW k \in Ranks, "kv" \in engine[k]
             PROVE  /\ "optim" \notin actor[k]
                    /\ "grads" \in actor[k] => Megatron /\ config.backend = "sglang"
                    /\ config.backend = "vllm" => "params" \notin actor[k]
  BY DEF MemoryExclusive
<1>1. PICK c \in Ranks : RankInv(k, c)
  BY ControllerFacts DEF EngineInv, EngineTypeOK
<1>2. at[k] \in Places /\ actor[k] \subseteq {"params", "grads", "optim"}
  BY DEF EngineInv, EngineTypeOK
<1>3. at[k] \notin {"loaded", "computed"}
  BY <1>1 DEF RankInv, Placed, Freed
<1>4. CASE actor[k] = {}
  BY <1>4
<1>5. CASE at[k] \in {"syncing", "synced"}
  <2>1. config.backend # "vllm"
    BY <1>1, <1>5 DEF RankInv, Freed
  <2>2. config.backend = "sglang"
    BY <2>1, ConfigOK DEF EngineInv, EngineTypeOK, ConfigFacts
  <2>3. actor[k] \subseteq EnterLoads
    BY <1>1, <1>5 DEF RankInv, Offloaded
  <2> QED BY <2>1, <2>2, <2>3 DEF EnterLoads
<1> QED BY <1>1, <1>2, <1>3, <1>4, <1>5 DEF RankInv, Offloaded, Places

\* Training and rollout take turns on a GPU: whichever engine, strategy and number of ranks.
THEOREM MemoryTakesTurns == EngineSpec => []MemoryExclusive
<1>1. EngineInv /\ [EngineNext]_engineVars => EngineInv'
  BY EngineNextInv
<1> QED BY EngineInitInv, <1>1, EngineInvExcludes, PTL DEF EngineSpec

-----------------------------------------------------------------------------
\* A step updates the actor's weights once: between updates there were as many as steps are
\* over, and no engine has weights of an update to come.
Counts ==
  /\ step \in 1..Steps /\ version \in 1..step + 1
  /\ \/ version <= step
     \/ task \in {"save", "end"}
     \/ task = "update" /\ \A k \in Ranks : at[k] \in {"computed", "idle"}
  /\ \A k \in Ranks : engineVer[k] \in 0..version

\* There is a rank to wait for.
LEMMA SomeRank == \E k \in Ranks : TRUE
<1>1. PICK s \in Servers : TRUE
  BY HybridAssumption
<1>2. <<s, 1>> \in Ranks
  BY <1>1, HybridAssumption DEF Ranks
<1> QED BY <1>2

LEMMA CountsInit == EngineInit => Counts
BY HybridAssumption DEF EngineInit, EngineLoaded, Counts

LEMMA CountsNext ==
  ASSUME EngineInv, Counts, [EngineNext]_engineVars PROVE Counts'
<1>1. at \in [Ranks -> Places] /\ engineVer \in [Ranks -> Nat] /\ \A k \in Ranks : Placed(k)
  BY ControllerFacts DEF EngineInv, EngineTypeOK, RankInv
<1>2. step \in Nat /\ version \in Nat /\ Steps \in Nat
  BY HybridAssumption DEF Counts
<1>3. ASSUME NEW k \in Ranks, RankStep(k) PROVE Counts'
  <2>1. UNCHANGED <<task, step, version, engineVer>>
    BY <1>3 DEF RankStep, Enter, Entered, Exit, Load, Offload
  <2>2. task = "update" => Load(k) \/ Offload(k)
    BY <1>1, <1>3 DEF RankStep, Enter, Entered, Exit, Placed
  <2>3. ASSUME task = "update", version > step PROVE \A j \in Ranks : at'[j] \in {"computed", "idle"}
    <3>1. \A j \in Ranks : at[j] \in {"computed", "idle"}
      BY <1>2, <2>3 DEF Counts
    <3> QED BY <1>1, <2>2, <2>3, <3>1 DEF Load, Offload
  <2> QED BY <1>2, <2>1, <2>3 DEF Counts
<1>4. CASE SyncWeights
  <2>1. UNCHANGED <<task, step, version>> /\ \A k \in Ranks : engineVer'[k] = version
    BY <1>4 DEF SyncWeights
  <2>2. task # "update"
    BY <1>1, <1>4, SomeRank DEF SyncWeights, Placed
  <2> QED BY <1>2, <2>1, <2>2 DEF Counts
<1>5. CASE Compute
  <2>1. UNCHANGED <<task, step, engineVer>> /\ \A k \in Ranks : at'[k] = "computed"
    BY <1>5 DEF Compute
  <2>2. task = "update" => version <= step
    BY <1>5, SomeRank DEF Compute, Counts
  <2>3. version' = IF task = "update" THEN version + 1 ELSE version
    BY <1>5 DEF Compute
  <2> QED BY <1>2, <2>1, <2>2, <2>3 DEF Counts
<1>6. CASE Advance
  <2>1. UNCHANGED <<version, engineVer>>
    BY <1>6 DEF Advance
  <2>2. CASE task = "save" /\ step = Steps
    BY <1>2, <1>6, <2>1, <2>2 DEF Advance, Counts
  <2>3. CASE task = "save" /\ step # Steps
    BY <1>2, <1>6, <2>1, <2>3 DEF Advance, Counts
  <2>4. CASE task # "save"
    <3>1. step' = step /\ task' = After(task) /\ task \in Tasks
      BY <1>6, <2>4 DEF Advance
    <3>2. task = "update" => task' = "save"
      BY <3>1 DEF After
    <3> QED BY <1>2, <2>1, <2>4, <3>1, <3>2 DEF Counts, Tasks
  <2> QED BY <2>2, <2>3, <2>4
<1>7. CASE Fail
  BY <1>7 DEF Fail, Counts
<1>8. CASE UNCHANGED engineVars
  BY <1>8 DEF engineVars, Counts
<1> QED BY <1>3, <1>4, <1>5, <1>6, <1>7, <1>8 DEF EngineNext

LEMMA CountsAlways == EngineSpec => []Counts
<1>1. EngineInv /\ [EngineNext]_engineVars => EngineInv'
  BY EngineNextInv
<1>2. EngineInv /\ Counts /\ [EngineNext]_engineVars => Counts'
  BY CountsNext
<1> QED BY EngineInitInv, CountsInit, <1>1, <1>2, PTL DEF EngineSpec
=============================================================================
