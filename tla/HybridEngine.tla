---------------------------- MODULE HybridEngine ----------------------------
(***************************************************************************)
(* The actor and the rollout engine on the same GPUs.  Each rank of        *)
(* verl/workers/fsdp_workers.py or megatron_workers.py holds a shard of    *)
(* the actor, loaded for a call and offloaded after it, and a part of the  *)
(* rollout engine of its tensor-parallel group, whose memory is taken when *)
(* the rollout is entered and given back when it is left (fsdp_vllm.py,    *)
(* fsdp_sglang.py, megatron_vllm.py and megatron_sglang.py of              *)
(* verl/workers/sharding_manager).                                         *)
(* Entering copies the actor's weights into the engine with collectives    *)
(* all ranks take part in.                                                 *)
(*                                                                         *)
(* The driver calls all ranks and waits for all of them                    *)
(* (verl/trainer/ppo/ray_trainer.py).  In a synchronous job one call       *)
(* enters, generates and leaves; in an asynchronous one the servers are    *)
(* woken up and put to sleep by calls of their own                         *)
(* (verl/experimental/agent_loop/agent_loop.py), not at all when the       *)
(* engine's memory is not freed between rollouts.                          *)
(***************************************************************************)
EXTENDS Naturals, FiniteSets

CONSTANTS
  Servers,  \* rollout engines
  Tp,       \* ranks of each
  Steps,    \* total_training_steps
  Configs   \* configurations of the job

ASSUME HybridAssumption ==
  /\ IsFiniteSet(Servers) /\ Servers # {}
  /\ Tp \in Nat \ {0} /\ Steps \in Nat \ {0}
  /\ Configs \subseteq
       [mode : {"sync", "async"},     \* rollout.mode
        strategy : {"fsdp", "megatron"},  \* actor.strategy
        backend : {"vllm", "sglang"}, \* rollout.name
        free_cache : BOOLEAN,         \* rollout.free_cache_engine
        multi_stage : BOOLEAN,        \* rollout.multi_stage_wake_up
        offload : BOOLEAN]            \* param_offload and optimizer_offload of the actor

Ranks      == Servers \X (1..Tp)
Group(s)   == {s} \X (1..Tp)
Leader(k)  == k[2] = 1

VARIABLES
  config,     \* the configuration
  task,       \* what the driver has called, or "end", or "failed"
  step,       \* global_steps
  at,         \* where each rank is in its call
  actor,      \* what of the actor each rank has on its GPU
  engine,     \* what of the rollout engine is on each rank's GPU
  version,    \* of the actor's weights: 1 those of the model, one more with each update
  engineVer   \* of the weights in each rank's engine: 0 those nobody trained

engineVars == <<config, task, step, at, actor, engine, version, engineVer>>

Frees == config.free_cache
Tasks == {"generate", "wake", "agent", "sleep", "log_prob", "update", "save"}

FirstTask == IF config.mode = "sync" THEN "generate" ELSE IF Frees THEN "wake" ELSE "agent"

After(t) == CASE t = "wake"     -> "agent"
              [] t = "agent"    -> IF Frees THEN "sleep" ELSE "log_prob"
              [] t \in {"generate", "sleep"} -> "log_prob"
              [] t = "log_prob" -> "update"
              [] t = "update"   -> "save"
              [] OTHER          -> FirstTask

\* The driver calls task t of all ranks; generation by servers is not a call of ranks.
\* Mutant of Called: the engines are entered one after the other.
CalledFirst(t) ==
  LET first == CHOOSE s \in Servers : TRUE
  IN  [k \in Ranks |-> IF t = "agent" \/ (t \in {"wake", "generate"} /\ k[1] # first)
                         THEN "idle" ELSE "called"]
Called(t) == [k \in Ranks |-> IF t = "agent" THEN "idle" ELSE "called"]

\* What is on the GPU once the model and the optimizer are built.  Megatron has a buffer of
\* gradients and the optimizer's own copy of the parameters from the beginning.
Megatron == config.strategy = "megatron"
Built    == {"params"} \union (IF Megatron THEN {"grads", "optim"} ELSE {})

\* AsyncvLLMServer loads the weights of the model; any other engine starts with dummies
\* (load_format, as in every ppo_trainer.yaml).
EngineLoaded == IF config.mode = "async" /\ config.backend = "vllm" THEN 1 ELSE 0

EngineInit ==
  /\ config \in Configs
  /\ task = FirstTask /\ step = 1
  /\ at = Called(FirstTask)
  /\ actor = [k \in Ranks |-> IF config.offload THEN {} ELSE Built]
  /\ engine = [k \in Ranks |-> IF Frees THEN {} ELSE {"weights", "kv"}]
  /\ version = 1 /\ engineVer = [k \in Ranks |-> EngineLoaded]

-----------------------------------------------------------------------------
(* Entering the rollout.                                                   *)

\* The ranks whose engine memory rank k takes and gives back: its own under vLLM, under
\* SGLang tensor-parallel rank 0 does it for its engine.
Controls(k) == IF config.backend = "vllm" THEN {k} ELSE IF Leader(k) THEN Group(k[1]) ELSE {}

TakeMemory(k, what) ==
  engine' = [j \in Ranks |-> IF Frees /\ j \in Controls(k) THEN engine[j] \union what ELSE engine[j]]

\* vLLM takes the memory of the weights first, SGLang if multi_stage_wake_up, of which its
\* manager for Megatron knows nothing.
Staged == config.backend = "vllm" \/ (config.multi_stage /\ ~Megatron)

\* The manager for Megatron and SGLang loads the model with its gradients.
EnterLoads ==
  {"params"} \union (IF Megatron /\ config.backend = "sglang" THEN {"grads"} ELSE {})

\* offload_fsdp_model_to_cpu, offload_megatron_model_to_cpu
Model == {"params", "grads"}

Enter(k) ==
  /\ task \in {"generate", "wake"} /\ at[k] = "called"
  /\ at' = [at EXCEPT ![k] = "syncing"]
  /\ actor' = [actor EXCEPT ![k] = @ \union (IF config.offload THEN EnterLoads ELSE {})]
  /\ TakeMemory(k, IF Staged THEN {"weights"} ELSE {"weights", "kv"})
  /\ UNCHANGED <<config, task, step, version, engineVer>>

\* update_params, update_weights: every rank gathers the parameters of all.
\* Mutant of SyncWeights: an engine that was given weights keeps them.
SyncWeightsOnce ==
  /\ \A k \in Ranks : at[k] = "syncing"
  /\ engineVer' = IF step = 1 THEN [k \in Ranks |-> version] ELSE engineVer
  /\ at' = [k \in Ranks |-> "synced"]
  /\ UNCHANGED <<config, task, step, actor, engine, version>>
SyncWeights ==
  /\ \A k \in Ranks : at[k] = "syncing"
  /\ engineVer' = [k \in Ranks |-> version]
  /\ at' = [k \in Ranks |-> "synced"]
  /\ UNCHANGED <<config, task, step, actor, engine, version>>

\* The parameters leave the GPU before the cache takes its memory.
Entered(k) ==
  /\ at[k] = "synced"
  /\ at' = [at EXCEPT ![k] = IF task = "wake" THEN "idle" ELSE "awake"]
  /\ actor' = [actor EXCEPT ![k] = IF config.offload THEN @ \ Model ELSE @]
  /\ TakeMemory(k, IF Staged THEN {"kv"} ELSE {})
  /\ UNCHANGED <<config, task, step, version, engineVer>>

\* A rank leaves the rollout: after its part of generate, or called to sleep.
Exit(k) ==
  /\ \/ task = "generate" /\ at[k] = "awake"
     \/ task = "sleep" /\ at[k] = "called"
  /\ at' = [at EXCEPT ![k] = "idle"]
  /\ engine' = [j \in Ranks |-> IF Frees /\ j \in Controls(k) THEN {} ELSE engine[j]]
  /\ UNCHANGED <<config, task, step, actor, version, engineVer>>

-----------------------------------------------------------------------------
(* compute_log_prob, update_actor and save_checkpoint.                     *)

\* load_fsdp_optimizer has nothing to load before the first update.
FSDPLoads == {"params"} \union (IF task = "update" /\ version > 1 THEN {"optim"} ELSE {})

\* compute_log_prob loads no gradients.
MegatronLoads == {"params"} \union (IF task \in {"update", "save"} THEN {"grads"} ELSE {})
                            \union (IF task = "update" THEN {"optim"} ELSE {})

Loads == IF ~config.offload THEN {} ELSE IF Megatron THEN MegatronLoads ELSE FSDPLoads

Load(k) ==
  /\ task \in {"log_prob", "update", "save"} /\ at[k] = "called"
  /\ at' = [at EXCEPT ![k] = "loaded"]
  /\ actor' = [actor EXCEPT ![k] = @ \union Loads]
  /\ UNCHANGED <<config, task, step, engine, version, engineVer>>

\* The passes over the model; an update steps the optimizer, which then has a state.
Compute ==
  /\ \A k \in Ranks : at[k] = "loaded"
  /\ at' = [k \in Ranks |-> "computed"]
  /\ IF task = "update"
       THEN version' = version + 1 /\ actor' = [k \in Ranks |-> actor[k] \union {"optim"}]
       ELSE UNCHANGED <<version, actor>>
  /\ UNCHANGED <<config, task, step, engine, engineVer>>

\* Mutant of Offloads: an update leaves the optimizer state where it was made.
OffloadsParams == Model
Offloads       == Model \union (IF task = "update" THEN {"optim"} ELSE {})

Offload(k) ==
  /\ at[k] = "computed"
  /\ at' = [at EXCEPT ![k] = "idle"]
  /\ actor' = [actor EXCEPT ![k] = IF config.offload THEN @ \ Offloads ELSE @]
  /\ UNCHANGED <<config, task, step, engine, version, engineVer>>

-----------------------------------------------------------------------------
(* The driver.                                                             *)

\* All ranks have answered: the next call, or the next step, or the end.
Advance ==
  /\ task \in Tasks /\ \A k \in Ranks : at[k] = "idle"
  /\ IF task = "save" /\ step = Steps
       THEN task' = "end" /\ UNCHANGED <<step, at>>
       ELSE /\ task' = After(task) /\ at' = Called(After(task))
            /\ step' = IF task = "save" THEN step + 1 ELSE step
  /\ UNCHANGED <<config, actor, engine, version, engineVer>>

\* The answer of a worker is an exception, which the driver does not handle.
Fail ==
  /\ task \in {"generate", "agent"}
  /\ task' = "failed"
  /\ UNCHANGED <<config, step, at, actor, engine, version, engineVer>>

RankStep(k) == Enter(k) \/ Entered(k) \/ Exit(k) \/ Load(k) \/ Offload(k)

EngineNext == (\E k \in Ranks : RankStep(k)) \/ SyncWeights \/ Compute \/ Advance \/ Fail

EngineSpec == EngineInit /\ [][EngineNext]_engineVars

-----------------------------------------------------------------------------
(***************************************************************************)
(* Properties.                                                             *)
(***************************************************************************)
\* While its memory is freed between rollouts and the actor is offloaded, an engine never
\* has its cache on a GPU together with optimizer state, nor together with gradients unless
\* Megatron feeds SGLang; with vLLM not together with the actor's parameters either: the GPU
\* never holds the peak of training and of rollout.
MemoryExclusive ==
  Frees /\ config.offload =>
    \A k \in Ranks : "kv" \in engine[k] =>
      /\ "optim" \notin actor[k]
      /\ "grads" \in actor[k] => Megatron /\ config.backend = "sglang"
      /\ config.backend = "vllm" => "params" \notin actor[k]
=============================================================================
