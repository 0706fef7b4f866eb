# A TLA+ verification of verl

verl is a library for reinforcement learning of language models: one driver process
runs the training loop and calls groups of worker processes (actor, critic, rollout
engine, reward) that each hold a part of a model. This directory models the parts of it
that keep state, act concurrently or survive failures, checks them with TLC on small
instances, and proves the most important results with TLAPS for all instances.
Paths below are relative to `src/workspace/verl/`.

Contents: [inventory](#1-inventory) - [plan](#2-plan) - [modules and the code](#3-modules-and-the-code)
- [runs](#4-runs) - [fairness](#5-fairness) - [proofs](#6-proofs) - [findings](#7-findings)
- [not modelled](#8-not-modelled).

## 1. Inventory

### 1.1 Components

| component | state | operations | what makes it correct |
|---|---|---|---|
| PPO trainer, checkpoints (`trainer/ppo/ray_trainer.py`, `utils/checkpoint/*`) | `global_steps`, the dataloader's position, on each rank 0 the list of saved paths; on disk the directories `global_step_<s>` (actor and critic shards, `data.pt`) and the tracker file | `fit`, `_save_checkpoint`, `_load_checkpoint`, `save_checkpoint`, `load_checkpoint`, `remove_previous_save_local_path`, `find_latest_ckpt_path` | what the tracker names can be loaded, wherever the job died; a resumed job has actor, critic and data of one and the same save; work lost is bounded; retention is bounded; the job ends |
| SFT trainer, checkpoints (`trainer/fsdp_sft_trainer.py`) | the same with one group, no driver, an epoch counter | `fit`, `save_checkpoint`, `load_checkpoint` | the same; resuming in the middle of an epoch skips and repeats nothing |
| Length balancing (`utils/seqlen_balancing.py`) | the heap of partial solutions | `karmarkar_karp`, `get_seqlen_balanced_partitions` | every row in exactly one partition, none empty, sums nearly equal |
| Dynamic micro-batches (`utils/seqlen_balancing.py`, `workers/actor/dp_actor.py`) | per rank the count and list of micro-batches, the outputs | `rearrange_micro_batches`, the loop over them, `restore_dynamic_batch` | ranks run equally many (each forward is a collective); outputs come back in row order |
| `DataProto` (`protocol.py`) | columns of equal length | `chunk`, `concat`, `repeat`, `reorder`, `union`, `pad`, `unpad` | columns stay aligned; padding vanishes again |
| Dispatch and collect (`single_controller/*`) | which worker holds which rows | the dispatch modes, the call functor | each row computed once per replica, results in the order of the batch |
| Sharding managers, the data (`workers/sharding_manager/*`) | the rows of a group | `preprocess_data`, `postprocess_data` | the group's rows are gathered and each member returns its own share |
| The step of PPO (`RayPPOTrainer.fit`) | the columns of the batch | generate, balance, reward (inline or as a Ray task), log probabilities, values, advantages, updates | the batch that is reordered in place fits with every column that joins it later |
| Tools, rate limiters (`tools/*`) | one named limiter with a semaphore, its unanswered acquires and unexecuted releases; per process and tool an execution actor with its queue; instances per conversation | `create`, `execute`, `release`, the limiter's `acquire` and `release` | permits taken are returned, no more; never more calls inside than the limit; instances are released however a conversation ends |
| SGLang multi-turn rollout (`workers/rollout/sglang_rollout`, `schemas.py`) | a request's state, messages, ids, masks, positions, turns | `_async_rollout_a_request`, `add_*_message`, `finalize` | the request ends; the tokens are those of its messages, each rendered once and in order; the model is trained on what it generated and nothing else |
| Agent loop and server manager (`experimental/agent_loop`) | requests counted per server, sticky routes, the loop of each row | `generate_sequences`, `_choose_server`, `run`, `_call_tool` | a conversation stays on its server; a response ends with generated tokens; failures end the job, not hang it |
| Hybrid engine (`workers/*_workers.py`, `workers/sharding_manager/*`) | per rank what of actor and engine is on the GPU, the version of the engine's weights | the calls of the driver, `__enter__`, `__exit__`, `wake_up`, `sleep`, load and offload | an engine serves the last weights; training and rollout never hold the GPU together; no rank is left in a collective |
| vLLM asynchronous server and executor | sockets between engine and workers | `collective_rpc`, `_loop_forever` | every call is answered |
| Megatron checkpoints, copies of HDFS files (`utils/checkpoint/megatron_checkpoint_manager.py`, `utils/fs.py`) | directories, lock files | save, load, copy | as for FSDP; a copy taken for complete is complete |

`PROJECT.json` lists the remaining parts (reward functions, models, numerics, tracking,
configuration, vendored code), which keep no state of interest.

### 1.2 Interactions

* The driver calls a worker group and waits for all of its workers; arguments are cut
  into parts and results joined by the dispatch mode of the method.
* Workers of a group meet in collectives: the barriers of `save_checkpoint`, the
  `all_gather` of `preprocess_data`, the gathering of parameters in every forward of FSDP,
  the `all_reduce` of micro-batch counts. One that does not come leaves the others waiting.
* Rank 0 alone rotates checkpoints; the driver alone writes the dataloader state and the
  tracker, after all groups have returned. The disk is what a crash leaves of all that.
* The reward of a batch may be computed by a Ray task while the driver goes on.
* Actor and rollout engine share GPUs: a rank loads, offloads, takes and gives back memory
  around each call, and the engine's weights are copied by a collective of all ranks when it is
  entered.
* Conversations of many rows interleave in one event loop per process; their tool calls go to
  actors, which all ask one named limiter.

### 1.3 What is hard here

Crashes between any two file operations of several processes, followed by runs that find
what is left; rotation that deletes while others write; the end of a run and of an epoch
meeting the end of a pass of the dataloader; numbers of rows that do not divide; collectives
entered a different number of times; permutations that must be inverted; two dispatch
layouts for one worker group; weights that have to reach an engine by a path that differs between
modes; tool calls that fail, or return, while other calls of the conversation are under way; limits of
turns and tokens that end a conversation at different places. `PROJECT.json` has each such hazard at its line.

## 2. Plan

In the order of importance; 1 to 7 exist, 8 and 9 are to come.

1. `CheckpointManager`, `PPOCheckpoint`, refining the abstract `CheckpointStore`; proofs of the
   invariants, of what a crash costs and of the refinement.
2. `SFTCheckpoint` over the same manager and store, with the same proofs and that of the rotation bound.
3. `KarmarkarKarp`, `MicroBatches`; proofs about one merge, and of every invariant of `MicroBatches`.
4. `DataProto`, `PPODataFlow` (which composes `DataProto` and `KarmarkarKarp`); proofs about the operations
   on rows and the estimators, and of every invariant of `PPODataFlow`.
5. `ToolPool`, refining the abstract `RateLimiter`; proofs of the invariant and the refinement.
   `Conversation`, `RolloutRows` and the two that run conversations, `MultiTurnRollout`
   and `AgentLoop`.
6. `HybridEngine` with a proof, and `RolloutStep`, the composition of everything in 5 and 6, with the
   proof that it keeps the promises of both, and that its conversations are the renderings of their messages.
7. The rest of a step in `PPODataFlow`: configurations of the job, agent loops, REMAX baselines, the reward
   model, the updates with their mini-batches, and `Advantages`, the estimators.
8. Megatron checkpoints over `CheckpointStore` (removal by all ranks, asynchronous save),
   and the copy of HDFS files by two processes.
9. The request and reply sockets between the vLLM engine and its workers.

Proofs to come: of the components of 8 and 9.

## 3. Modules and the code

`PROJECT.json` maps every definition to its lines. Definitions keep the names of the
code where there is one.

### 3.1 Checkpoints

`CheckpointManager` is `FSDPCheckpointManager` on all ranks of the worker groups. A
*shard* stands for the model, optimiser and extra files one rank writes into a directory.
Its content is the number of the run that wrote it, `Absent`, or `Torn` between opening and
closing. `rpc[r]` is where a rank is in the call:

| action | code |
|---|---|
| `RemoveOldFile` | one unlink of `rmtree` in `remove_previous_save_local_path`, on rank 0 |
| `EnterSave` | `local_mkdir_safe`, the list cut at `keep_start`, the first barrier reached |
| `BeginShard`, `EndShard` | `torch.save` starts (behind the barrier) and ends |
| `ReturnSave` | the second barrier passed, the path appended |
| `LoadShard`, `LoadRaises` | `load_checkpoint` of a rank reads its files, or raises |

`PPOCheckpoint` extends it with the driver: `pc` is the statement of `fit`,
`_load_checkpoint` or `_save_checkpoint` it is at. `Start` is the beginning of a run,
in one of the three resume modes, `TrainStep(esi)` one iteration of the loop with the condition that decides about a
save (`esi` is the expiry of the instance, a matter of the clock), `NextEpoch` the end of a pass
of the dataloader, `SaveGroup`/`GroupSaved` the call on the actor, then the critic,
`OpenData`/`WriteData`/`OpenTracker`/`WriteTracker` the two files the driver writes.
`Crash` loses everything in memory at any location and leaves the disk. `drawn` counts the
batches behind the training state and `loaded`, `dataFrom` name the run whose save the
state comes from: they exist to say what a resumed run has trained on.

`CheckpointStore` is the promise: the last committed step survives every stop, a job that
comes up continues from exactly that step, with state saved by one run. `ImplementsStore`
is the refinement, with the commit at the moment the tracker is truncated (what a crash right
there does is the finding `ppo_torn_tracker`).

`SFTCheckpoint` is the same for `FSDPSFTTrainer`. Shards and `data.pt` lie in one directory, so
rotation removes both (`RemoveOldData`), `RenameTracker` replaces the tracker at once, and
`StartLoop` is the epoch the loop starts with.

### 3.2 Balancing and micro-batches

`KarmarkarKarp` has the classes `Set` (a bin: its sum and items) and `State` (a solution: `k`
bins in decreasing order) and one round of the loop: `Popped` are the two solutions with
the largest spread, `Merge` pairs the largest bin of one with the smallest of the other
and sorts, `Round` is the heap afterwards. `Singletons` and `Rows` are the two ways to start,
without and with `equal_size`.

`MicroBatches` runs it on every data-parallel rank: `Count` (the local count), `AllReduce`
(the maximum of all ranks, rounded up to a multiple, and the assertion that there are rows
enough), `MergeTwo` (a round), `Arrange` (the partitions sorted by work, heaviest first), `RunMicroBatch`
(a forward, which needs every rank to come to its own micro-batch of that number) and
`Restore` (`restore_dynamic_batch` with the inverted index). Sequence lengths do not exceed
`max_token_len`, which the code asserts (`utils/seqlen_balancing.py:277`).

### 3.3 The data flow of a step

`DataProto` has the row operations of `protocol.py`, on one column. `PPODataFlow` follows a batch
through `fit` or `_validate`. A cell is the number of the row of the generation batch it was
computed from, so that columns fit together when they agree in each row. `Call` is the
dispatch of a method to the worker group (or the assertion of `chunk`, `"raised"`), `Gather` and
`Return` the `preprocess_data` and `postprocess_data` of a worker around its computation,
`Generated`, `BaselineGenerated`, `Computed` and `Updated` the collect and what becomes of it. `Union` is
`DataProto.union`, which raises where the batch has the column with other values; `Assign` is an assignment to a column. In a
REMAX job only the tensors of the greedy rollout are popped again, so that the non-tensor columns a rollout adds (`NonTensor`: the
number of turns of an agent loop, the request ids of the multi-turn SGLang rollout) must be the same in the sampled
one (`SameNonTensor`). Those that sampling and greedy rollout take from the prompts are the same by construction and left out. The rollout is dispatched one
part per worker, or per agent loop (`Callees`); a Megatron method one part per data-parallel replica (`DpRank`) and
collects from one worker of each (`Senders`). `StartBalance`, `BalanceRound`, `EndBalance` are
`_balance_batch` (which raises when the rows do not make parts of equal size, `utils/seqlen_balancing.py:102`); `Reward(async)` and `RewardTask` the reward function inline or as a task, `AwaitReward`
its `ray.get`. `Accepted` is the condition of `_validate_config` on the batch.

`job` is the configuration: the layout, `rollout.n`, the estimator with `gamma` and `lam`, what the job has
(reward model, reference policy, agent loops, tools) and the mini-batches. `Steps` are the calls of `fit` after
balancing in their order, `Uses` says which of them the job makes, and `pc` goes through those (`From`, `After`). An update
leaves in `trained` the mini-batches each worker made of its rows (`MiniBatches`: `ppo_epochs` times over `split`,
or over Megatron's iterator, which asserts that they are full).

`Advantages` are the estimators of `core_algos.py`, for a batch whose responses have a mask and
rewards and values per token. Scores are integers and an advantage is a fraction; `masked_whiten` and the division by a
standard deviation, which rescale without regard to the response, are left out. Below the line are the definitions of
the estimators in closed form (`IsAdvantage`: GAE as a discounted sum of TD errors over the tokens the model
generated, GRPO, RLOO and OPO as mean leads over the other responses). `ComputeAdvantage` gives each row what the
columns of the batch have in its place, `AdvantagesRight` compares with what the responses to the prompt are
entitled to. In a multi-turn job one token of each longer response is a tool's.

Taken as configured: `balance_batch` on (the default), `critic.enable` left to the estimator, `use_kl_in_reward` off,
`use_dynamic_bsz` off and micro-batches of one row for the checks of sizes, mini-batches of actor and critic, and their
layouts, the same (the defaults), no shuffling of Megatron's mini-batches, `VERL_AUTO_PADDING` off (the default).

### 3.4 Tools

`ToolPool` is the machinery of `sandbox_fusion_tools.py` and `search_tool.py` (they differ in what a
call that raised returns). `call[<<r, t>>]` is the call of tool `t` by conversation `r`:

| action | code |
|---|---|
| `Submit` | the coroutines of one message gathered: `execution_pool.execute.remote`, queued with the pool of this process |
| `StartCall` | a free thread of the execution actor takes the call, `ExitStack.callback(release.remote)`, `ray.get(acquire.remote)` |
| `Grant` | the limiter's acquire thread passes the semaphore for the oldest request |
| `Execute` | the function returns or raises; the callback sends a release nobody waits for |
| `PutBack` | the limiter executes a release |
| `Create`, `Release` | the instance dictionary of the tool |

The limiter is a named actor made with `get_if_exists`: `limit` is the limit of whichever tool asked first.
`RateLimiter` is the promise (`Enter`, `Leave`, at most `cap` inside), and `LimiterRefined` the
refinement with `inside <- Holding`: `Grant` is `Enter`, `Execute` is `Leave`, all else stutters.

### 3.5 Conversations

`Conversation` is the token bookkeeping of `AsyncRolloutRequest`. A token is its kind, which is all that
masks and positions depend on: `NewRequest`, `Update` (`_update_input_ids`), `ForGeneration`
(`get_generation_prompt_ids`), `AddUser`, `AddAssistant`, `AddToolResponses`, `Finalized`. `RenderEach` is
the reference: every message rendered on its own, one after the other. That is not the chat template applied to
all messages at once, and nothing here claims that the two agree: a template may render a message by its context (those of
QwQ-32B and Qwen3 are named in `trainer/config/rollout/rollout.yaml:148-152`). `finalize` compares the
two (`schemas.py:571-640`) and only logs a warning; that check changes no state and is left out.

`RolloutRows` has what a row has in both kinds of rollout: its phase, tokens and turns, the
tools its last message calls, and `broken`, the processes whose batch an exception has ended.
`MultiTurnRollout` has an action per await of `_async_rollout_a_request`: `HandlePending`,
`AskEngine`, one action per kind of answer (`AnswerCut`, `AnswerWithCalls`, `AnswerMalformed`,
`AnswerPlain`), `ToolsAnswered`, `Interact` and `Score` (rewards, release, `finalize`). `AgentLoop` has
`Begin` and `Replies` of `ToolAgentLoop.run`, `CallReturns` and `ToolsGathered` of `_call_tool` and the
gather around it, and `Choose` of the server manager.

### 3.6 Engine and actor

`HybridEngine` has the driver's call (`task`), the place of each rank in it (`at`), what of the actor and
of the engine is on each GPU, and the version of both weights. A rank goes through `Enter`,
`SyncWeights` (of all ranks), `Entered` and `Exit` for the rollout and `Load`, `Compute` (of
all ranks) and `Offload` for the rest. A configuration chooses synchronous or asynchronous rollout,
FSDP or Megatron, vLLM or SGLang, `free_cache_engine`, `multi_stage_wake_up` and offloading; what each
sharding manager does in which order follows from that (`Controls`, `Staged`, `EnterLoads`).

`RolloutStep` joins them: `RolloutRank0` lets a row be begun when the ranks of its engine are
awake, `AgentWorker` runs rows while the driver waits for the agent loops, `Barrier` keeps the ranks
of a synchronous rollout in it until every row is completed, `Driver` goes on when all have answered and starts the
next batch, `DriverRaises` ends the job on an exception of a worker.

## 4. Runs

All bounds are constants or guards: `MaxStep`, `MaxLife` (runs of the job), `BatchSize`,
`NumWorkers`, `TrainRows`. Deadlock is not checked, because every modelled system stops: the
job ends, or the step does. That it ends *well* is what the liveness properties say.

| run | instance | states | shows |
|---|---|---|---|
| `ppo_auto` | two ranks, actor keeps 2, critic keeps all, save every 2 steps, epochs of 2 steps, 3 steps in total, 3 runs, mode `auto`, a crash anywhere except between truncating and writing the tracker | 71,936 | the published checkpoint is whole (`PublishedComplete`), training continues from one save (`ResumeConsistent`) and from the right batch (`DataAligned`), a crash costs fewer than `save_freq` steps (`BoundedLoss`), a job that ends has published its last step, the job ends once crashes do, the store is implemented, and `IInv` of the proofs holds |
| `ppo_any_mode` | one group that keeps 2, MaxStep 7, all modes, crashes at every location | 639,510 | no run keeps more than `max_ckpt_to_keep` directories at any instant (`RotationBound`), the directory the tracker names exists (`PublishedIsFound`) |
| `sft_auto` | two ranks, keeps 2, save every 2 steps, epochs of 3, 6 steps, 3 runs | 4,594 | the same properties of the SFT trainer |
| `micro_batches` | two ranks, four rows each of 1, 2 or 5 tokens, limit 5, counts rounded up to multiples of 1 or 3 | 98,621 | rows in exactly one bin and bins filled before they are doubled (`SpreadThin`), balanced within one row (`Balanced`), order restored, nobody waits in a collective |
| `data_flow` | four workers, 12 responses, validations of 1, 3, 4 and 6 rows, four vectors of lengths, sixteen jobs: FSDP, Ulysses 2, Megatron tp 2, Megatron pp 2, three agent loops; all estimators, 1 to 4 responses per prompt, 1 or 2 epochs; five of the jobs are accepted and raise, always or for some lengths | 24,046 | columns fit together, advantages are those of the estimator (`AdvantagesRight`), each response exactly once, workers balanced, each response trained by exactly one replica once per epoch in as many optimizer steps everywhere, the step ends: raising in the cases of `Asserted`, done in all others |
| `rollout_step` | two rows, tools sandbox (limit 1) and search (limit 2), two engines of two ranks, 2 steps; four jobs: synchronous FSDP + SGLang that frees its memory in stages, the same that keeps it, synchronous Megatron + SGLang, asynchronous Megatron + vLLM | 578,160 | the limiter is refined and loses no permit; conversations are their messages rendered one by one, and responses end with generated tokens; engines serve the last weights (`ServedFresh`) and share the GPU (`MemoryExclusive`); instances are released; only a failing tool ends a job; the job ends |
| `ppo_torn_tracker`, `ppo_keep_one`, `sft_epoch_end`, `micro_token_limit`, `data_flow_accepted`, `async_stale_weights` | the smallest instance of each | | counterexamples, see [findings](#7-findings) |

Why the bounds are enough:

* *Checkpoints.* Three runs are a run that publishes, one that resumes, is killed in the middle of
  a save and leaves a half-written directory, and one that resumes over what both left.
  Three saves in one run make the rotation with a limit of 2 delete; save period 2 with
  epochs of 2 (PPO) and of 3 (SFT) puts saves at, and away from, the end of an epoch. Two
  ranks let one be behind the other at each barrier; two groups with different retention
  let a crash fall between actor and critic. In the proofs all of these are arbitrary.
* *Micro-batches.* The lengths are the least that give ranks different counts (one full row
  of the limit, or several short ones), ties between solutions, and a count that rounding makes larger than
  the number of rows (`raised`). Four rows give solutions of up to four bins, merged three times.
* *Data flow.* Four workers are the least with two replicas of two workers in each way of
  forming them. The validation sizes are smaller than, equal to, and no multiple of the number of
  workers. The vectors of lengths are equal ones, a falling one, and two unordered ones
  with outliers. Twelve responses are the least that every number of responses per prompt, of agent loops and of
  workers divides. Each estimator has a job, GAE one with tools, one with `lam` 0 and one with `gamma` 0; the
  scores have ties, and a tie of all. The greedy responses of REMAX (`GreedyTokens`) call tools in the same rows as the
  sampled ones for one vector of lengths and in others for the rest, so that the same job is done and raises. Twelve rows
  make equal parts for every job here; six that do not are in `data_flow_accepted`, and any in the proof. A mini-batch is the rank's rows, a divisor of them, or (FSDP) 2 of 3.
* *Rollout.* Two rows are the least that compete for a permit (both call the sandbox, whose limit is 1 if
  it made the limiter), one of them has both tools in one message. Three answers and one message of a
  user are the least for which an answer, a tool, a user and the limit of turns can each be last;
  `ResponseLength` 5 and `MaxModelLen` 10 let conversations reach the length limits in every phase. Answers that stop by themselves have one
  token, the others as many as are left; tool responses have 1 or 2. Two engines of two ranks are the least
  in which ranks differ in what they control and engines can be entered apart; two steps the least in which weights
  go stale. A conversation has one call of each tool at a time (`ToolPool`).

Each property of a passing run is paired in `PROJECT.json` with a mutant: a definition changed
the way a plausible mistake would (a rotation that keeps one too few, a critic not loaded, a merge
without the sort, a share taken at the wrong place), which makes TLC refute the property.

## 5. Fairness

* Checkpoints: weak fairness of `Progress`, everything but `Crash`. A process that runs goes
  on, and a job that is down is submitted again while runs remain, as the cluster does.
  Nothing forces a crash, and since crashes use up runs there are finitely many.
* Micro-batches: weak fairness of each rank's next step and of the `all_reduce`, which is
  enabled only when all ranks have joined. No rank is assumed to reach a collective.
* Rollout: weak fairness of `Next` only: while some process can go on, one does. That is the weakest
  that lets a job end, and enough because no process repeats what it did without another one's progress.
* Data flow: weak fairness of the driver, of each worker and of the reward task.

## 6. Proofs

`tlapm` checks them for every value of the constants that meets the assumptions named in the
modules.

**`PPOCheckpointProofs`** has three parts. The first holds in any mode, for any retention and a crash at any
location (`AnyInvariance`): `TypeCorrect`, `RotationBoundAlways` and `PublishedIsFoundAlways`. `AnyInv` is the account of
what this run has on disk: whatever a group's directories hold of this run is on its list, or is the one being filled, and
while there is room for that one the list is shorter than what the group may keep (`FilledInv`). Rank 0 cuts the list
before the first barrier, so no rank fills a directory before there is room for it (`BarrierInv`); that a directory is new when it is
filled is a matter of the counters (`BoundsInv`).

The second part is under `AutoRotating` (every run in mode `auto`, no group keeps exactly
one checkpoint, a crash at any location while the job runs, the tracker write
included): `Invariance`, `PublishedCompleteAlways`,
`ResumeConsistentAlways`. Why both conditions on the configuration: with one kept checkpoint the statement is
false (finding `ppo_keep_one`), and `resume_path` may name an older directory, which the run then
overwrites step by step while the tracker still names a later one.

`PublishedComplete` is not inductive: to see that rotation spares the published directory one
must know what is on the list. The strengthening `IInv` adds that the list of each
group increases (`PathsIncrease`) and ends with the published step, or with the step being saved
once the group has been (`Settled`, `Recorded`, per location in `SaveInv`). Then whatever rotation drops
is older than the published step (`DoomedIsOld`, which needs at least two kept), and what is left
of the list still ends with it (`RotationSettles`). `LoopInv` keeps the tracker behind the
step that is being written, so that a save never overwrites the published directory; `LoadInv`
carries the content of the tracked directory into `loaded`, for `ResumeConsistent`. There is one lemma per
action. TLC checks `IInv` in `ppo_auto`.

The third part is about progress, under the same assumption: `DataAlignedAlways`, `BoundedLossAlways`,
`FinishedIsPublishedAlways`. `ProgressInv` ties the three counters together: the batches behind the state are the
steps done (`DrawnInv`), through a restart because the positions on disk are those of their steps
(`DataSaved`); every step at which a save was due is behind the tracker (`DueCommitted`), from which
the bound of the loss is arithmetic (`LastDue`). That `fit` cannot end early needs in addition that the epochs yield the batches of
`total_training_steps` (`EnoughBatches`, which the code leaves to the configuration), and the number
of batches a run has drawn from below (`DrawnFloor`).

It ends with `StoreImplemented`: `PPOCheckpoint` implements `CheckpointStore` (`ImplementsStore`), under
`SparesTracker`: `AutoRotating`, and no crash between truncating and writing the tracker, where the promise
is broken (finding `ppo_torn_tracker`). The mapping needs to know who saved what a run trains from, so
`OriginInv` says that nothing on disk is of a later run, and what was loaded is of an earlier one. Opening
the tracker is the commit, `LoadData` the recovery, any stop the crash of the store; all else stutters.

**`SFTCheckpointProofs`**, with more than one kept checkpoint (`KeepsMany`): `TypeCorrect`, `PublishedCompleteAlways` and
`RotationBoundAlways`. The inductive `SInv` follows `IInv`, with one list that holds whole directories
(`ListInv`: only its last entry may be the published step or the one just saved) and, for the bound, with the
account of what this run has on disk: all of it is on the list, but for the directory that is being filled, and
when rank 0 enters a save it makes room for that one (`KeptInv`, `RoomMade`).

`DataAlignedAlways` needs in addition `SavesInside`: no epoch that another one follows ends in a checkpoint. It
excludes exactly the resumption in the wrong epoch of finding `sft_epoch_end`. Every position on disk is that of its step
in the pass of some epoch (`DataSaved`), and dividing the step finds that epoch if batches of it are left
(`EpochOf`). `FinishedIsCompleteAlways` adds `EnoughBatches`, as for PPO (`LastInv`), and
`StoreImplemented` uses both: a job that has finished and is started again would break the store's
promise if it did not find its checkpoint. Here the rename is the commit, and crashes may happen anywhere.

**`BatchProofs`** is about the operators on batches and solutions, for any number of rows, parts and partitions.
Of `DataProto`: `PadDivides` (padding makes the rows divisible), `UnpadOfPad` (and vanishes
again, even if there are fewer rows than the divisor), `ChunkRows` (where row `i` of part `c`
comes from) and `SplitRows` (every row is in a mini-batch, and only the last may be smaller).

Of `KarmarkarKarp`: `Set.__lt__` is a strict weak order (`LessOrders`), so that sorting is a
permutation of the bins (`Sorts`: the number of bins ahead of a bin is an injection of `1..k` into
itself). From that `MergeKeepsItems`, and `MergeKeepsSpread`: if two sorted solutions have spread at
most `d`, so does their merge, since where one bin is larger the one it meets is smaller
(`OppositeSums`). `SingletonsBalanced` starts this with the longest row for `d`, and `RoundKeepsBalance`
is one iteration of the loop.

What the library leaves open is proved here once: induction over a statement about numbers, in the form of a least
counterexample (`Least`, `Inductive`, from the well-foundedness of `<`, which needs no operator as a parameter), and over
finite sets (`FiniteInduction`); sums over finite sets (`SumIs`, `SumUnion`, `SumMoved`) and the flattening of a list of lists
(`FlattenMore`, `FlattenElements`), which the community modules define by recursive functions; and that a list without
repetition as long as a set is a permutation of it (`OntoIsOneToOne`).

Of `Advantages`: `AdvantageIsRight`, that each estimator gives a row what `IsAdvantage` says of its response. Two ideas carry it.
A loop over `reversed(range(n))` is a function on `1..n + 1`, of which the library promises nothing until one is shown
to exist (`CountdownExists`); then GAE is its discounted sum by induction from the last token (`DiscountedStep`, `GaeIsRight`),
REINFORCE++ too where no token of the model follows one of a tool, and REMAX is the sum with rate 1. For the others, the group of
a row is the siblings of its response under the names that the order of the batch gives them (`InSomeOrder`, `GroupMoved`), so that
its sums are those over the siblings (`SumOfRows`) and what is taken off is the mean (`LeadIs`). `grpo_passk` needs a second
response to the prompt (`HasSibling`), without which the code raises.

**`MicroBatchesProofs`.** `MicroTypeCorrect`, `SpreadThinAlways`, `BalancedAlways` and `RestoresOrderAlways`, for any number of
ranks, rows and lengths. The inductive invariant says what a rank has at each place: counts that agree once reduced (`Shape`,
`RankInv`, `CountInv`); while it merges, solutions that are sorted, disjoint, together hold all rows, have
spread at most the longest row, and double a bin only when none is empty (`HeapInv`); then lists of rows in which each row is exactly
once, so that the inverted index restores them (`ListInv`). `SpreadThin` is where the idea lies: a solution with an
empty bin has only bins of one row each, and merging it with another fills the empty ones first because the largest bin of one
meets the smallest of the other (`MergeThin`).

**`PPODataFlowProofs`.** `FlowTypeCorrect`, `ColumnsFitTogetherAlways`, `EachResponseOnceAlways`, `LoadBalancedAlways`,
`EachResponseTrainedAlways` and `AdvantagesRightAlways`, for any number of workers, rows, prompts and configurations of the job that `FlowAssumption`
admits and `_validate_config` accepts. What that assumes beyond the check: tensor and pipeline parallelism are Megatron's and the
Ulysses groups FSDP's; groups divide the workers; and an FSDP mini-batch has rows (the workers assert it,
`workers/fsdp_workers.py:179`). A batch that does not divide needs no assumption: the driver raises, and `raised` is a state
like any other.

`RaisesOnlyAsserted` is the safety half of `StepEnds`: a job that raises is one of `Asserted`, that is its rows do not
make equal parts, its REMAX baseline cannot join the batch, or its Megatron mini-batches do not divide. Each action that may
raise has a lemma (`CallAsserts`, `ReturnAsserts`, `BaselineAsserts`; the other unions add a column the batch does not
have), over what the rows of the batch are when it gets there (`KnownInv`, `TrainedRows`). That a step of `Asserted` does raise, and
that every step ends, is for TLC.

The invariant `FlowInv` (`FlowInvariance`) is the properties told of every place at which the driver or a worker may be. The batch
has its prompts only, or also the responses, each once, with all other columns equal to them (`StageInv`, `Filled`); a copy at the reward
task is in the order of the batch, which is not reordered afterwards (`RewardInv`); and in a call each worker holds the part of
its rank, or what its group has gathered of such parts (`CallInv`). That a call returns the rows as they were has then two halves.
`ConcatOfChunk`: parts of equal length, put together in their order, are the batch, and of Megatron's ranks exactly those of the last stage
and first tensor rank answer, one for each replica and in the order of the replicas (`LastStageIs`). `ChunkOfConcat`: what a
group has gathered falls apart into the parts of its members, of which each takes its own (`GroupIs`).

For `LoadBalanced`, `HeapInv` follows `karmarkar_karp` with partitions of equal size: the solutions on the heap divide the rows, their bins have equally
many, and their spread is at most the widest difference within a class (`Dividing`, kept by `RoundDivides`). At the end each
worker has its own `1/k` of the order (`Level`), which later steps do not touch (`LevelInv`), and a replica's part is `tp * pp`
of these (`PartsLevel`). For `EachResponseTrained`, `TrainedInv` remembers that a trained worker has got the mini-batches of what its group
holds. Groups hold no response twice and two groups hold the same or nothing in common (`ReplicaIs`, `GroupHolds`), and each
element of a list is in one mini-batch of an epoch (`InEachEpoch`). TLC found `FlowInv`, and `AdvantageInv` below, true on the instance of `data_flow`.

`AdvantagesRight` follows from `FlowInv` and `AdvantageInv`: the scores are there when advantages are computed, and advantages
once computed are right, since only updates follow and those leave the batch alone (`BatchStays`). By `FlowInv` the columns at that
place are the responses in some order, each once (`BatchIs`), which is all `AdvantageIsRight` asks. `gamma` and `lam` are any
integers: every estimator is a polynomial in them, and two polynomials that agree on all integers are the same.

**`ToolPoolProofs`.** `ToolsConserve` (`PermitsConserved` always) and `ToolsRefineLimiter` (`LimiterRefined`),
for conversations that may create, release and call as they like. That a permit is not given twice needs that the
call at the head of `acquiring` is waiting and appears there once (`QueuesMatch`), and that needs the
same of the queues of the pools; with the types and the sum of permits this is the inductive `ToolInv`.
`Grant` is then a step `Enter`: `permits > 0` and the sum leave room.

**`HybridEngineProofs`.** `MemoryTakesTurns` (`MemoryExclusive` always), for any number of engines, ranks and
steps and all configurations. The invariant `EngineInv` says of each rank what may be on its GPU at its
place in the call (`RankInv`): `Offloaded` outside of a load, `Freed` outside of the rollout, `Held` while it is
in the rollout, and, because an SGLang leader takes memory on behalf of others, `Synced`: nobody takes the cache before all
ranks have passed the collective.

**`RolloutStepProofs`.** The composition keeps the promises of its parts: `ToolsAreTools` and
`RanksAreRanks` say that each behaviour of a job is one of `ToolPool` and one of `HybridEngine`, hence
`PermitsConservedInJobs`, `LimiterRefinedInJobs`, `MemoryExclusiveInJobs`. For the tools this is not by
construction: a row may submit only idle calls, which follows from where it is. The invariant
`StepInvariant` therefore adds to `ToolInv` and `EngineInv` what calls and instances a row has in each phase
(`RowCalls`), that rows of an engine are under way only while all ranks of it are awake (`RowsAndRanks`), and
who is to blame for a process that is broken (`Blame`). It also gives `ToolsReleasedAlways`,
`FailsOnlyByToolAlways`, `SticksAndSpreadsAlways` (`Pinned`, `Spread`) and, from `Held` and `Synced` of the engines,
`ServedFreshAlways` under `EnginesEntered` (each job is synchronous or frees its cache; the other kind is
finding `async_stale_weights`). The proof has a lemma per action, all about any number of rows,
tools, processes, servers, ranks and steps.

Part 2 of the module is about what is said: `MessagesRenderedAlways`, `EndsWithGeneratedAlways` and `TypeCorrectAlways`.
That the tokens are those of the messages, each rendered on its own, goes by induction over the messages (`Rendering`: one more message adds its
own tokens and no others). The invariant `Talk` says of each row, by its phase, how far its tokens are
ahead of its messages: `SpeaksAs` for the SGLang rollout (whole messages, or with the generation prompt behind them while the
engine is asked), `LoopsAs` for the agent loop (a mask as long as the response, the last of it
generated, unless tools have just been answered). Both say that ids, masks and positions are columns of one length
(`Whole`, `Columns`, `Masked`), and that tokens are never more than the limits let through. `Counts` of `HybridEngineProofs` is the type
of the counters the two machines share.

**Only model-checked**: liveness and `ENABLED` (out of the prover's reach). Every invariant that a run finds true is proved.

## 7. Findings

* `ppo_torn_tracker`: the tracker of the PPO trainer is truncated and then written, while its comment promises
  "atomic usage" (`trainer/ppo/ray_trainer.py:928`). A job that dies in between leaves an
  empty file, on which every later start in mode `auto` raises. The SFT trainer renames.
* `ppo_keep_one`: with `max_ckpt_to_keep = 1`, which a message of the trainer recommends
  (`ray_trainer.py:898`), rotation removes the published checkpoint before the next one is written.
* `sft_epoch_end`: a checkpoint taken after the last batch of an epoch resumes in the next epoch with
  an exhausted dataloader; the epoch passes without a batch and the job ends too early.
* `micro_token_limit`: `max_token_len` is documented as the maximum of a micro-batch and is only used to
  find their number; a micro-batch may exceed it.
* `data_flow_accepted`: for Megatron the check of the batch size asks for a multiple of the data-parallel
  size, but the rollout's dispatch and `_balance_batch` need a multiple of the number of workers.
* `async_stale_weights`: with `free_cache_engine` off, asynchronous servers are never woken up, and waking up is
  what brings the actor's weights to them: they generate with the weights they were started with
  (`experimental/agent_loop/agent_loop.py:538`, `workers/rollout/vllm_rollout/vllm_async_server.py:331`).

Seen while reading, without a run: rotation starts with an empty list after each restart, so
that directories of earlier runs are never removed; a finished job that is started again trains one more step
each time; `resume_path` overwrites directories in place. REMAX with `rollout.n` above 1 cannot join the
baseline, which has `n` rows per prompt, with the batch, which has one. With agent loops that call tools it raises in the union of
`ray_trainer.py:1150` whenever a greedy response has another number of turns than the sampled one, because `__num_turns__` of the baseline
(`experimental/agent_loop/agent_loop.py:427`) is not popped with its tensors (`ray_trainer.py:1139`); with the synchronous multi-turn
SGLang rollout always, because that makes new request ids in each call. `data_flow` has these jobs, and `StepEnds` says that they raise. A sandbox call that raises
returns nothing, which ends the batch of its process (`tools/sandbox_fusion_tools.py:82`); so does a call of a
tool the row was not given. The tests of the conversation's length after a tool or a user look at the batch
dimension and are never true (`sglang_rollout.py:857`, `:971`). REINFORCE++ resets its running return at
every token the model did not generate ("Reset after EOS", `core_algos.py:579`): of a response with tools only the
last turn gets the reward, and `AdvantagesRight` asks nothing of the earlier ones. A Megatron mini-batch that does not
divide a replica's rows is accepted by the configuration and raises in the first update (`protocol.py:704`). Megatron's
critic learns values of tool tokens too, its loss is masked by `attention_mask` (`workers/critic/megatron_critic.py:213`).
`finalize_interaction` is never called. A SGLang
leader that wakes up in stages may take the cache before its other ranks have offloaded the actor. A
mini-batch that does not divide a rank's rows gives an extra, smaller optimizer step.

## 8. Not modelled

* Within the modelled parts: the copy of checkpoints to HDFS, the contents of tensors, the Hugging Face
  export, non-tensor columns other than the ids of the prompts and those of REMAX's union, layouts that differ between actor and critic, KL penalty in the reward, the reweighting of `pf_ppo`, auto
  padding, `greedy_partition`, `log_seqlen_unbalance` (statistics only).
* Partial writes other than "torn": a file system that loses what was written before a crash,
  or reorders it, is not assumed.
* Within the rollout: multi-modal inputs, `use_inference_chat_template`, the text a template makes of all messages at
  once and the check of `finalize` against it (a warning), the chat completion endpoint, eviction
  of routes (10,000 conversations), servers restarted at start-up, search calls answered at once for an invalid
  query, pools without a limiter, the death of an actor, random states swapped with the engine, LoRA adapters, the
  workers of critic, reference and reward model on the same GPUs, parameters and optimizer offloaded separately.
* Planned, see [plan](#2-plan): tools over MCP, vLLM sockets, Megatron checkpoints, local copies.
* For good: Ray's placement and its own fault tolerance, numerics (losses, advantages,
  optimisers), models and weight conversion, reward functions on text, CUDA streams, tracking,
  configuration files, vendored code, the TypeScript environment around the repository.
