---------------------------- MODULE PPODataFlow ----------------------------
(***************************************************************************)
(* The rows of one batch on their way through a PPO step (fit of           *)
(* verl/trainer/ppo/ray_trainer.py) or a validation (_validate): the       *)
(* driver cuts the batch into one part per worker                          *)
(* (verl/single_controller/base/decorator.py), groups of workers gather    *)
(* the parts of their members, each returns its share of the result        *)
(* (verl/workers/sharding_manager), and the driver joins what it gets and  *)
(* puts it next to the columns it already has.                             *)
(*                                                                         *)
(* A cell of a column is the row of the generation batch it was computed   *)
(* from: the columns of the batch fit together when row i of each of them  *)
(* comes from the same one.                                                *)
(***************************************************************************)
EXTENDS DataProto, KarmarkarKarp, Advantages, FiniteSetsExt

CONSTANTS
  NumWorkers,  \* world_size of the actor's worker group
  TrainRows,   \* responses of a train batch: train_batch_size times rollout.n
  ValSizes,    \* rows a validation batch may have, val_kwargs.n times repeated
  Jobs,        \* configurations of the job
  TokenCounts, \* lengths the rows of a train batch may get
  MaxTokens,   \* data.max_response_length
  ScoreOf,     \* score of each response of a train batch
  GreedyTokens, \* length of a greedy response to each prompt
  GreedyScore, \* and its score
  ValueOf      \* value of each response's tokens

ASSUME FlowAssumption ==
  /\ NumWorkers \in Nat \ {0} /\ TrainRows \in Nat \ {0} /\ ValSizes \subseteq Nat \ {0}
  /\ \A j \in Jobs :
       /\ DOMAIN j = {"megatron", "tp", "pp", "sp", "rollout_tp", "agents", "n", "estimator",
                      "gamma", "lam", "multi_turn", "rm", "ref", "warm", "mini", "epochs"}
       /\ \* tp and pp of Megatron, Ulysses sp of FSDP, tp of the rollout engine
          /\ {j.tp, j.pp, j.sp, j.rollout_tp} \subseteq Nat \ {0}
          /\ j.megatron \in BOOLEAN /\ IF j.megatron THEN j.sp = 1 ELSE j.tp = 1 /\ j.pp = 1
          /\ NumWorkers % j.sp = 0 /\ NumWorkers % j.rollout_tp = 0
       /\ \* workers of the agent loops, 0 if the rollout is synchronous
          j.agents \in 0..NumWorkers
       /\ \* rollout.n, adv_estimator, gamma and lam (advantages are polynomials in them), multi_turn
          /\ j.n \in Nat \ {0} /\ TrainRows % j.n = 0 /\ j.estimator \in Estimators
          /\ j.estimator = "grpo_passk" => j.n > 1
          /\ {j.gamma, j.lam} \subseteq Int /\ j.multi_turn \in BOOLEAN
       /\ \* use_rm, use_reference_policy, and whether critic_warmup is over
          j.rm \in BOOLEAN /\ j.ref \in BOOLEAN /\ j.warm \in BOOLEAN
       /\ \* ppo_mini_batch_size, ppo_epochs; FSDP workers assert that a mini-batch has rows
          /\ j.mini \in Nat \ {0} /\ j.epochs \in Nat \ {0}
          /\ ~j.megatron => (j.mini * j.n) \div (NumWorkers \div j.sp) > 0
  /\ MaxTokens \in Nat \ {0}
  /\ \A t \in TokenCounts : t \in [1..TrainRows -> 1..MaxTokens]
  /\ GreedyTokens \in [1..TrainRows -> 1..MaxTokens]
  /\ ScoreOf \in [1..TrainRows -> Int] /\ GreedyScore \in [1..TrainRows -> Int]
  /\ ValueOf \in [1..TrainRows -> Int]

Workers == 1..NumWorkers

VARIABLES
  job,      \* its configuration
  kind,     \* "train" or "validate"
  pc,       \* the driver's location: the column it works on
  tokens,   \* length of each generated row
  gen,      \* gen_batch: the rows that are sent to the rollout
  output,   \* gen_batch_output: the rows it returned
  cols,     \* the columns of the batch
  part,     \* the rows each worker holds
  wpc,      \* where each worker is in the call
  heap,     \* states_pq of karmarkar_karp in _balance_batch
  reward,   \* the rows the reward function was given, none before
  scored,   \* the reward function has returned
  trained   \* the mini-batches each worker updated the critic and the actor with

vars == <<job, kind, pc, tokens, gen, output, cols, part, wpc, heap, reward, scored, trained>>

NumRows == Len(cols.uid)

\* prompt of each row of gen_batch, and of the rows it has left behind
Prompts(n) == [p \in 1..n |-> p]
PromptOf(row) == IF kind = "train" THEN ((row - 1) \div job.n) + 1 ELSE row

\* use_critic, with critic.enable left to the estimator
UseCritic == job.estimator = "gae"

\* _validate_config: the least batch a job may have, with a ppo_micro_batch_size_per_gpu
\* of 1; a mini-batch has no more prompts than the batch.
MinimalBsz(j) == IF j.megatron THEN NumWorkers \div (j.tp * j.pp) ELSE NumWorkers

Accepted(j) == /\ j.megatron => NumWorkers % (j.tp * j.pp) = 0
               /\ TrainRows % MinimalBsz(j) = 0
               /\ j.mini <= TrainRows \div j.n

Init ==
  /\ job \in {j \in Jobs : Accepted(j)}
  /\ \/ /\ kind = "train" /\ tokens \in TokenCounts
        /\ gen = [i \in 1..TrainRows |-> i]
        /\ cols = [uid |-> Prompts(TrainRows \div job.n)]
     \/ /\ kind = "validate" /\ \E n \in ValSizes :
             /\ tokens = [i \in 1..n |-> 1] /\ gen = [i \in 1..n |-> i]
             /\ cols = [uid |-> Prompts(n)]
  /\ pc = "generate" /\ output = <<>>
  /\ part = [w \in Workers |-> <<>>] /\ wpc = [w \in Workers |-> "idle"]
  /\ heap = {} /\ reward = <<>> /\ scored = FALSE
  /\ trained = [m \in {"update_critic", "update_actor"} |-> [w \in Workers |-> <<>>]]

(***************************************************************************)
(* Calls on the worker group.  The rollout and every FSDP method dispatch  *)
(* one part to each worker; a Megatron method dispatches one part to each  *)
(* data-parallel replica.  Ranks run tp first, then dp, then pp.           *)
(***************************************************************************)
DpSize     == NumWorkers \div (job.tp * job.pp)
DpRank(w)  == (((w - 1) \div job.tp) % DpSize) + 1
Sends(w)   == (w - 1) % job.tp = 0 /\ (w - 1) \div (job.tp * DpSize) = job.pp - 1

\* The rollout is dispatched like an FSDP method in every layout, or to the workers of the
\* agent loops, processes of their own that have the places of the first workers here.
OnRollout == pc \in {"generate", "baseline"}
Looping   == OnRollout /\ job.agents > 0
Callees   == IF Looping THEN 1..job.agents ELSE Workers
Parts     == IF OnRollout THEN Cardinality(Callees) ELSE DpSize

Dispatched(rows) ==
  [w \in Workers |-> IF w \in Callees THEN Chunk(rows, Parts)[IF OnRollout THEN w ELSE DpRank(w)]
                                      ELSE <<>>]

\* Mutant of Senders: every tensor-parallel rank's output is collected.
SendersAll == Workers
Senders    == IF OnRollout THEN Callees ELSE {w \in Workers : Sends(w)}

Collected == LET senders == Ascending(Senders)
             IN  Concat([i \in DOMAIN senders |-> part[senders[i]]])

\* The workers that gather each other's rows: a rollout engine, or a Ulysses group.
GroupSize  == IF Looping THEN 1 ELSE IF OnRollout THEN job.rollout_tp ELSE job.sp
Members(w) == {v \in Workers : (v - 1) \div GroupSize = (w - 1) \div GroupSize}
Place(w)   == ((w - 1) % GroupSize) + 1

\* The driver calls the workers, or raises when the rows do not make equal parts.
Call(rows) ==
  /\ \A w \in Workers : wpc[w] = "idle"
  /\ IF Len(rows) % Parts = 0
       THEN /\ part' = Dispatched(rows)
            /\ wpc' = [w \in Workers |-> IF w \in Callees THEN "called" ELSE "idle"]
            /\ UNCHANGED pc
       ELSE pc' = "raised" /\ UNCHANGED <<part, wpc>>
  /\ UNCHANGED <<job, kind, tokens, gen, output, cols, heap, reward, scored, trained>>

\* preprocess_data: an all_gather over the group.
Gather(w) ==
  /\ pc # "raised"
  /\ \A v \in Members(w) : wpc[v] = "called"
  /\ LET group == Ascending(Members(w))
         rows  == Concat([i \in 1..GroupSize |-> part[group[i]]])
     IN  part' = [v \in Workers |-> IF v \in Members(w) THEN rows ELSE part[v]]
  /\ wpc' = [v \in Workers |-> IF v \in Members(w) THEN "gathered" ELSE wpc[v]]
  /\ UNCHANGED <<job, kind, pc, tokens, gen, output, cols, heap, reward, scored, trained>>

\* Mutant of Share: every worker returns the first share.
ShareFirst(w) == Chunk(part[w], GroupSize)[1]

\* postprocess_data: the share of this member.
Share(w) == Chunk(part[w], GroupSize)[Place(w)]

\* update_policy, update_critic: ppo_epochs times over the mini-batches, whose size is
\* normalized to the rows of one data-parallel replica.
Replicas == IF job.megatron THEN DpSize ELSE NumWorkers \div job.sp
MiniSize == (job.mini * job.n) \div Replicas

\* Mutant of MiniBatches: a mini-batch that is not full is left out.
MiniBatchesFull(rows) ==
  Concat([e \in 1..job.epochs |-> SelectSeq(Split(rows, MiniSize), LAMBDA b : Len(b) = MiniSize)])
MiniBatches(rows) == Concat([e \in 1..job.epochs |-> Split(rows, MiniSize)])

\* Megatron's iterator asks for full mini-batches, of at least one row.
Divides(rows) == job.megatron => MiniSize > 0 /\ Len(rows) % MiniSize = 0

\* The worker computes its rows, one result per row, in their order; an update returns
\* only metrics.
Return(w) ==
  /\ pc # "raised" /\ wpc[w] = "gathered"
  /\ IF pc \notin DOMAIN trained
       THEN /\ part' = [part EXCEPT ![w] = Share(w)]
            /\ wpc' = [wpc EXCEPT ![w] = "returned"]
            /\ UNCHANGED <<pc, trained>>
       ELSE /\ IF Divides(part[w])
                 THEN /\ trained' = [trained EXCEPT ![pc][w] = MiniBatches(part[w])]
                      /\ wpc' = [wpc EXCEPT ![w] = "returned"]
                      /\ UNCHANGED pc
                 ELSE pc' = "raised" /\ UNCHANGED <<trained, wpc>>
            /\ UNCHANGED part
  /\ UNCHANGED <<job, kind, tokens, gen, output, cols, heap, reward, scored>>

Returned == \A w \in Callees : wpc[w] = "returned"
EndCall  == wpc' = [w \in Workers |-> "idle"] /\ UNCHANGED part

\* A column of the batch is assigned: batch.batch[name] = rows.
Assign(name, rows) ==
  cols' = [c \in DOMAIN cols \cup {name} |-> IF c = name THEN rows ELSE cols[c]]

\* union raises when the batch has the column already and its values are not the same;
\* else the driver goes on to the next column.  It asserts as well that there are as many
\* rows as in the batch, which TypeOK says of every column.
Union(name, rows, next) ==
  IF name \in DOMAIN cols /\ cols[name] # rows
    THEN pc' = "raised" /\ UNCHANGED cols
    ELSE pc' = next /\ Assign(name, rows)

(***************************************************************************)
(* The driver                                                              *)
(***************************************************************************)
RolloutSize == IF job.agents > 0 THEN job.agents ELSE NumWorkers

PadOf(rows) == IF kind = "validate" THEN PadToDivisor(rows, RolloutSize) ELSE rows

Generate == OnRollout /\ Call(PadOf(gen))

\* What is computed of the batch once it is balanced, in this order
Steps == <<"rm_scores", "reward", "old_log_probs", "ref_log_prob", "values", "scores",
           "advantages", "update_critic", "update_actor", "done">>

Uses(c) == CASE c = "rm_scores"    -> job.rm
             [] c = "ref_log_prob" -> job.ref
             [] c \in {"values", "update_critic"} -> UseCritic
             [] c = "update_actor" -> job.warm
             [] OTHER -> TRUE

\* The first step from place i on that this job makes, and the one after step c
From(i)  == Steps[Min({j \in i..Len(Steps) : Uses(Steps[j])})]
After(c) == From(1 + CHOOSE i \in DOMAIN Steps : Steps[i] = c)

\* The batch is repeated like gen_batch was, and gets the responses.
\* Mutant of Joined: the columns the batch has are repeated as a whole, not row by row.
JoinedTiled(batch, out) ==
  [c \in DOMAIN batch \cup {"responses"} |->
     IF c = "responses" THEN out
     ELSE [i \in 1..Len(out) |-> batch[c][((i - 1) % Len(batch[c])) + 1]]]
Joined(batch, out) ==
  [c \in DOMAIN batch \cup {"responses"} |-> IF c = "responses" THEN out
                                              ELSE Repeat(batch[c], job.n)]

Generated ==
  /\ pc = "generate" /\ Returned /\ EndCall
  /\ IF kind = "validate"
       THEN /\ Union("responses", Unpad(Collected, PadSize(gen, RolloutSize)), "reward")
            /\ UNCHANGED output
       ELSE IF job.estimator = "remax"
       THEN /\ output' = Collected
            /\ pc' = "baseline"
            /\ UNCHANGED cols
       ELSE /\ cols' = Joined(cols, Collected)
            /\ pc' = "balance"
            /\ UNCHANGED output
  /\ UNCHANGED <<job, kind, tokens, gen, heap, reward, scored, trained>>

\* num_turns of an agent loop's conversation with so many response tokens: a response
\* longer than two has called a tool, and the answer and the message behind it are turns.
Turns(length) == IF job.multi_turn /\ length > 2 THEN 4 ELSE 2

\* The non-tensor columns that a rollout returns besides those it was given: the turns of
\* agent loops, or ids the multi-turn SGLang rollout makes anew in every call.
NonTensor(call, lengths) ==
  IF job.agents > 0 THEN [num_turns  |-> [i \in DOMAIN lengths |-> Turns(lengths[i])]]
  ELSE IF job.multi_turn THEN [request_id |-> [i \in DOMAIN lengths |-> <<call, i>>]]
  ELSE <<>>

\* REMAX: the greedy responses have to be as many as the prompts for the first union.  Only
\* their tensors are popped again: the other columns stay, and the union with the sampled
\* responses asserts that both outputs have the same values there.
SameNonTensor(greedy, sampled) ==
  NonTensor("baseline", [i \in DOMAIN greedy |-> GreedyTokens[greedy[i]]])
    = NonTensor("generate", [i \in DOMAIN sampled |-> tokens[sampled[i]]])

BaselineGenerated ==
  /\ pc = "baseline" /\ Returned /\ EndCall
  /\ IF Len(Collected) = NumRows /\ SameNonTensor(Collected, output)
       THEN LET batch == [uid |-> cols.uid, reward_baselines |-> Collected]
            IN  /\ cols' = Joined(batch, output)
                /\ output' = <<>>
                /\ pc' = "balance"
       ELSE pc' = "raised" /\ UNCHANGED <<cols, output>>
  /\ UNCHANGED <<job, kind, tokens, gen, heap, reward, scored, trained>>

\* _balance_batch: one partition of equal size per worker, by token count.  karmarkar_karp
\* asserts that the rows can be divided so.
RowTokens == [i \in 1..NumRows |-> tokens[cols.responses[i]]]

StartBalance ==
  /\ pc = "balance" /\ heap = {}
  /\ IF NumRows % NumWorkers = 0
       THEN /\ \E lens \in {RowTokens} : heap' = Rows(lens, NumWorkers)
            /\ UNCHANGED pc
       ELSE pc' = "raised" /\ UNCHANGED heap
  /\ UNCHANGED <<job, kind, tokens, gen, output, cols, part, wpc, reward, scored, trained>>

BalanceRound ==
  /\ pc = "balance"
  /\ \E s, t \in heap : Popped(heap, s, t) /\ heap' = Round(heap, s, t)
  /\ UNCHANGED <<job, kind, pc, tokens, gen, output, cols, part, wpc, reward, scored, trained>>

BalancedOrder(state) ==
  Concat([i \in DOMAIN state |-> Ascending(ItemsOf(state[i]))])

\* Mutant of Reordered: the non-tensor columns stay where they are.
ReorderedTensors(indices) ==
  [c \in DOMAIN cols |-> IF c = "uid" THEN cols[c] ELSE Reorder(cols[c], indices)]

Reordered(indices) == [c \in DOMAIN cols |-> Reorder(cols[c], indices)]

EndBalance ==
  /\ pc = "balance" /\ Cardinality(heap) = 1
  /\ cols' = Reordered(BalancedOrder(CHOOSE s \in heap : TRUE))
  /\ heap' = {} /\ pc' = From(1)
  /\ UNCHANGED <<job, kind, tokens, gen, output, part, wpc, reward, scored, trained>>

\* launch_reward_fn_async: a task gets a copy of the batch.  Without it the driver
\* computes the reward itself, here, as it does in a validation.  The reward function
\* returns the scores of the reward model where the batch has them.
Reward(async) ==
  /\ pc = "reward"
  /\ reward' = IF "rm_scores" \in DOMAIN cols THEN cols.rm_scores ELSE cols.responses
  /\ IF kind = "train"
       THEN /\ pc' = After("reward") /\ scored' = ~async
            /\ UNCHANGED cols
       ELSE /\ pc' = "done" /\ scored' = TRUE
            /\ Assign("scores", cols.responses)
  /\ UNCHANGED <<job, kind, tokens, gen, output, part, wpc, heap, trained>>

RewardTask ==
  /\ reward # <<>> /\ ~scored
  /\ scored' = TRUE
  /\ UNCHANGED <<job, kind, pc, tokens, gen, output, cols, part, wpc, heap, reward, trained>>

\* compute_rm_score, compute_log_prob, compute_ref_log_prob and compute_values of the
\* workers.
OfWorkers == {"rm_scores", "old_log_probs", "ref_log_prob", "values"}

Compute == pc \in OfWorkers /\ Call(cols.responses)

Computed ==
  /\ pc \in OfWorkers /\ Returned /\ EndCall
  /\ Union(pc, Collected, After(pc))
  /\ UNCHANGED <<job, kind, tokens, gen, output, heap, reward, scored, trained>>

\* The scores become a column of the batch when advantages are computed.
AwaitReward ==
  /\ pc = "scores" /\ scored
  /\ Assign("scores", reward)
  /\ pc' = After(pc)
  /\ UNCHANGED <<job, kind, tokens, gen, output, part, wpc, heap, reward, scored, trained>>

\* What compute_advantage finds in a row: the response's mask, the reward at its last token,
\* its values and its baseline, each from its own column.  In a multi-turn job the second
\* token of a response longer than two is a tool's.
MaskOf(row) == [t \in 1..MaxTokens |-> t <= tokens[row]
                                       /\ ~(job.multi_turn /\ t = 2 /\ tokens[row] > 2)]

ResponseOf(uid, response, scores, values, baseline) ==
  [uid |-> uid, mask |-> MaskOf(response),
   rewards |-> [t \in 1..MaxTokens |-> IF t = tokens[scores] THEN ScoreOf[scores] ELSE 0],
   values |-> [t \in 1..MaxTokens |-> IF MaskOf(values)[t] THEN ValueOf[values] * t ELSE 0],
   baseline |-> GreedyScore[baseline]]

Cell(c, i) == IF c \in DOMAIN cols THEN cols[c][i] ELSE cols.responses[i]

ComputeAdvantage ==
  /\ pc = "advantages"
  /\ \E batch \in {[i \in 1..NumRows |->
                      ResponseOf(cols.uid[i], cols.responses[i], cols.scores[i],
                                 Cell("values", i), Cell("reward_baselines", i))]} :
       Assign(pc, [i \in 1..NumRows |-> Advantage(job.estimator, job.gamma, job.lam, batch, i)])
  /\ pc' = After(pc)
  /\ UNCHANGED <<job, kind, tokens, gen, output, part, wpc, heap, reward, scored, trained>>

\* update_critic, update_actor
Update == pc \in DOMAIN trained /\ Call(cols.responses)

Updated ==
  /\ pc \in DOMAIN trained /\ Returned /\ EndCall
  /\ pc' = After(pc)
  /\ UNCHANGED <<job, kind, tokens, gen, output, cols, heap, reward, scored, trained>>

Driver == \/ Generate \/ Generated \/ BaselineGenerated
          \/ StartBalance \/ BalanceRound \/ EndBalance
          \/ (\E async \in BOOLEAN : Reward(async))
          \/ Compute \/ Computed \/ AwaitReward \/ ComputeAdvantage \/ Update \/ Updated

Next == Driver \/ RewardTask \/ \E w \in Workers : Gather(w) \/ Return(w)

Spec == Init /\ [][Next]_vars

FairSpec == /\ Spec /\ WF_vars(Driver) /\ WF_vars(RewardTask)
            /\ \A w \in Workers : WF_vars(Gather(w) \/ Return(w))

-----------------------------------------------------------------------------
(***************************************************************************)
(* Properties                                                              *)
(***************************************************************************)
TypeOK ==
  /\ job \in Jobs /\ kind \in {"train", "validate"}
  /\ pc \in {"generate", "baseline", "balance", "raised"} \cup ToSet(Steps)
  /\ DOMAIN cols \subseteq {"uid", "responses", "reward_baselines"} \cup ToSet(Steps)
  /\ \A c \in DOMAIN cols : Len(cols[c]) = NumRows
  /\ \A c \in DOMAIN cols \ {"advantages"} : cols[c] \in Seq(DOMAIN tokens)
  /\ output \in Seq(DOMAIN tokens)
  /\ \A w \in Workers : /\ part[w] \in Seq(DOMAIN tokens)
                        /\ wpc[w] \in {"idle", "called", "gathered", "returned"}

\* Row i of every column was computed from one and the same response, and the response
\* answers the prompt of the row: whatever was dispatched, gathered, padded and reordered
\* on the way.
ColumnsFitTogether ==
  "responses" \in DOMAIN cols =>
    \A i \in 1..NumRows :
      /\ cols.uid[i] = PromptOf(cols.responses[i])
      /\ \A c \in DOMAIN cols \ {"uid", "advantages"} : cols[c][i] = cols.responses[i]

\* "changes the order of data in the `batch`, which won't affect the advantage calculation":
\* whatever the order, every token the model generated has the advantage its estimator is
\* defined to give it among all responses to its prompt.
AdvantagesRight ==
  "advantages" \in DOMAIN cols =>
    LET resp == [row \in DOMAIN tokens |-> ResponseOf(PromptOf(row), row, row, row, row)]
    IN  \A i \in 1..NumRows :
          LET row == cols.responses[i]
          IN  \A t \in DOMAIN resp[row].mask :
                resp[row].mask[t] => IsAdvantage(job.estimator, job.gamma, job.lam, resp, row,
                                                 cols.advantages[i], t)

\* Every row sent to the rollout comes back exactly once, padding never.
EachResponseOnce ==
  "responses" \in DOMAIN cols =>
    /\ NumRows = Len(gen)
    /\ \A i, j \in 1..NumRows : cols.responses[i] = cols.responses[j] => i = j

\* The token counts of two workers differ by no more, per partition they hold, than the
\* longest row differs from the shortest one of the same length class: the rows sorted
\* by length and cut into classes of one row per partition.
SumOver(rows) == SumFunction([i \in DOMAIN rows |-> tokens[rows[i]]])

LoadBalanced ==
  pc = "old_log_probs" /\ (\A w \in Workers : wpc[w] = "called") =>
    \A v, w \in Workers : SumOver(part[v]) - SumOver(part[w])
      <= job.tp * job.pp * Max({Spread(s) : s \in Rows(tokens, NumWorkers)})

\* The critic, and the actor once warmed up, are trained with every response by the workers
\* of one replica, in one mini-batch of each epoch, and by no other worker; and all workers
\* take equally many optimizer steps, in which they meet.
Replica(w) == IF job.sp > 1
                THEN {v \in Workers : (v - 1) \div job.sp = (w - 1) \div job.sp}
                ELSE {v \in Workers : DpRank(v) = DpRank(w)}

Takes(m, v, row) == {b \in DOMAIN trained[m][v] : row \in ToSet(trained[m][v][b])}

EachResponseTrained ==
  pc = "done" /\ kind = "train" =>
    \A m \in {c \in DOMAIN trained : Uses(c)} :
      /\ \A v, w \in Workers : Len(trained[m][v]) = Len(trained[m][w])
      /\ \A row \in DOMAIN tokens : \E w \in Workers :
           /\ {v \in Workers : Takes(m, v, row) # {}} = Replica(w)
           /\ \A v \in Replica(w) : /\ Cardinality(Takes(m, v, row)) = job.epochs
                                    /\ trained[m][v] = trained[m][w]

\* What an accepted configuration can still ask for and the code asserts against in a train
\* step: rows that do not make equal parts for the rollout or for the balancing; several
\* responses to a prompt of REMAX, or a greedy response with other turns or another id than
\* the sampled one; mini-batches of a Megatron update that do not divide a replica's rows.
UnequalParts == TrainRows % RolloutSize # 0 \/ TrainRows % NumWorkers # 0

BaselineConflicts ==
  /\ job.estimator = "remax"
  /\ \/ job.n > 1
     \/ job.multi_turn /\ job.agents = 0
     \/ job.agents > 0 /\ \E row \in DOMAIN tokens : Turns(GreedyTokens[row]) # Turns(tokens[row])

UnevenUpdate == /\ job.megatron /\ (UseCritic \/ job.warm)
                /\ MiniSize = 0 \/ (TrainRows \div DpSize) % MiniSize # 0

Asserted == kind = "train" /\ (UnequalParts \/ BaselineConflicts \/ UnevenUpdate)

\* Every step and every validation ends: nobody waits forever in a gather or for a reward.
\* The driver raises in exactly the cases above: no other assertion, on the number of rows
\* of a dispatch or on the columns of a union, ever stops it, and it never trains on.
StepEnds == <>(pc = IF Asserted THEN "raised" ELSE "done")

\* "real_train_batch_size must be divisible by minimal possible batch size" is what
\* _validate_config asks of a configuration: a batch it lets through can be dispatched.
AcceptedIsDispatched == pc # "raised"
=============================================================================
