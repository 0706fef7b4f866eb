--------------------------- MODULE MCPPODataFlow ---------------------------
EXTENDS PPODataFlow

\* The least a configuration says; the jobs below say what they have besides.
Plain == [megatron |-> FALSE, tp |-> 1, pp |-> 1, sp |-> 1, rollout_tp |-> 1, agents |-> 0,
          n |-> 2, estimator |-> "grpo", gamma |-> 1, lam |-> 1, multi_turn |-> FALSE,
          rm |-> FALSE, ref |-> FALSE, warm |-> TRUE, mini |-> 3, epochs |-> 1]

Ulysses == [Plain EXCEPT !.sp = 2]
TwoByTp == [Plain EXCEPT !.megatron = TRUE, !.tp = 2, !.rollout_tp = 2]
TwoByPp == [Plain EXCEPT !.megatron = TRUE, !.pp = 2, !.rollout_tp = 4]
Agents  == [Plain EXCEPT !.agents = 3]

\* Every layout and every estimator; a mini-batch that is the batch, one that divides it, and
\* for FSDP one that does not (2 of 3 rows in the first and the last job); the actor behind
\* critic_warmup in the fourth
AllJobs == {
  [Plain EXCEPT !.estimator = "gae", !.rollout_tp = 2, !.multi_turn = TRUE, !.rm = TRUE,
                !.ref = TRUE, !.mini = 4, !.epochs = 2],
  [Ulysses EXCEPT !.estimator = "grpo", !.n = 3, !.multi_turn = TRUE, !.mini = 4],
  [Ulysses EXCEPT !.estimator = "gae", !.lam = 0, !.rm = TRUE],
  [TwoByTp EXCEPT !.estimator = "gae", !.gamma = 0, !.ref = TRUE, !.warm = FALSE],
  [TwoByTp EXCEPT !.estimator = "grpo_passk", !.n = 3, !.mini = 2, !.epochs = 2],
  [TwoByPp EXCEPT !.estimator = "rloo", !.mini = 6, !.ref = TRUE],
  [TwoByPp EXCEPT !.estimator = "opo", !.multi_turn = TRUE],
  [Agents EXCEPT !.estimator = "remax", !.n = 1, !.mini = 12, !.multi_turn = TRUE],
  [Agents EXCEPT !.estimator = "gpg", !.rm = TRUE],
  [Plain EXCEPT !.estimator = "remax", !.n = 1, !.mini = 12],
  [Plain EXCEPT !.estimator = "remax", !.n = 1, !.mini = 12, !.multi_turn = TRUE],
  [Plain EXCEPT !.estimator = "remax"],
  [TwoByTp EXCEPT !.mini = 4], [TwoByTp EXCEPT !.n = 1, !.mini = 1],
  [Plain EXCEPT !.estimator = "reinforce_plus_plus", !.n = 1, !.mini = 4],
  [Plain EXCEPT !.estimator = "reinforce_plus_plus_baseline", !.n = 4, !.mini = 2, !.epochs = 2]}

SomeCounts == {<<1, 1, 1, 1, 1, 1, 1, 1, 1, 1, 1, 1>>, <<6, 5, 5, 4, 4, 3, 3, 2, 2, 2, 1, 1>>,
               <<1, 5, 1, 5, 2, 4, 6, 1, 5, 3, 2, 6>>, <<6, 1, 1, 1, 1, 1, 1, 6, 1, 1, 6, 1>>}

\* Scores with ties, without, and all zero among the responses to a prompt
SomeScores == <<1, 0, 3, 1, 1, 0, 0, 0, 2, 1, 0, 4>>
\* Tools are called by the same greedy responses as sampled ones of the third vector, only
SomeGreedyCounts == <<2, 6, 1, 3, 1, 3, 3, 2, 4, 5, 1, 4>>
SomeGreedy == <<0, 1, 1, 2, 0, 1, 3, 0, 1, 1, 2, 0>>
SomeValues == <<1, 2, 0, 3, 1, 2, 0, 1, 3, 2, 1, 0>>

\* Megatron on two data-parallel replicas of two workers each
TwoReplicas == {TwoByTp}

SixRows   == {<<1, 1, 1, 1, 1, 1>>}
SixCounts == <<1, 1, 1, 1, 1, 1>>
SixScores == <<0, 1, 0, 1, 0, 1>>
=============================================================================
