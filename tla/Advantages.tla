----------------------------- MODULE Advantages -----------------------------
(***************************************************************************)
(* The advantage estimators of verl/trainer/ppo/core_algos.py.  A batch is *)
(* a sequence of responses, each with the prompt it answers (uid), its     *)
(* rewards, values and response mask per token, padded to one width, and   *)
(* the score of a greedy response (baseline, for REMAX only).              *)
(*                                                                         *)
(* An advantage is a numerator per token over one denominator.  Left out   *)
(* is what rescales it without regard to the response: the division by the *)
(* standard deviation of a prompt's scores, and masked_whiten.             *)
(***************************************************************************)
EXTENDS Integers, Sequences, FiniteSets, FiniteSetsExt, SequencesExt

Estimators == {"gae", "grpo", "grpo_passk", "reinforce_plus_plus_baseline", "rloo", "opo",
               "reinforce_plus_plus", "remax", "gpg"}

Score(resp)  == SumFunction(resp.rewards)
Length(resp) == Cardinality({t \in DOMAIN resp.mask : resp.mask[t]})

\* id2score: the responses with the same uid.
\* Mutant of Group: the responses next to each other, as they were generated.
GroupNearby(batch, i) ==
  LET n == Cardinality({j \in DOMAIN batch : batch[j].uid = batch[i].uid})
  IN  {j \in DOMAIN batch : (j - 1) \div n = (i - 1) \div n}
Group(batch, i) == {j \in DOMAIN batch : batch[j].uid = batch[i].uid}

TotalScore(batch, S)  == SumFunctionOnSet([j \in S |-> Score(batch[j])], S)
TotalLength(batch, S) == SumFunctionOnSet([j \in S |-> Length(batch[j])], S)

\* One number for all tokens of the response
OnTokens(resp, num, den) ==
  [num |-> [t \in DOMAIN resp.mask |-> IF resp.mask[t] THEN num ELSE 0], den |-> den]

\* The mean of a group of one is taken to be zero.
FromMean(batch, i) ==
  LET G == Group(batch, i)  k == Cardinality(G)
  IN  [num |-> IF k = 1 THEN Score(batch[i]) ELSE k * Score(batch[i]) - TotalScore(batch, G),
       size |-> k]

Grpo(batch, i) == LET a == FromMean(batch, i) IN OnTokens(batch[i], a.num, a.size)

Rloo(batch, i) == LET a == FromMean(batch, i)
                  IN  OnTokens(batch[i], a.num, IF a.size = 1 THEN 1 ELSE a.size - 1)

Opo(batch, i) ==
  LET G == Group(batch, i)
      baseline == SumFunctionOnSet([j \in G |-> Length(batch[j]) * Score(batch[j])], G)
      total == TotalLength(batch, G)
  IN  IF Cardinality(G) = 1 THEN OnTokens(batch[i], Score(batch[i]), 1)
      ELSE OnTokens(batch[i], total * Score(batch[i]) - baseline, total)

\* The batch size over the number of scores that are not zero is a factor.
Gpg(batch, i) ==
  LET a == FromMean(batch, i)
      m == Cardinality({j \in DOMAIN batch : Score(batch[j]) # 0})
  IN  OnTokens(batch[i], Len(batch) * a.num, a.size * (IF m = 0 THEN 1 ELSE m))

\* topk: the best response gets what it has over the second best.
PassK(batch, i) ==
  LET G == Group(batch, i)
      best == CHOOSE j \in G : \A l \in G : Score(batch[l]) <= Score(batch[j])
      second == Max({Score(batch[l]) : l \in G \ {best}})
  IN  OnTokens(batch[i], IF i = best THEN Score(batch[i]) - second ELSE 0, 1)

\* From the last token to the first.  Tokens the model did not generate are skipped: they
\* hand on the next value and the advantage.
Gae(resp, gamma, lam) ==
  LET n == Len(resp.rewards)
      from[t \in 1..n + 1] ==
        IF t = n + 1 THEN [next |-> 0, adv |-> 0]
        ELSE LET delta == resp.rewards[t] + gamma * from[t + 1].next - resp.values[t]
             IN  IF resp.mask[t]
                   THEN [next |-> resp.values[t], adv |-> delta + gamma * lam * from[t + 1].adv]
                   ELSE from[t + 1]
  IN  [num |-> [t \in 1..n |-> from[t].adv], den |-> 1]

\* The running return starts anew behind each token the model did not generate.
ReinforcePlusPlus(resp, gamma) ==
  LET n == Len(resp.rewards)
      return[t \in 1..n + 1] ==
        IF t = n + 1 THEN 0
        ELSE resp.rewards[t] + gamma * (IF t < n /\ ~resp.mask[t + 1] THEN 0 ELSE return[t + 1])
  IN  [num |-> [t \in 1..n |-> IF resp.mask[t] THEN return[t] ELSE 0], den |-> 1]

Remax(resp) ==
  LET n == Len(resp.rewards)
      masked == [t \in 1..n |-> IF resp.mask[t] THEN resp.rewards[t] ELSE 0]
  IN  [num |-> [t \in 1..n |-> SumFunctionOnSet(masked, t..n)
                                 - (IF resp.mask[t] THEN resp.baseline ELSE 0)],
       den |-> 1]

\* compute_advantage, for row i of the batch.
Advantage(estimator, gamma, lam, batch, i) ==
  CASE estimator = "gae"        -> Gae(batch[i], gamma, lam)
    [] estimator \in {"grpo", "reinforce_plus_plus_baseline"} -> Grpo(batch, i)
    [] estimator = "grpo_passk" -> PassK(batch, i)
    [] estimator = "rloo"       -> Rloo(batch, i)
    [] estimator = "opo"        -> Opo(batch, i)
    [] estimator = "gpg"        -> Gpg(batch, i)
    [] estimator = "reinforce_plus_plus" -> ReinforcePlusPlus(batch[i], gamma)
    [] estimator = "remax"      -> Remax(batch[i])

-----------------------------------------------------------------------------
(***************************************************************************)
(* The reference: what each estimator is defined as, for a response r of   *)
(* an indexed family resp whose members N answer the same prompt.          *)
(***************************************************************************)
Power(x, n) == LET power[i \in 0..n] == IF i = 0 THEN 1 ELSE x * power[i - 1] IN power[n]

\* Discounted by the tokens the model generated in between, the sum of f from token t on
TrainedFrom(mask, t) == {u \in DOMAIN mask : u >= t /\ mask[u]}
Between(mask, t, u)  == Cardinality(TrainedFrom(mask, t) \ TrainedFrom(mask, u))
Discounted(mask, rate, f, t) ==
  SumFunctionOnSet([u \in TrainedFrom(mask, t) |-> Power(rate, Between(mask, t, u)) * f[u]],
                   TrainedFrom(mask, t))

TdError(resp, gamma, t) ==
  LET later == TrainedFrom(resp.mask, t + 1)
  IN  resp.rewards[t] - resp.values[t]
        + (IF later = {} THEN 0 ELSE gamma * resp.values[Min(later)])

\* A weighted mean of how much better the response is than the others, whose weights w
\* have the sum total
IsLead(adv, t, resp, r, N, w, total) ==
  adv.num[t] * total
    = adv.den * SumFunctionOnSet([j \in N |-> w[j] * (Score(resp[r]) - Score(resp[j]))], N)

\* No token of the model follows one of a tool
Gapless(mask) == \A t \in DOMAIN mask : ~mask[t] => TrainedFrom(mask, t) = {}

IsAdvantage(estimator, gamma, lam, resp, r, adv, t) ==
  LET N == {j \in DOMAIN resp : resp[j].uid = resp[r].uid}
      k == Cardinality(N)
      lead(total) == IsLead(adv, t, resp, r, N, [j \in N |-> 1], total)
  IN  CASE estimator \in {"grpo", "rloo", "opo", "reinforce_plus_plus_baseline"} /\ k = 1 ->
             adv.num[t] = adv.den * Score(resp[r])
        [] estimator \in {"grpo", "reinforce_plus_plus_baseline"} /\ k > 1 -> lead(k)
        [] estimator = "rloo" /\ k > 1 -> lead(k - 1)
        [] estimator = "opo" /\ k > 1  ->
             IsLead(adv, t, resp, r, N, [j \in N |-> Length(resp[j])],
                    TotalLength(resp, N))
        [] estimator = "gpg" ->
             LET m == Cardinality({j \in DOMAIN resp : Score(resp[j]) # 0})
             IN  m > 0 /\ k > 1 =>
                   IsLead([adv EXCEPT !.den = @ * Cardinality(DOMAIN resp)], t, resp, r, N,
                          [j \in N |-> 1], k * m)
        [] estimator = "grpo_passk" ->
             LET others == Max({Score(resp[j]) : j \in N \ {r}})
             IN  adv.num[t] = Max({0, Score(resp[r]) - others})
        [] estimator = "gae" ->
             adv.num[t] = Discounted(resp[r].mask, gamma * lam,
                                     [u \in DOMAIN resp[r].mask |-> TdError(resp[r], gamma, u)], t)
        [] estimator = "reinforce_plus_plus" ->
             Gapless(resp[r].mask) =>
               adv.num[t] = Discounted(resp[r].mask, gamma, resp[r].rewards, t)
        [] estimator = "remax" ->
             adv.num[t] = Discounted(resp[r].mask, 1, resp[r].rewards, t)
                            - resp[r].baseline
=============================================================================
