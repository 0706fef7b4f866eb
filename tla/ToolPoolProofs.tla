--------------------------- MODULE ToolPoolProofs ---------------------------
(***************************************************************************)
(* What holds of the tools for every number of conversations, tools,       *)
(* processes, threads and permits: no permit is lost or made, and the      *)
(* shared actor is a rate limiter of all calls.                            *)
(*                                                                         *)
(* Permits alone are not inductive: a permit is granted to the call at the *)
(* head of the limiter's queue, and that it does not hold one already      *)
(* follows from the queues: each lists, once, exactly the calls that wait  *)
(* in it.                                                                  *)
(***************************************************************************)
EXTENDS ToolPool, FiniteSetTheorems, SequenceTheorems, TLAPS

CallStates == {"idle", "queued", "acquiring", "running"} \union Returned

ToolTypeOK ==
  /\ owner \in [Requests -> Owners]
  /\ limit \in Nat \ {0} /\ permits \in Nat /\ releasing \in Nat
  /\ acquiring \in Seq(Calls) /\ backlog \in [Pools -> Seq(Calls)]
  /\ call \in [Calls -> CallStates]
  /\ instances \subseteq Calls

ToolInv == ToolTypeOK /\ QueuesMatch /\ PermitsConserved

LEMMA CallsFinite == IsFiniteSet(Calls)
BY ToolAssumption, FS_Product DEF Calls

\* The calls that hold a permit are finitely many.
LEMMA HoldingFinite == IsFiniteSet(Holding) /\ Cardinality(Holding) \in Nat
<1>1. Holding \subseteq Calls
  BY DEF Holding
<1> QED BY <1>1, CallsFinite, FS_Subset, FS_CardinalityType

\* What is left of a queue that lists a set lists the set without its head.
LEMMA TailLists ==
  ASSUME NEW C, NEW q \in Seq(C), q # <<>>, NEW S, Lists(q, S)
  PROVE  /\ Head(q) \in S /\ Head(q) \in C
         /\ Tail(q) \in Seq(C) /\ Lists(Tail(q), S \ {Head(q)})
<1> DEFINE t == Tail(q)
<1>1. /\ t \in Seq(C) /\ Head(q) \in C /\ Head(q) = q[1]
      /\ DOMAIN q = 1..Len(q) /\ Len(q) \in Nat \ {0}
      /\ DOMAIN t = 1..(Len(q) - 1)
      /\ \A i \in 1..(Len(q) - 1) : t[i] = q[i + 1]
  BY HeadTailProperties, LenProperties
<1>2. /\ \A i \in 1..(Len(q) - 1) : i + 1 \in 1..Len(q) /\ i + 1 # 1
      /\ \A i \in 1..Len(q) : i # 1 => i - 1 \in 1..(Len(q) - 1) /\ (i - 1) + 1 = i
      /\ 1 \in 1..Len(q)
  BY <1>1
<1> HIDE DEF t
<1>3. /\ \A i, j \in 1..Len(q) : q[i] = q[j] => i = j
      /\ {q[i] : i \in 1..Len(q)} = S
  BY <1>1 DEF Lists
<1>4. \A i, j \in 1..(Len(q) - 1) : t[i] = t[j] => i = j
  <2> SUFFICES ASSUME NEW i \in 1..(Len(q) - 1), NEW j \in 1..(Len(q) - 1), t[i] = t[j]
               PROVE  i = j
    OBVIOUS
  <2>1. i + 1 = j + 1
    BY <1>1, <1>2, <1>3
  <2> QED BY <2>1, <1>1
<1>5. ASSUME NEW i \in 1..(Len(q) - 1) PROVE t[i] \in S \ {Head(q)}
  <2>1. t[i] = q[i + 1] /\ i + 1 \in 1..Len(q) /\ i + 1 # 1
    BY <1>1, <1>2
  <2> QED BY <2>1, <1>1, <1>2, <1>3
<1>6. ASSUME NEW x \in S \ {Head(q)} PROVE \E i \in 1..(Len(q) - 1) : x = t[i]
  <2>1. PICK j \in 1..Len(q) : x = q[j]
    BY <1>3
  <2>2. j # 1
    BY <2>1, <1>1
  <2>3. t[j - 1] = q[(j - 1) + 1] /\ (j - 1) + 1 = j
    BY <2>2, <1>1, <1>2
  <2> QED BY <2>1, <2>2, <2>3, <1>2
<1>7. {t[i] : i \in 1..(Len(q) - 1)} = S \ {Head(q)}
  BY <1>5, <1>6
<1>8. Lists(t, S \ {Head(q)})
  BY <1>1, <1>4, <1>7 DEF Lists
<1>9. Head(q) \in S
  BY <1>1, <1>2, <1>3
<1> QED BY <1>1, <1>8, <1>9 DEF t

\* A queue that lists a set, with something new appended, lists that too.
LEMMA AppendLists ==
  ASSUME NEW C, NEW q \in Seq(C), NEW c \in C, NEW S, Lists(q, S), c \notin S
  PROVE  Append(q, c) \in Seq(C) /\ Lists(Append(q, c), S \union {c})
<1> DEFINE a == Append(q, c)
<1>1. /\ a \in Seq(C) /\ DOMAIN q = 1..Len(q) /\ Len(q) \in Nat
      /\ DOMAIN a = 1..(Len(q) + 1)
      /\ \A i \in 1..Len(q) : a[i] = q[i]
      /\ a[Len(q) + 1] = c
  BY LenProperties
<1>2. 1..(Len(q) + 1) = 1..Len(q) \union {Len(q) + 1}
  BY <1>1
<1> HIDE DEF a
<1>3. /\ \A i, j \in 1..Len(q) : q[i] = q[j] => i = j
      /\ {q[i] : i \in 1..Len(q)} = S
  BY <1>1 DEF Lists
<1>4. \A i \in 1..Len(q) : q[i] \in S /\ q[i] # c
  BY <1>3
<1>5. \A i, j \in DOMAIN a : a[i] = a[j] => i = j
  BY <1>1, <1>2, <1>3, <1>4
<1>6. {a[i] : i \in DOMAIN a} = S \union {c}
  BY <1>1, <1>2, <1>3
<1> QED BY <1>1, <1>5, <1>6 DEF Lists, a

-----------------------------------------------------------------------------
LEMMA InitInv == ToolInit => ToolInv
<1> SUFFICES ASSUME ToolInit PROVE ToolInv
  OBVIOUS
<1> USE DEF ToolInit
<1>1. ToolTypeOK
  <2>1. limit \in Nat \ {0} /\ owner \in [Requests -> Owners]
    BY ToolAssumption
  <2>2. <<>> \in Seq(Calls)
    BY EmptySeq
  <2>3. backlog \in [Pools -> Seq(Calls)]
    BY <2>2
  <2> QED BY <2>1, <2>2, <2>3 DEF ToolTypeOK, CallStates
<1>2. Holding = {} /\ Waiting = {} /\ \A p \in Pools : Queued(p) = {}
  BY DEF Holding, Waiting, Queued
<1>3. QueuesMatch
  <2>1. Lists(<<>>, {})
    BY DEF Lists
  <2> QED BY <1>2, <2>1 DEF QueuesMatch
<1>4. PermitsConserved
  BY <1>1, <1>2, FS_EmptySet DEF PermitsConserved, ToolTypeOK
<1> QED BY <1>1, <1>3, <1>4 DEF ToolInv

\* A pool takes the head of its backlog, which then waits at the limiter.
LEMMA StartCallInv ==
  ASSUME ToolInv, NEW p \in Pools, StartCall(p) PROVE ToolInv' /\ Holding' = Holding
<1> USE DEF ToolInv, ToolTypeOK
<1> DEFINE c == Head(backlog[p])
<1>1. /\ call' = [call EXCEPT ![c] = "acquiring"]
      /\ acquiring' = Append(acquiring, c)
      /\ backlog' = [backlog EXCEPT ![p] = Tail(@)]
      /\ UNCHANGED <<owner, limit, permits, releasing, instances>>
      /\ backlog[p] # <<>> /\ backlog[p] \in Seq(Calls) /\ Lists(backlog[p], Queued(p))
  BY DEF StartCall, QueuesMatch
<1>2. /\ c \in Queued(p) /\ c \in Calls
      /\ Tail(backlog[p]) \in Seq(Calls) /\ Lists(Tail(backlog[p]), Queued(p) \ {c})
  BY <1>1, TailLists
<1> HIDE DEF c
<1>3. call[c] = "queued" /\ PoolOf(c) = p
  BY <1>2 DEF Queued
<1>4. \A d \in Calls : call'[d] = IF d = c THEN "acquiring" ELSE call[d]
  BY <1>1
<1>5. acquiring' \in Seq(Calls) /\ Lists(acquiring', Waiting \union {c})
  BY <1>1, <1>2, <1>3, AppendLists DEF QueuesMatch, Waiting
<1>6. Waiting' = Waiting \union {c} /\ Holding' = Holding
  BY <1>2, <1>3, <1>4 DEF Waiting, Holding
<1>7. \A q \in Pools : Queued(q)' = Queued(q) \ {c}
  BY <1>1, <1>3, <1>4 DEF Queued, PoolOf
<1>8. \A q \in Pools : q # p => c \notin Queued(q)
  BY <1>3 DEF Queued
<1>9. ASSUME NEW q \in Pools PROVE Lists(backlog'[q], Queued(q)')
  <2>1. CASE q = p
    BY <1>1, <1>2, <1>7, <2>1
  <2>2. CASE q # p
    <3>1. Queued(q) \ {c} = Queued(q) /\ backlog'[q] = backlog[q]
      BY <1>1, <1>8, <2>2
    <3> QED BY <1>7, <3>1 DEF QueuesMatch
  <2> QED BY <2>1, <2>2
<1>10. QueuesMatch'
  BY <1>5, <1>6, <1>9 DEF QueuesMatch
<1>11. ToolTypeOK'
  BY <1>1, <1>2, <1>5 DEF CallStates
<1>12. PermitsConserved'
  BY <1>1, <1>6 DEF PermitsConserved
<1> QED BY <1>6, <1>10, <1>11, <1>12

\* The head of the limiter's queue gets a permit: fewer than the limit had one.
LEMMA GrantInv ==
  ASSUME ToolInv, Grant
  PROVE  ToolInv' /\ \E c \in Calls : /\ c \notin Holding /\ Holding' = Holding \union {c}
                                     /\ Cardinality(Holding) < limit
<1> USE DEF ToolInv, ToolTypeOK
<1> DEFINE c == Head(acquiring)
<1>1. /\ acquiring # <<>> /\ permits > 0 /\ permits' = permits - 1
      /\ call' = [call EXCEPT ![c] = "running"] /\ acquiring' = Tail(acquiring)
      /\ UNCHANGED <<owner, limit, releasing, backlog, instances>>
  BY DEF Grant
<1>2. /\ c \in Waiting /\ c \in Calls
      /\ Tail(acquiring) \in Seq(Calls) /\ Lists(Tail(acquiring), Waiting \ {c})
  BY <1>1, TailLists DEF QueuesMatch
<1> HIDE DEF c
<1>3. call[c] = "acquiring"
  BY <1>2 DEF Waiting
<1>4. \A d \in Calls : call'[d] = IF d = c THEN "running" ELSE call[d]
  BY <1>1
<1>5. Waiting' = Waiting \ {c} /\ Holding' = Holding \union {c} /\ c \notin Holding
  BY <1>2, <1>3, <1>4 DEF Waiting, Holding
<1>6. \A q \in Pools : Queued(q)' = Queued(q)
  BY <1>1, <1>3, <1>4 DEF Queued, PoolOf
<1>7. QueuesMatch'
  BY <1>1, <1>2, <1>5, <1>6 DEF QueuesMatch
<1>8. ToolTypeOK'
  BY <1>1, <1>2 DEF CallStates
<1>9. Cardinality(Holding') = Cardinality(Holding) + 1
  BY <1>5, HoldingFinite, FS_AddElement
<1>10. PermitsConserved'
  BY <1>1, <1>9, HoldingFinite DEF PermitsConserved
<1>11. Cardinality(Holding) < limit
  BY <1>1, HoldingFinite DEF PermitsConserved
<1> QED BY <1>2, <1>5, <1>7, <1>8, <1>10, <1>11

\* A call that has executed has its permit sent back.
LEMMA ExecuteInv ==
  ASSUME ToolInv, NEW c \in Calls, Execute(c)
  PROVE  ToolInv' /\ c \in Holding /\ Holding' = Holding \ {c}
<1> USE DEF ToolInv, ToolTypeOK
<1>1. PICK outcome \in Returned : call' = [call EXCEPT ![c] = outcome]
  BY DEF Execute
<1>2. /\ call[c] = "running" /\ releasing' = releasing + 1
      /\ UNCHANGED <<owner, limit, permits, acquiring, backlog, instances>>
  BY DEF Execute
<1>3. \A d \in Calls : call'[d] = IF d = c THEN outcome ELSE call[d]
  BY <1>1
<1>4. outcome \notin {"idle", "queued", "acquiring", "running"}
  BY DEF Returned
<1>5. Waiting' = Waiting /\ Holding' = Holding \ {c} /\ c \in Holding
  BY <1>2, <1>3, <1>4 DEF Waiting, Holding
<1>6. \A q \in Pools : Queued(q)' = Queued(q)
  BY <1>2, <1>3, <1>4 DEF Queued, PoolOf
<1>7. QueuesMatch'
  BY <1>2, <1>5, <1>6 DEF QueuesMatch
<1>8. ToolTypeOK'
  BY <1>1, <1>2 DEF CallStates
<1>9. Cardinality(Holding') = Cardinality(Holding) - 1
  BY <1>5, HoldingFinite, FS_RemoveElement
<1>10. PermitsConserved'
  BY <1>2, <1>9, HoldingFinite DEF PermitsConserved
<1> QED BY <1>5, <1>7, <1>8, <1>10

LEMMA PutBackInv == ASSUME ToolInv, PutBack PROVE ToolInv' /\ Holding' = Holding
<1> USE DEF ToolInv, ToolTypeOK
<1>1. /\ releasing > 0 /\ releasing' = releasing - 1 /\ permits' = permits + 1
      /\ UNCHANGED <<owner, limit, acquiring, backlog, call, instances>>
  BY DEF PutBack
<1>2. Holding' = Holding /\ Waiting' = Waiting /\ \A q \in Pools : Queued(q)' = Queued(q)
  BY <1>1 DEF Holding, Waiting, Queued, PoolOf
<1>3. ToolTypeOK'
  BY <1>1
<1>4. QueuesMatch'
  BY <1>1, <1>2 DEF QueuesMatch
<1>5. PermitsConserved'
  BY <1>1, <1>2, HoldingFinite DEF PermitsConserved
<1> QED BY <1>2, <1>3, <1>4, <1>5

\* Calls that are idle are sent to the pools of their tools.
LEMMA SubmitInv ==
  ASSUME ToolInv, NEW r \in Requests, NEW ts \in SUBSET Tools,
         \A c \in CallsOf(r, ts) : call[c] = "idle", Submit(r, ts), instances' \in SUBSET Calls
  PROVE  ToolInv' /\ Holding' = Holding
<1> USE DEF ToolInv, ToolTypeOK
<1>1. /\ call' = [c \in Calls |-> IF c \in CallsOf(r, ts) THEN "queued" ELSE call[c]]
      /\ backlog' = [p \in Pools |-> IF p[1] = owner[r] /\ p[2] \in ts
                                       THEN Append(backlog[p], <<r, p[2]>>) ELSE backlog[p]]
      /\ UNCHANGED <<owner, limit, permits, acquiring, releasing>>
  BY DEF Submit
<1>2. CallsOf(r, ts) \subseteq Calls
  BY DEF CallsOf, Calls
<1>3. Holding' = Holding /\ Waiting' = Waiting
  BY <1>1, <1>2 DEF Holding, Waiting
<1>4. ASSUME NEW p \in Pools
      PROVE  backlog'[p] \in Seq(Calls) /\ Lists(backlog'[p], Queued(p)')
  <2>1. CASE p[1] = owner[r] /\ p[2] \in ts
    <3> DEFINE c == <<r, p[2]>>
    <3>1. c \in CallsOf(r, ts) /\ c \in Calls /\ p = <<p[1], p[2]>>
      BY <1>2, <2>1 DEF CallsOf, Pools
    <3>2. \A d \in CallsOf(r, ts) : PoolOf(d) = p => d = c
      BY <2>1 DEF CallsOf, PoolOf
    <3>3. PoolOf(c) = p
      BY <2>1, <3>1 DEF PoolOf
    <3>4. Queued(p)' = Queued(p) \union {c} /\ c \notin Queued(p)
      BY <1>1, <3>1, <3>2, <3>3 DEF Queued, PoolOf
    <3>5. backlog'[p] = Append(backlog[p], c)
      BY <1>1, <2>1
    <3> HIDE DEF c
    <3> QED BY <3>1, <3>4, <3>5, AppendLists DEF QueuesMatch
  <2>2. CASE ~(p[1] = owner[r] /\ p[2] \in ts)
    <3>1. \A d \in CallsOf(r, ts) : PoolOf(d) # p
      BY <2>2 DEF CallsOf, PoolOf
    <3>2. Queued(p)' = Queued(p)
      BY <1>1, <3>1 DEF Queued, PoolOf
    <3>3. backlog'[p] = backlog[p]
      BY <1>1, <2>2
    <3> QED BY <3>2, <3>3 DEF QueuesMatch
  <2> QED BY <2>1, <2>2
<1>5. ToolTypeOK'
  BY <1>1, <1>4 DEF CallStates
<1>6. QueuesMatch'
  BY <1>1, <1>3, <1>4 DEF QueuesMatch
<1>7. PermitsConserved'
  BY <1>1, <1>3 DEF PermitsConserved
<1> QED BY <1>3, <1>5, <1>6, <1>7

\* The outcomes of a conversation all of whose calls have returned are forgotten.
LEMMA CollectInv ==
  ASSUME ToolInv, NEW r \in Requests, Collect(r), instances' \in SUBSET Calls
  PROVE  ToolInv' /\ Holding' = Holding
<1> USE DEF ToolInv, ToolTypeOK
<1>1. /\ Outstanding(r) = {}
      /\ call' = [c \in Calls |-> IF c[1] = r THEN "idle" ELSE call[c]]
      /\ UNCHANGED <<owner, limit, permits, acquiring, releasing, backlog>>
  BY DEF Collect
<1>2. \A c \in Calls : c[1] = r => call[c] \in {"idle"} \union Returned
  BY <1>1 DEF Outstanding, CallsOf, Calls
<1>3. \A c \in Calls : c[1] = r => call[c] \notin {"queued", "acquiring", "running"}
  BY <1>2 DEF Returned
<1>4. Holding' = Holding /\ Waiting' = Waiting /\ \A p \in Pools : Queued(p)' = Queued(p)
  BY <1>1, <1>3 DEF Holding, Waiting, Queued, PoolOf
<1>5. ToolTypeOK'
  BY <1>1 DEF CallStates
<1>6. QueuesMatch'
  BY <1>1, <1>4 DEF QueuesMatch
<1>7. PermitsConserved'
  BY <1>1, <1>4 DEF PermitsConserved
<1> QED BY <1>4, <1>5, <1>6, <1>7

\* A step that leaves the queues, calls and permits alone.
LEMMA RestInv ==
  ASSUME ToolInv, UNCHANGED <<owner, limit, permits, acquiring, releasing, backlog, call>>,
         instances' \in SUBSET Calls
  PROVE  ToolInv' /\ Holding' = Holding
<1>1. Holding' = Holding /\ Waiting' = Waiting /\ \A q \in Pools : Queued(q)' = Queued(q)
  BY DEF Holding, Waiting, Queued, PoolOf
<1>2. ToolTypeOK'
  BY DEF ToolInv, ToolTypeOK
<1>3. QueuesMatch'
  BY <1>1 DEF ToolInv, QueuesMatch
<1>4. PermitsConserved'
  BY <1>1 DEF ToolInv, PermitsConserved
<1> QED BY <1>1, <1>2, <1>3, <1>4 DEF ToolInv

-----------------------------------------------------------------------------
\* Every step of the tools keeps the invariant and is a step of the limiter, or none of it.
LEMMA ToolNextInv ==
  ASSUME ToolInv, [ToolNext]_toolVars
  PROVE  ToolInv' /\ [Limiter!Next]_<<limit, Holding>>
<1>1. ASSUME UNCHANGED toolVars PROVE ToolInv' /\ [Limiter!Next]_<<limit, Holding>>
  <2>1. instances' \in SUBSET Calls
    BY <1>1 DEF toolVars, ToolInv, ToolTypeOK
  <2> QED BY <1>1, <2>1, RestInv DEF toolVars
<1>2. ASSUME NEW p \in Pools, StartCall(p)
      PROVE  ToolInv' /\ [Limiter!Next]_<<limit, Holding>>
  BY <1>2, StartCallInv DEF StartCall
<1>3. ASSUME Grant PROVE ToolInv' /\ [Limiter!Next]_<<limit, Holding>>
  <2>1. Limiter!Cardinality(Holding) = Cardinality(Holding)
    BY DEF Limiter!Cardinality, Cardinality
  <2> QED BY <1>3, <2>1, GrantInv DEF Grant, Limiter!Next, Limiter!Enter
<1>4. ASSUME NEW c \in Calls, Execute(c)
      PROVE  ToolInv' /\ [Limiter!Next]_<<limit, Holding>>
  BY <1>4, ExecuteInv DEF Execute, Limiter!Next, Limiter!Leave
<1>5. ASSUME PutBack PROVE ToolInv' /\ [Limiter!Next]_<<limit, Holding>>
  BY <1>5, PutBackInv DEF PutBack
<1>6. ASSUME NEW r \in Requests, Use(r)
      PROVE  ToolInv' /\ [Limiter!Next]_<<limit, Holding>>
  BY <1>6, SubmitInv, CollectInv, RestInv DEF Use, Submit, Collect
<1>7. \/ \E p \in Pools : StartCall(p)
      \/ Grant
      \/ \E c \in Calls : Execute(c)
      \/ PutBack
      \/ \E r \in Requests : Use(r)
      \/ UNCHANGED toolVars
  BY DEF ToolNext, ToolStep
<1> QED BY <1>1, <1>2, <1>3, <1>4, <1>5, <1>6, <1>7, Zenon

\* No permit is lost or made, whatever calls are made and whichever of them raise.
THEOREM ToolsConserve == ToolSpec => []PermitsConserved
<1>1. ToolInv /\ [ToolNext]_toolVars => ToolInv'
  BY ToolNextInv
<1>2. ToolInv => PermitsConserved
  BY DEF ToolInv
<1> QED BY InitInv, <1>1, <1>2, PTL DEF ToolSpec

\* The tools' shared actor refines RateLimiter: the calls that execute are at no time more
\* than the rate limit of the configuration it was made with.
THEOREM ToolsRefineLimiter == ToolSpec => LimiterRefined
<1>1. ToolInit => Limiter!Init
  BY ToolAssumption DEF ToolInit, Limiter!Init, Holding
<1>2. ToolInv /\ [ToolNext]_toolVars => ToolInv' /\ [Limiter!Next]_<<limit, Holding>>
  BY ToolNextInv
<1> QED BY InitInv, <1>1, <1>2, PTL DEF ToolSpec, LimiterRefined, Limiter!Spec
=============================================================================
