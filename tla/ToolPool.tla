------------------------------ MODULE ToolPool ------------------------------
(***************************************************************************)
(* The tools of a multi-turn rollout (verl/tools/sandbox_fusion_tools.py   *)
(* and search_tool.py).  Each process that runs conversations has, for     *)
(* each tool, an execution actor of a bounded concurrency (ExecutionWorker,*)
(* SearchExecutionWorker); all of them share one named actor, the limiter  *)
(* (TokenBucketWorker), whose semaphore a call holds while it executes.    *)
(* The limiter serves acquire in one thread, in the order of arrival;      *)
(* release is sent without waiting for it.                                 *)
(*                                                                         *)
(* A tool keeps an instance per conversation from create to release.       *)
(*                                                                         *)
(* Bound: a conversation has at most one call of each tool under way.      *)
(***************************************************************************)
EXTENDS Naturals, Sequences, FiniteSets

CONSTANTS
  Requests,    \* the conversations, AsyncRolloutRequest or AgentLoop
  Tools,       \* the tools
  Owners,      \* the processes that run conversations
  Placements,  \* which process each conversation may run in
  NumWorkers,  \* max_concurrency of each tool's execution actor
  RateLimit    \* rate_limit of each tool's configuration

ASSUME ToolAssumption ==
  /\ IsFiniteSet(Requests) /\ IsFiniteSet(Tools)
  /\ IsFiniteSet(Owners) /\ Placements \subseteq [Requests -> Owners]
  /\ NumWorkers \in [Tools -> Nat \ {0}] /\ RateLimit \in [Tools -> Nat \ {0}]

Calls     == Requests \X Tools
Pools     == Owners \X Tools

VARIABLES
  owner,      \* the process each conversation runs in
  limit,      \* the rate limit of the limiter
  permits,    \* value of its semaphore
  acquiring,  \* calls of acquire it has not answered
  releasing,  \* calls of release it has not executed
  backlog,    \* calls of execute each pool has not started
  call,       \* where each call is, with its outcome once it has returned
  instances   \* _instance_dict of the tools: the conversations each has an instance of

toolVars == <<owner, limit, permits, acquiring, releasing, backlog, call, instances>>

PoolOf(c) == <<owner[c[1]], c[2]>>
Holding   == {c \in Calls : call[c] = "running"}
Waiting   == {c \in Calls : call[c] = "acquiring"}
Queued(p) == {c \in Calls : PoolOf(c) = p /\ call[c] = "queued"}
Busy(p)   == {c \in Calls : PoolOf(c) = p /\ call[c] \in {"acquiring", "running"}}
Returned  == {"ok", "none"}

\* get_if_exists: the limiter is made by the first tool to ask for it, with its own
\* rate limit, and every other tool gets that one.
ToolInit ==
  /\ owner \in Placements
  /\ limit \in {RateLimit[t] : t \in Tools}
  /\ permits = limit /\ acquiring = <<>> /\ releasing = 0
  /\ backlog = [p \in Pools |-> <<>>]
  /\ call = [c \in Calls |-> "idle"]
  /\ instances = {}

-----------------------------------------------------------------------------
(* What a conversation does with the tools ts.  The calls of one message   *)
(* are gathered: they are all sent before any of them is awaited.          *)
CallsOf(r, ts) == {r} \X ts

Create(r, ts)  == instances' = instances \union CallsOf(r, ts)
Release(r, ts) == instances' = instances \ CallsOf(r, ts)

Submit(r, ts) ==
  /\ call' = [c \in Calls |-> IF c \in CallsOf(r, ts) THEN "queued" ELSE call[c]]
  /\ backlog' = [p \in Pools |-> IF p[1] = owner[r] /\ p[2] \in ts
                                   THEN Append(backlog[p], <<r, p[2]>>) ELSE backlog[p]]
  /\ UNCHANGED <<owner, limit, permits, acquiring, releasing>>

Outstanding(r) == {c \in CallsOf(r, Tools) : call[c] \notin {"idle"} \union Returned}

\* Every call of r has returned: its outcomes are read and forgotten.
Collect(r) ==
  /\ Outstanding(r) = {}
  /\ call' = [c \in Calls |-> IF c[1] = r THEN "idle" ELSE call[c]]
  /\ UNCHANGED <<owner, limit, permits, acquiring, releasing, backlog>>

-----------------------------------------------------------------------------
(* The execution actors and the limiter.                                   *)

\* A pool with a free thread takes its next call, which asks the limiter for a permit;
\* its release is registered before.
StartCall(p) ==
  /\ backlog[p] # <<>> /\ Cardinality(Busy(p)) < NumWorkers[p[2]]
  /\ LET c == Head(backlog[p])
     IN  /\ call' = [call EXCEPT ![c] = "acquiring"]
         /\ acquiring' = Append(acquiring, c)
  /\ backlog' = [backlog EXCEPT ![p] = Tail(@)]
  /\ UNCHANGED <<owner, limit, permits, releasing, instances>>

\* The thread of acquire gets the semaphore for the call it serves.
\* Mutant of Grant: the semaphore is not waited for.
GrantAtOnce ==
  /\ acquiring # <<>>
  /\ permits' = IF permits > 0 THEN permits - 1 ELSE 0
  /\ call' = [call EXCEPT ![Head(acquiring)] = "running"]
  /\ acquiring' = Tail(acquiring)
  /\ UNCHANGED <<owner, limit, releasing, backlog, instances>>
Grant ==
  /\ acquiring # <<>> /\ permits > 0
  /\ permits' = permits - 1
  /\ call' = [call EXCEPT ![Head(acquiring)] = "running"]
  /\ acquiring' = Tail(acquiring)
  /\ UNCHANGED <<owner, limit, releasing, backlog, instances>>

\* The function returns, or raises and the call returns nothing; either way the callback
\* sends the release.
\* Mutant of Execute: a function that raises leaves without a release.
ExecuteReleaseOnOk(c) ==
  /\ call[c] = "running"
  /\ \E outcome \in Returned :
        /\ call' = [call EXCEPT ![c] = outcome]
        /\ releasing' = IF outcome = "ok" THEN releasing + 1 ELSE releasing
  /\ UNCHANGED <<owner, limit, permits, acquiring, backlog, instances>>
Execute(c) ==
  /\ call[c] = "running"
  /\ \E outcome \in Returned : call' = [call EXCEPT ![c] = outcome]
  /\ releasing' = releasing + 1
  /\ UNCHANGED <<owner, limit, permits, acquiring, backlog, instances>>

\* The limiter executes a release.
PutBack ==
  /\ releasing > 0
  /\ releasing' = releasing - 1 /\ permits' = permits + 1
  /\ UNCHANGED <<owner, limit, acquiring, backlog, call, instances>>

ToolStep == (\E p \in Pools : StartCall(p)) \/ Grant \/ (\E c \in Calls : Execute(c)) \/ PutBack

-----------------------------------------------------------------------------
(* The tools alone, with conversations that make and release instances as  *)
(* they like, and may call whatever is idle.                               *)
Use(r) ==
  /\ instances' \in SUBSET Calls
  /\ \/ \E ts \in SUBSET Tools : /\ \A c \in CallsOf(r, ts) : call[c] = "idle"
                                /\ Submit(r, ts)
     \/ Collect(r)
     \/ UNCHANGED <<owner, limit, permits, acquiring, releasing, backlog, call>>

ToolNext == ToolStep \/ \E r \in Requests : Use(r)

ToolSpec == ToolInit /\ [][ToolNext]_toolVars

-----------------------------------------------------------------------------
(***************************************************************************)
(* Properties.                                                             *)
(***************************************************************************)

\* Permits are neither lost nor made: those the semaphore has, those calls hold and those
\* on their way back are the rate limit, whatever order acquire and release arrive in.
PermitsConserved == permits + Cardinality(Holding) + releasing = limit

\* The calls the limiter is asked for are those waiting for it, each once; those a pool has
\* still to start are the ones queued with it, each once.
Lists(q, S) == {q[i] : i \in DOMAIN q} = S /\ \A i, j \in DOMAIN q : q[i] = q[j] => i = j
QueuesMatch == Lists(acquiring, Waiting) /\ \A p \in Pools : Lists(backlog[p], Queued(p))

\* The named actor is a rate limiter of the executing calls of all tools together.
Limiter == INSTANCE RateLimiter WITH Callers <- Calls, cap <- limit, inside <- Holding
LimiterRefined == Limiter!Spec
=============================================================================
