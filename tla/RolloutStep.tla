---------------------------- MODULE RolloutStep ----------------------------
(***************************************************************************)
(* The steps of a PPO job whose rollout has conversations with tools: the  *)
(* driver and the ranks (module HybridEngine), the conversations, run by   *)
(* the SGLang rollout in the ranks (MultiTurnRollout) or by agent loops in *)
(* processes of their own (AgentLoop), and the tools they call (ToolPool). *)
(*                                                                         *)
(* A job whose driver raises ends with all its processes.                  *)
(***************************************************************************)
EXTENDS MultiTurnRollout, AgentLoop, HybridEngine

\* The servers are the engines; rows of a synchronous job run in the rank 0 of an engine,
\* those of an asynchronous one in an agent-loop worker, in equal chunks.
ASSUME StepAssumption ==
  /\ ServerHandles = Servers
  /\ \A c \in Configs : c.mode = "sync" => c.backend = "sglang"

vars == <<toolVars, rowVars, reason, agentVars, engineVars>>

Synchronous == config.mode = "sync"

Init ==
  /\ EngineInit
  /\ ToolInit /\ (Synchronous <=> \A r \in Requests : owner[r] \in Servers)
  /\ RowInit /\ reason = [r \in Requests |-> "none"]
  /\ AgentInit

-----------------------------------------------------------------------------
RestOfRows == UNCHANGED <<toolVars, rowVars, reason, agentVars>>

\* The ranks.  A rank leaves the call of a synchronous rollout behind a barrier of all of
\* them, which the rank 0 of each engine reaches when its rows are completed.
Barrier(k) == task = "generate" /\ at[k] = "awake" =>
                /\ AllCompleted
                /\ \A j \in Ranks : at[j] \in {"awake", "idle"}

Rank(k)  == RankStep(k) /\ Barrier(k) /\ RestOfRows
Together == (SyncWeights \/ Compute) /\ RestOfRows

\* A row of an engine is begun when preprocess_data has gathered the rows of its ranks.
RolloutRank0(r) ==
  /\ Synchronous
  /\ \/ HandlePending(r) /\ \A k \in Group(owner[r]) : at[k] = "awake"
     \/ RolloutRow(r)
  /\ UNCHANGED <<agentVars, engineVars>>

AgentWorker(r) ==
  /\ task = "agent"
  /\ AgentRow(r)
  /\ UNCHANGED <<reason, engineVars>>

ToolWorkers == ToolStep /\ UNCHANGED <<rowVars, reason, agentVars, engineVars>>

\* The driver.  Its agent-loop manager waits for the chunks of all workers; with the batch
\* returned, nothing is left of its conversations.
Driver ==
  /\ Advance
  /\ task = "agent" => AllCompleted
  /\ IF task \in {"generate", "agent"}
       THEN /\ NextBatch /\ NextAgentBatch /\ UNCHANGED toolVars
            /\ reason' = [r \in Requests |-> "none"]
       ELSE RestOfRows

DriverRaises == broken # {} /\ Fail /\ RestOfRows

Next ==
  /\ task # "failed"
  /\ \/ \E k \in Ranks : Rank(k)
     \/ Together \/ ToolWorkers \/ Driver \/ DriverRaises
     \/ \E r \in Requests : RolloutRank0(r) \/ AgentWorker(r)

Spec == Init /\ [][Next]_vars

\* Some process goes on while one can: a collective all ranks have joined completes, an
\* engine answers, a tool's function returns or times out, the limiter's threads run.  No
\* process waits for what another repeats, so fairness to each of them is not needed.
FairSpec == Spec /\ WF_vars(Next)

-----------------------------------------------------------------------------
(***************************************************************************)
(* Properties.                                                             *)
(***************************************************************************)
TypeOK ==
  /\ owner \in Placements /\ limit \in Nat \ {0} /\ permits \in Nat /\ releasing \in Nat
  /\ acquiring \in Seq(Calls) /\ backlog \in [Pools -> Seq(Calls)]
  /\ call \in [Calls -> {"idle", "queued", "acquiring", "running"} \union Returned]
  /\ instances \subseteq Calls
  /\ phase \in [Requests -> Phases]
  /\ \A r \in Requests : conv[r].ids \in Seq(Kinds) /\ conv[r].mask \in Seq(BOOLEAN)
  /\ assistant \in [Requests -> 0..MaxAssistantTurns] /\ user \in [Requests -> 0..MaxUserTurns]
  /\ wants \in [Requests -> SUBSET Tools] /\ broken \subseteq Owners
  /\ reason \in [Requests -> {"none", "stop", "length", "tool_calls"}]
  /\ pinned \in [Requests -> SUBSET ServerHandles] /\ load \in [Owners -> [ServerHandles -> Nat]]
  /\ config \in Configs /\ task \in Tasks \union {"end", "failed"} /\ step \in 1..Steps
  /\ at \in [Ranks -> {"idle", "called", "syncing", "synced", "awake", "loaded", "computed"}]
  /\ actor \in [Ranks -> SUBSET {"params", "grads", "optim"}]
  /\ engine \in [Ranks -> SUBSET {"weights", "kv"}]
  /\ version \in 1..Steps + 1 /\ engineVer \in [Ranks -> 0..Steps + 1]

\* The engine a row is generated by.
EnginesOf(r) == IF Synchronous THEN {owner[r]} ELSE pinned[r]

\* What the engine continues in a conversation of the SGLang rollout, and what the actor is
\* trained on, is every message of it rendered on its own, each once and in their order,
\* however the answers, tools, users and limits took turns: every token is in place, has its
\* position, and is trained on when the assistant wrote it.  Whether the template makes the
\* same text of all messages at once is a matter of the template, and not said.
MessagesRendered ==
  Synchronous => \A r \in Requests :
    /\ phase[r] \notin {"completed", "raised"} => Rendered(r)
    /\ phase[r] = "completed" => Fits(r)

\* Wherever an agent loop was left and cut, its response ends with a token the model
\* generated (the reward could not be propagated from another) and the mask is right.
EndsWithGenerated ==
  ~Synchronous => \A r \in Requests : phase[r] = "completed" => LoopEnded(r)

\* Whenever an engine is to continue a conversation, every rank of it has all of the
\* engine's memory, and the weights there are those of the last update of the actor.
ServedFresh ==
  \A r \in Requests : phase[r] = "generating" /\ task \in {"generate", "agent"} =>
    \A s \in EnginesOf(r) : \A k \in Group(s) :
       engine[k] = {"weights", "kv"} /\ engineVer[k] = version

\* A call executes on an instance that was created and is not released; when the rollout
\* is over no tool has an instance or a call of it left, whichever way its rows ended.
ToolsReleased ==
  /\ \A c \in Calls : call[c] \in {"queued", "acquiring", "running"} => c \in instances
  /\ task \notin {"generate", "agent", "failed"} =>
       /\ instances = {} /\ \A c \in Calls : call[c] = "idle"

\* Nothing ends a job but a sandbox call that raised and, in the SGLang rollout, a call of
\* a tool the row was not given.
FailsOnlyByTool ==
  task = "failed" => \E r \in Requests :
    \/ Nothing(r)
    \/ Synchronous /\ phase[r] = "raised" /\ ~ wants[r] \subseteq RowTools[r]

\* Every step of the job ends, and so does the job.
JobEnds == <>(task \in {"end", "failed"})
=============================================================================
