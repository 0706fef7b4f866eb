----------------------------- MODULE AgentLoop -----------------------------
(***************************************************************************)
(* A conversation of an agent loop                                         *)
(* (verl/experimental/agent_loop/tool_agent_loop.py) and the routing of    *)
(* its requests (AsyncLLMServerManager of agent_loop.py).  Every           *)
(* AgentLoopWorker runs its chunk of the batch in one event loop, with a   *)
(* server manager and tools of its own; an action is what a coroutine does *)
(* from one await to the next.                                             *)
(*                                                                         *)
(* A loop of single_turn_agent_loop.py behaves as one of a tool agent that *)
(* calls no tool.                                                          *)
(***************************************************************************)
EXTENDS RolloutRows

CONSTANTS
  ServerHandles,    \* the asynchronous servers, server_handles of a manager
  MaxParallelCalls  \* rollout.multi_turn.max_parallel_calls

ASSUME AgentAssumption == IsFiniteSet(ServerHandles) /\ MaxParallelCalls \in Nat \ {0}

VARIABLES
  load,    \* weighted_serveres: requests each manager has counted for each server
  pinned   \* request_id_to_server: the servers a conversation was sent to

agentVars == <<load, pinned>>

AgentInit == /\ load = [w \in Owners |-> [s \in ServerHandles |-> 0]]
             /\ pinned = [r \in Requests |-> {}]

\* _choose_server: the server a conversation had, or one of the fewest requests; which of
\* these, the hashes of their handles decide.
\* Mutant of Choose: the conversation's server is not looked up.
ChooseAgain(r, s) ==
  /\ \A t \in ServerHandles : load[owner[r]][s] <= load[owner[r]][t]
  /\ load' = [load EXCEPT ![owner[r]][s] = @ + 1]
  /\ pinned' = [pinned EXCEPT ![r] = @ \union {s}]
Choose(r, s) ==
  /\ IF pinned[r] # {} THEN s \in pinned[r] /\ UNCHANGED load
     ELSE /\ \A t \in ServerHandles : load[owner[r]][s] <= load[owner[r]][t]
          /\ load' = [load EXCEPT ![owner[r]][s] = @ + 1]
  /\ pinned' = [pinned EXCEPT ![r] = @ \union {s}]

\* The rendered prompt goes to a server.
Begin(r) ==
  /\ phase[r] = "pending"
  /\ \E s \in ServerHandles : Choose(r, s)
  /\ conv' = [conv EXCEPT ![r] = [ids |-> @.ids, mask |-> <<>>, prompt |-> @.prompt]]
  /\ phase' = [phase EXCEPT ![r] = "generating"]
  /\ UNCHANGED <<assistant, user, wants, broken>> /\ UNCHANGED toolVars

\* The loop is left: ids and mask of the response are cut to its length.
Ended(c) ==
  [ids |-> Upto(c.ids, c.prompt + ResponseLength), mask |-> Upto(c.mask, ResponseLength),
   prompt |-> c.prompt]

\* What a server may answer with: an answer that ends by itself, or all tokens it may.
ServerAnswers(r) == LET left == MaxModelLen - Len(conv[r].ids)
                    IN  {n \in AnswerLens : n <= left} \union {left}

\* One call's arguments cannot be parsed, or its tool is unknown: it raises at once.
Reply(r, n, ts, malformed) ==
  LET c     == conv[r]
      grown == [c EXCEPT !.ids = @ \o Repeated("A", n), !.mask = @ \o Repeated(TRUE, n)]
      over  == \/ Len(grown.mask) >= ResponseLength
               \/ assistant[r] + 1 >= MaxAssistantTurns
               \/ user[r] >= MaxUserTurns
               \/ ts = {} /\ ~malformed
  IN  /\ phase[r] = "generating"
      /\ assistant' = [assistant EXCEPT ![r] = @ + 1]
      /\ IF over
           THEN /\ phase' = [phase EXCEPT ![r] = "completed"]
                /\ conv' = [conv EXCEPT ![r] = Ended(grown)]
                /\ UNCHANGED <<wants, instances>>
                /\ UNCHANGED <<owner, limit, permits, acquiring, releasing, backlog, call>>
           ELSE /\ phase' = [phase EXCEPT ![r] = IF malformed THEN "bad_call" ELSE "tool_calling"]
                /\ conv' = [conv EXCEPT ![r] = grown]
                /\ wants' = [wants EXCEPT ![r] = ts]
                /\ Create(r, ts) /\ Submit(r, ts)
      /\ UNCHANGED <<user, broken, load, pinned>>

Replies(r) ==
  \E n \in ServerAnswers(r), ts \in SUBSET Tools, malformed \in BOOLEAN :
     /\ Cardinality(ts) + (IF malformed THEN 1 ELSE 0) <= MaxParallelCalls
     /\ Reply(r, n, ts, malformed)

\* _call_tool: the instance is released when its call returns.  The length of a response
\* that is nothing cannot be taken: that exception is not caught, and ends the batch of
\* this worker, whose other coroutines go on.
CallReturns(c) ==
  /\ phase[c[1]] \in {"tool_calling", "bad_call", "raised"}
  /\ c \in instances /\ call[c] \in Returned
  /\ Release(c[1], {c[2]})
  /\ IF c[2] = Sandbox /\ call[c] = "none"
       THEN /\ phase' = [phase EXCEPT ![c[1]] = "raised"]
            /\ broken' = broken \union {owner[c[1]]}
       ELSE UNCHANGED <<phase, broken>>
  /\ UNCHANGED <<owner, limit, permits, acquiring, releasing, backlog, call>>
  /\ UNCHANGED <<conv, assistant, user, wants, load, pinned>>

\* gather has all responses.  One that is an exception ends the loop; otherwise they are
\* rendered with a generation prompt and appended, if room is left for an answer to them.
\* Mutant of RoomForAnswer: tool responses may fill the response.
RoomForAnyAnswer(mask, k) == Len(mask) + k <= ResponseLength
RoomForAnswer(mask, k)    == Len(mask) + k < ResponseLength

ToolsGathered(r) ==
  LET c == conv[r]
      k == ToolLen[wants[r]] + 1
      grown == [c EXCEPT !.ids = @ \o Repeated("T", k - 1) \o <<"G">>,
                         !.mask = @ \o Repeated(FALSE, k)]
  IN  /\ phase[r] \in {"tool_calling", "bad_call"}
      /\ Outstanding(r) = {} /\ CallsOf(r, Tools) \cap instances = {}
      /\ Collect(r)
      /\ wants' = [wants EXCEPT ![r] = {}]
      /\ IF phase[r] = "tool_calling" /\ RoomForAnswer(c.mask, k)
           THEN /\ conv' = [conv EXCEPT ![r] = grown]
                /\ user' = [user EXCEPT ![r] = @ + 1]
                /\ \E s \in ServerHandles : Choose(r, s)
                /\ phase' = [phase EXCEPT ![r] = "generating"]
           ELSE /\ conv' = [conv EXCEPT ![r] = Ended(c)]
                /\ phase' = [phase EXCEPT ![r] = "completed"]
                /\ UNCHANGED <<user, load, pinned>>
      /\ UNCHANGED <<assistant, instances, broken>>

AgentRow(r) ==
  Begin(r) \/ Replies(r) \/ ToolsGathered(r) \/ \E t \in Tools : CallReturns(<<r, t>>)

\* Each batch has new request ids; the managers keep their counts.
NextAgentBatch == pinned' = [r \in Requests |-> {}] /\ UNCHANGED load

-----------------------------------------------------------------------------
(***************************************************************************)
(* Properties of the agent loops.                                          *)
(***************************************************************************)

\* The response ends with a token the model generated, is within its length, and its mask
\* marks exactly the tokens the model generated.
LoopEnded(r) ==
  LET ids  == From(conv[r].ids, conv[r].prompt + 1)
      mask == conv[r].mask
  IN  /\ Len(ids) \in 1..ResponseLength
      /\ DOMAIN mask = DOMAIN ids
      /\ \A i \in DOMAIN ids : mask[i] = (ids[i] = "A")
      /\ mask[Len(mask)]

\* A conversation stays on the server it began on, and no manager ever counted two more
\* requests for one server than for another.
SticksAndSpreads ==
  /\ \A r \in Requests : Cardinality(pinned[r]) <= 1
  /\ \A w \in Owners : \A s, t \in ServerHandles : load[w][s] <= load[w][t] + 1
=============================================================================
