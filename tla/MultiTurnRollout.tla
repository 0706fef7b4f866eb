-------------------------- MODULE MultiTurnRollout --------------------------
(***************************************************************************)
(* A conversation of the multi-turn SGLang rollout                         *)
(* (_async_rollout_a_request of                                            *)
(* verl/workers/rollout/sglang_rollout/sglang_rollout.py).  Tensor-parallel*)
(* rank 0 of an engine runs those of its rows in one event loop: an action *)
(* is what a coroutine does from one await to the next.                    *)
(*                                                                         *)
(* The tests of len(_req.input_ids) against max_model_len after a tool's   *)
(* or a user's message look at the batch dimension, which is 1: they are   *)
(* never true and have no action here.                                     *)
(***************************************************************************)
EXTENDS RolloutRows

CONSTANT Interactive  \* the rows that have interaction_kwargs

ASSUME InteractiveAssumption == Interactive \subseteq Requests

VARIABLE reason       \* finish_reason_type of each conversation

Running(r, p) == phase[r] = p /\ owner[r] \notin broken

\* The loop is left: the last answer allowed makes the reason "stop".
\* Mutant of Leave: the reason stays what the last answer made it.
LeaveAsIs(r, why, turns) ==
  phase' = [phase EXCEPT ![r] = "scoring"] /\ reason' = [reason EXCEPT ![r] = why]
Leave(r, why, turns) ==
  /\ phase' = [phase EXCEPT ![r] = "scoring"]
  /\ reason' = [reason EXCEPT ![r] = IF turns >= MaxAssistantTurns THEN "stop" ELSE why]

Goto(r, p) == phase' = [phase EXCEPT ![r] = p] /\ UNCHANGED reason

\* _handle_pending_state: an instance of every tool of the row.
HandlePending(r) ==
  /\ Running(r, "pending")
  /\ Create(r, RowTools[r])
  /\ Goto(r, "running")
  /\ UNCHANGED <<owner, limit, permits, acquiring, releasing, backlog, call>>
  /\ UNCHANGED <<conv, assistant, user, wants, broken>>

\* Running: ask the engine to continue, unless no token is left for it.
HasRoom(ids) == Len(ids) + 1 < MaxModelLen

AskEngine(r) ==
  /\ Running(r, "running")
  /\ LET asked == ForGeneration(conv[r])
     IN  /\ conv' = [conv EXCEPT ![r] = asked]
         /\ IF HasRoom(asked.ids) THEN Goto(r, "generating")
                                  ELSE Leave(r, "length", assistant[r])
  /\ UNCHANGED <<assistant, user, wants, broken>>
  /\ UNCHANGED toolVars

\* max_new_tokens of _handle_engine_generate
Room(r) == LET left == MaxModelLen - Len(conv[r].ids) - 1
           IN  IF ResponseLength < left THEN ResponseLength ELSE left

\* What every answer of the engine does first.
Answered(r, n) ==
  /\ Running(r, "generating")
  /\ conv' = [conv EXCEPT ![r] = AddAssistant(@, n)]
  /\ assistant' = [assistant EXCEPT ![r] = @ + 1]
  /\ UNCHANGED user

Stops(r) == {n \in AnswerLens : n <= Room(r)}

\* The engine reaches max_new_tokens; the template adds its end mark.
AnswerCut(r) ==
  /\ Answered(r, Room(r) + 1)
  /\ Leave(r, "length", assistant[r] + 1)
  /\ UNCHANGED <<wants, broken>> /\ UNCHANGED toolVars

\* An answer that calls tools.  All of them are called at once when another turn is left;
\* a tool the row was not given has no kwargs to call it with, an exception that ends the
\* whole batch of this engine.
AnswerWithCalls(r, n, ts) ==
  /\ Answered(r, n)
  /\ wants' = [wants EXCEPT ![r] = ts]
  /\ LET again == assistant[r] + 1 < MaxAssistantTurns
         given == ts \subseteq RowTools[r]
     IN  /\ IF ~again     THEN Leave(r, "tool_calls", assistant[r] + 1)
            ELSE IF given THEN Goto(r, "tool_calling")
                          ELSE Goto(r, "raised")
         /\ Submit(r, IF again /\ given THEN ts ELSE {})
         /\ broken' = IF again /\ ~given THEN broken \union {owner[r]} ELSE broken
  /\ UNCHANGED instances

\* An answer none of whose calls can be parsed.
AnswerMalformed(r, n) ==
  /\ Answered(r, n)
  /\ Leave(r, "stop", assistant[r] + 1)
  /\ UNCHANGED <<wants, broken>> /\ UNCHANGED toolVars

\* Mutant of UserTurn: the user's turns are not counted.
UserTurnAlways(r) == r \in Interactive /\ assistant[r] + 1 < MaxAssistantTurns
UserTurn(r) ==
  r \in Interactive /\ user[r] < MaxUserTurns /\ assistant[r] + 1 < MaxAssistantTurns

\* An answer without a call: the user's turn, or the end.
AnswerPlain(r, n) ==
  /\ Answered(r, n)
  /\ IF UserTurn(r) THEN Goto(r, "interacting") ELSE Leave(r, "stop", assistant[r] + 1)
  /\ UNCHANGED <<wants, broken>> /\ UNCHANGED toolVars

\* All calls of the message have returned.  A response that is nothing is no content a
\* Message may have: the exception ends the whole batch of this engine.
ToolsAnswered(r) ==
  /\ Running(r, "tool_calling")
  /\ Outstanding(r) = {}
  /\ IF Nothing(r)
       THEN /\ broken' = broken \union {owner[r]}
            /\ Goto(r, "raised")
            /\ UNCHANGED <<conv, wants>> /\ UNCHANGED toolVars
       ELSE /\ conv' = [conv EXCEPT ![r] = AddToolResponses(@, ToolLen[wants[r]])]
            /\ wants' = [wants EXCEPT ![r] = {}]
            /\ Goto(r, "running")
            /\ Collect(r)
            /\ UNCHANGED <<instances, broken>>
  /\ UNCHANGED <<assistant, user>>

\* interaction.generate_response
Interact(r) ==
  /\ Running(r, "interacting")
  /\ user' = [user EXCEPT ![r] = @ + 1]
  /\ \E shouldTerminate \in BOOLEAN :
        IF shouldTerminate
          THEN Leave(r, "stop", assistant[r]) /\ UNCHANGED conv
          ELSE Goto(r, "running") /\ conv' = [conv EXCEPT ![r] = AddUser(@, 1)]
  /\ UNCHANGED <<assistant, wants, broken>> /\ UNCHANGED toolVars

\* max_model_len of the request
RequestModelLen == IF MaxModelLen < PromptLength + ResponseLength
                     THEN MaxModelLen ELSE PromptLength + ResponseLength

\* Mutant of Given: only the tools the last message calls are released.
GivenCalled(r) == wants[r]
Given(r)       == RowTools[r]

\* Rewards of the tools, their release, and finalize, which takes only two reasons.
Score(r) ==
  /\ Running(r, "scoring")
  /\ Release(r, Given(r))
  /\ IF reason[r] \in {"stop", "length"}
       THEN /\ conv' = [conv EXCEPT ![r] = Finalized(@, RequestModelLen)]
            /\ Goto(r, "completed")
            /\ UNCHANGED broken
       ELSE /\ broken' = broken \union {owner[r]}
            /\ Goto(r, "raised")
            /\ UNCHANGED conv
  /\ UNCHANGED <<assistant, user, wants>>
  /\ UNCHANGED <<owner, limit, permits, acquiring, releasing, backlog, call>>

RolloutRow(r) ==
  \/ AskEngine(r) \/ AnswerCut(r) \/ ToolsAnswered(r) \/ Interact(r) \/ Score(r)
  \/ \E n \in Stops(r) : \/ AnswerMalformed(r, n) \/ AnswerPlain(r, n)
                         \/ \E ts \in (SUBSET Tools) \ {{}} : AnswerWithCalls(r, n, ts)

-----------------------------------------------------------------------------
(***************************************************************************)
(* Properties of a conversation.                                           *)
(***************************************************************************)

\* While it goes on, its tokens are those of its messages, each rendered on its own, in their
\* order and with no generation prompt left between two of them, and the engine is asked to
\* continue them with one.
Rendered(r) ==
  /\ Aligned(conv[r])
  /\ conv[r].ids \in {RenderEach(conv[r].messages), Append(RenderEach(conv[r].messages), "G")}
  /\ phase[r] = "generating" => conv[r].ids = Append(RenderEach(conv[r].messages), "G")

\* What it puts into the batch when it is completed fits the columns, is a prefix of the
\* renderings of its messages, and trains on exactly the assistant's tokens there.
Fits(r) ==
  LET ids  == Response(conv[r], "ids", ResponseLength)
      mask == Response(conv[r], "mask", ResponseLength)
  IN  /\ Aligned(conv[r])
      /\ Len(conv[r].ids) <= MaxModelLen
      /\ conv[r].ids = Upto(RenderEach(conv[r].messages), RequestModelLen)
      /\ DOMAIN mask = DOMAIN ids
      /\ \A i \in DOMAIN ids : mask[i] = (ids[i] = "A")
=============================================================================
