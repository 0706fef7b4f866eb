------------------------- MODULE RolloutStepProofs -------------------------
(***************************************************************************)
(* What holds of the steps of a job with conversations and tools, for every*)
(* number of rows, tools, processes, engines, ranks and steps.             *)
(*                                                                         *)
(* The composition keeps the promises of its parts: every step of it is a  *)
(* step of the tools (ToolPool) and a step of actor and engines            *)
(* (HybridEngine), or of neither.  For the tools that is not obvious: the  *)
(* rows may call only what is idle, which follows from where they are.     *)
(***************************************************************************)
EXTENDS RolloutStep, ToolPoolProofs, HybridEngineProofs, WellFoundedInduction

Calling == {"tool_calling", "bad_call", "raised"}
Pending(r, t) == call[<<r, t>>] \in {"queued", "acquiring", "running"}
Has(r, t) == <<r, t>> \in instances

RowTypeOK ==
  /\ phase \in [Requests -> Phases]
  /\ assistant \in [Requests -> Nat]
  /\ wants \in [Requests -> SUBSET Tools]
  /\ reason \in [Requests -> {"none", "stop", "length", "tool_calls"}]
  /\ pinned \in [Requests -> SUBSET ServerHandles]
  /\ load \in [Owners -> [ServerHandles -> Nat]]

\* The calls and instances of a row, given where it is.
RowCalls(r) ==
  /\ \A t \in Tools : call[<<r, t>>] # "idle" => phase[r] \in Calling
  /\ \A t \in Tools : Pending(r, t) => Has(r, t)
  /\ phase[r] \in {"pending", "completed"} => \A t \in Tools : ~Has(r, t)
  /\ ~Synchronous /\ phase[r] = "generating" => \A t \in Tools : ~Has(r, t)
  /\ Synchronous /\ phase[r] \notin {"pending", "completed", "raised"} =>
       \A t \in Tools : Has(r, t) <=> t \in RowTools[r]

Row(r) == RowCalls(r) /\ (phase[r] = "scoring" => reason[r] \in {"stop", "length"})

\* The rows and the ranks: when rows are under way, and what a row waits for.
RowsAndRanks ==
  /\ Synchronous => \A r \in Requests : owner[r] \in Servers
  /\ task \notin {"generate", "agent", "failed"} => \A r \in Requests : phase[r] = "pending"
  /\ task = "generate" /\ (\E k \in Ranks : at[k] = "idle") => AllCompleted
  /\ \A r \in Requests :
       Synchronous /\ task = "generate" /\ phase[r] \notin {"pending", "completed"} =>
         \A k \in Group(owner[r]) : at[k] = "awake"

\* What ended a batch, and is there until the job ends.
Guilty(r) == phase[r] = "raised" /\ (Nothing(r) \/ (Synchronous /\ ~(wants[r] \subseteq RowTools[r])))
Blame ==
  /\ broken # {} => \E r \in Requests : Guilty(r)
  /\ task = "failed" => broken # {}

Pinned == \A r \in Requests : pinned[r] = {} \/ \E s \in ServerHandles : pinned[r] = {s}
Spread == \A w \in Owners : \A s, t \in ServerHandles : load[w][s] <= load[w][t] + 1

StepInvariant ==
  /\ ToolInv /\ EngineInv
  /\ RowTypeOK /\ (\A r \in Requests : Row(r))
  /\ RowsAndRanks /\ Blame /\ Pinned /\ Spread

-----------------------------------------------------------------------------
(* What the operations on tools do to each call.                           *)
LEMMA SubmitCalls ==
  ASSUME NEW r \in Requests, NEW ts \in SUBSET Tools, Submit(r, ts)
  PROVE  \A q \in Requests, t \in Tools :
           call'[<<q, t>>] = IF q = r /\ t \in ts THEN "queued" ELSE call[<<q, t>>]
<1>1. call' = [c \in Calls |-> IF c \in CallsOf(r, ts) THEN "queued" ELSE call[c]]
  BY DEF Submit
<1>2. \A q \in Requests, t \in Tools :
         <<q, t>> \in Calls /\ (<<q, t>> \in CallsOf(r, ts) <=> q = r /\ t \in ts)
  BY DEF Calls, CallsOf
<1> QED BY <1>1, <1>2

LEMMA CollectCalls ==
  ASSUME NEW r \in Requests, Collect(r)
  PROVE  /\ \A q \in Requests, t \in Tools :
              call'[<<q, t>>] = IF q = r THEN "idle" ELSE call[<<q, t>>]
         /\ \A t \in Tools : ~Pending(r, t)
<1>1. call' = [c \in Calls |-> IF c[1] = r THEN "idle" ELSE call[c]] /\ Outstanding(r) = {}
  BY DEF Collect
<1>2. \A q \in Requests, t \in Tools : <<q, t>> \in Calls
  BY DEF Calls
<1>3. \A t \in Tools : <<r, t>> \in CallsOf(r, Tools)
  BY DEF CallsOf
<1> QED BY <1>1, <1>2, <1>3 DEF Outstanding, Pending, Returned

LEMMA CreateHas ==
  ASSUME NEW r \in Requests, NEW ts \in SUBSET Tools, Create(r, ts), instances \subseteq Calls
  PROVE  /\ \A q \in Requests, t \in Tools : Has(q, t)' <=> Has(q, t) \/ (q = r /\ t \in ts)
         /\ instances' \in SUBSET Calls
BY DEF Create, CallsOf, Has, Calls

LEMMA ReleaseHas ==
  ASSUME NEW r \in Requests, NEW ts \in SUBSET Tools, Release(r, ts), instances \subseteq Calls
  PROVE  /\ \A q \in Requests, t \in Tools : Has(q, t)' <=> Has(q, t) /\ ~(q = r /\ t \in ts)
         /\ instances' \in SUBSET Calls
BY DEF Release, CallsOf, Has, Calls

\* A row none of whose calls, instances and phases change stays as it is.
Untouched(q) ==
  /\ phase'[q] = phase[q] /\ reason'[q] = reason[q] /\ wants'[q] = wants[q]
  /\ \A t \in Tools : call'[<<q, t>>] = call[<<q, t>>] /\ (Has(q, t)' <=> Has(q, t))

LEMMA UntouchedRow ==
  ASSUME NEW q \in Requests, config' = config, Untouched(q)
  PROVE  /\ Row(q) => Row(q)'
         /\ Guilty(q) => Guilty(q)'
<1>1. Synchronous' = Synchronous /\ Sandbox \in Tools
  BY RowAssumption DEF Synchronous
<1>2. Row(q) => Row(q)'
  BY <1>1 DEF Untouched, Row, RowCalls, Pending
<1>3. Guilty(q) => Guilty(q)'
  BY <1>1 DEF Untouched, Guilty, Nothing
<1> QED BY <1>2, <1>3

\* What a step of row r has to do.
RowMoves(r) ==
  /\ phase' \in [Requests -> Phases] /\ assistant' \in [Requests -> Nat]
  /\ wants' \in [Requests -> SUBSET Tools]
  /\ reason' \in [Requests -> {"none", "stop", "length", "tool_calls"}]
  /\ \A q \in Requests \ {r} : Untouched(q)
  /\ Row(r)'
  /\ broken' = broken \/ Guilty(r)'
  /\ Guilty(r) => Guilty(r)'
  /\ phase[r] # "completed"
  /\ [ToolNext]_toolVars

\* What a row does to the tools is one of the things their users may do.
LEMMA UseStep ==
  ASSUME NEW r \in Requests, instances' \in SUBSET Calls,
         \/ \E ts \in SUBSET Tools : Submit(r, ts) /\ \A t \in ts : call[<<r, t>>] = "idle"
         \/ Collect(r)
         \/ UNCHANGED <<owner, limit, permits, acquiring, releasing, backlog, call>>
  PROVE  ToolNext
<1>1. \A ts \in SUBSET Tools : (\A t \in ts : call[<<r, t>>] = "idle") =>
         \A c \in CallsOf(r, ts) : call[c] = "idle"
  BY DEF CallsOf
<1> QED BY <1>1 DEF ToolNext, Use

-----------------------------------------------------------------------------
(* The rows of the SGLang rollout.                                         *)
SyncRow(r) == StepInvariant /\ Synchronous /\ config' = config

LEMMA SyncFacts ==
  ASSUME NEW r \in Requests, SyncRow(r)
  PROVE  /\ RowTypeOK /\ Row(r) /\ instances \subseteq Calls /\ ToolTypeOK
         /\ Synchronous /\ Synchronous' /\ RowTools[r] \in SUBSET Tools
         /\ r \in DOMAIN phase /\ phase[r] \in Phases
BY RowAssumption DEF SyncRow, StepInvariant, Synchronous, ToolInv, ToolTypeOK, RowTypeOK

\* A row that leaves its tools alone and does not wait for them.
LEMMA QuietMove ==
  ASSUME NEW r \in Requests, SyncRow(r),
         phase[r] \in {"running", "generating", "interacting"},
         NEW p \in {"running", "generating", "interacting", "scoring"},
         phase' = [phase EXCEPT ![r] = p],
         \/ reason' = reason /\ p # "scoring"
         \/ \E why \in {"stop", "length"} : reason' = [reason EXCEPT ![r] = why],
         assistant' = assistant \/ assistant' = [assistant EXCEPT ![r] = @ + 1],
         UNCHANGED <<wants, broken, toolVars>>
  PROVE  RowMoves(r)
<1> USE SyncFacts
<1>1. phase'[r] = p /\ phase' \in [Requests -> Phases]
  BY DEF RowTypeOK, Phases
<1>2. /\ wants' \in [Requests -> SUBSET Tools] /\ assistant' \in [Requests -> Nat]
      /\ reason' \in [Requests -> {"none", "stop", "length", "tool_calls"}]
  BY DEF RowTypeOK
<1>3. \A q \in Requests \ {r} : Untouched(q)
  BY DEF Untouched, toolVars, Has, RowTypeOK
<1>4. Row(r)'
  <2>1. p = "scoring" => reason'[r] \in {"stop", "length"}
    BY DEF RowTypeOK
  <2>2. RowCalls(r)'
    BY <1>1 DEF Row, RowCalls, Calling, Pending, Has, toolVars
  <2> QED BY <1>1, <2>1, <2>2 DEF Row
<1>5. ~Guilty(r) /\ phase[r] # "completed" /\ [ToolNext]_toolVars
  BY DEF Guilty
<1> QED BY <1>1, <1>2, <1>3, <1>4, <1>5 DEF RowMoves

\* Leaving the loop for a reason, or after the last answer.
LEMMA LeaveFacts ==
  ASSUME NEW r \in Requests, NEW why \in {"stop", "length", "tool_calls"}, NEW turns \in Nat,
         Leave(r, why, turns), why # "tool_calls" \/ turns >= MaxAssistantTurns
  PROVE  /\ phase' = [phase EXCEPT ![r] = "scoring"]
         /\ \E w \in {"stop", "length"} : reason' = [reason EXCEPT ![r] = w]
BY DEF Leave

LEMMA QuietRows ==
  ASSUME NEW r \in Requests, SyncRow(r),
         \/ AskEngine(r) \/ AnswerCut(r) \/ Interact(r)
         \/ \E n \in Stops(r) : AnswerMalformed(r, n) \/ AnswerPlain(r, n)
  PROVE  RowMoves(r)
<1> DEFINE Leaves == /\ phase' = [phase EXCEPT ![r] = "scoring"]
                     /\ \E w \in {"stop", "length"} : reason' = [reason EXCEPT ![r] = w]
           Goes(p) == phase' = [phase EXCEPT ![r] = p] /\ reason' = reason
<1>1. assistant[r] \in Nat /\ assistant[r] + 1 \in Nat
  BY SyncFacts DEF RowTypeOK
<1>2. /\ phase[r] \in {"running", "generating", "interacting"}
      /\ UNCHANGED <<wants, broken, toolVars>>
      /\ assistant' = assistant \/ assistant' = [assistant EXCEPT ![r] = @ + 1]
  BY DEF AskEngine, AnswerCut, Interact, AnswerMalformed, AnswerPlain, Answered, Running
<1>3. Leaves \/ Goes("generating") \/ Goes("interacting") \/ Goes("running")
  <2>1. CASE AskEngine(r)
    BY <1>1, <2>1, LeaveFacts DEF AskEngine, Goto
  <2>2. CASE AnswerCut(r)
    BY <1>1, <2>2, LeaveFacts DEF AnswerCut
  <2>3. CASE Interact(r)
    BY <1>1, <2>3, LeaveFacts DEF Interact, Goto
  <2>4. ASSUME NEW n \in Stops(r), AnswerMalformed(r, n) \/ AnswerPlain(r, n)
        PROVE  Leaves \/ Goes("generating") \/ Goes("interacting") \/ Goes("running")
    BY <1>1, <2>4, LeaveFacts DEF AnswerMalformed, AnswerPlain, Goto
  <2> QED BY <2>1, <2>2, <2>3, <2>4
<1>4. CASE Leaves
  BY <1>2, <1>4, QuietMove
<1>5. ASSUME NEW p \in {"running", "generating", "interacting"}, Goes(p) PROVE RowMoves(r)
  BY <1>2, <1>5, QuietMove
<1> QED BY <1>3, <1>4, <1>5

\* The instances of a row are those of the tools it is given, until they are released.
LEMMA HandlePendingMoves ==
  ASSUME NEW r \in Requests, SyncRow(r), HandlePending(r) PROVE RowMoves(r)
<1> USE SyncFacts
<1>1. /\ phase[r] = "pending" /\ phase' = [phase EXCEPT ![r] = "running"]
      /\ UNCHANGED <<reason, assistant, wants, broken>>
      /\ UNCHANGED <<owner, limit, permits, acquiring, releasing, backlog, call>>
  BY DEF HandlePending, Running, Goto
<1>2. /\ \A q \in Requests, t \in Tools : Has(q, t)' <=> Has(q, t) \/ (q = r /\ t \in RowTools[r])
      /\ instances' \in SUBSET Calls
  BY CreateHas DEF HandlePending
<1>3. phase'[r] = "running" /\ phase' \in [Requests -> Phases]
  BY <1>1 DEF RowTypeOK, Phases
<1>4. \A q \in Requests \ {r} : Untouched(q)
  BY <1>1, <1>2 DEF Untouched, RowTypeOK
<1>5. \A t \in Tools : call[<<r, t>>] = "idle" /\ ~Has(r, t)
  BY <1>1 DEF Row, RowCalls, Calling
<1>6. Row(r)'
  BY <1>1, <1>2, <1>3, <1>5 DEF Row, RowCalls, Pending
<1>7. ToolNext
  BY <1>1, <1>2, UseStep
<1> QED BY <1>1, <1>3, <1>4, <1>6, <1>7 DEF RowMoves, RowTypeOK, Guilty

LEMMA ScoreMoves ==
  ASSUME NEW r \in Requests, SyncRow(r), Score(r) PROVE RowMoves(r)
<1> USE SyncFacts
<1>1. reason[r] \in {"stop", "length"} /\ phase[r] = "scoring"
  BY DEF Score, Running, Row
<1>2. /\ phase' = [phase EXCEPT ![r] = "completed"]
      /\ UNCHANGED <<reason, assistant, wants, broken>>
      /\ UNCHANGED <<owner, limit, permits, acquiring, releasing, backlog, call>>
  BY <1>1 DEF Score, Goto
<1>3. /\ \A q \in Requests, t \in Tools : Has(q, t)' <=> Has(q, t) /\ ~(q = r /\ t \in RowTools[r])
      /\ instances' \in SUBSET Calls
  BY ReleaseHas DEF Score, Given
<1>4. phase'[r] = "completed" /\ phase' \in [Requests -> Phases]
  BY <1>2 DEF RowTypeOK, Phases
<1>5. \A q \in Requests \ {r} : Untouched(q)
  BY <1>2, <1>3 DEF Untouched, RowTypeOK
<1>6. \A t \in Tools : call[<<r, t>>] = "idle" /\ ~Has(r, t)'
  BY <1>1, <1>3 DEF Row, RowCalls, Calling, SyncRow
<1>7. Row(r)'
  BY <1>2, <1>4, <1>6 DEF Row, RowCalls, Pending
<1>8. ToolNext
  BY <1>2, <1>3, UseStep
<1> QED BY <1>1, <1>2, <1>4, <1>5, <1>7, <1>8 DEF RowMoves, RowTypeOK, Guilty

\* A row calls only tools it has instances of, and only when no call of it is under way.
LEMMA AnswerWithCallsMoves ==
  ASSUME NEW r \in Requests, SyncRow(r), NEW n, NEW ts \in SUBSET Tools, AnswerWithCalls(r, n, ts)
  PROVE  RowMoves(r)
<1> USE SyncFacts
<1> DEFINE again == assistant[r] + 1 < MaxAssistantTurns
           given == ts \subseteq RowTools[r]
           sent  == IF again /\ given THEN ts ELSE {}
<1>1. /\ phase[r] = "generating" /\ Submit(r, sent) /\ UNCHANGED instances
      /\ assistant' = [assistant EXCEPT ![r] = @ + 1] /\ wants' = [wants EXCEPT ![r] = ts]
      /\ IF ~again THEN Leave(r, "tool_calls", assistant[r] + 1)
         ELSE IF given THEN Goto(r, "tool_calling") ELSE Goto(r, "raised")
      /\ broken' = IF again /\ ~given THEN broken \union {owner[r]} ELSE broken
  BY DEF AnswerWithCalls, Answered, Running
<1>2. assistant[r] + 1 \in Nat /\ MaxAssistantTurns \in Nat
  BY RowAssumption DEF RowTypeOK
<1>3. /\ \E p \in {"scoring", "tool_calling", "raised"} :
           /\ phase' = [phase EXCEPT ![r] = p]
           /\ p = "tool_calling" => again /\ given
           /\ p = "raised" => again /\ ~given
           /\ p = "scoring" => ~again
      /\ \/ reason' = reason /\ again
         \/ \E w \in {"stop", "length"} : reason' = [reason EXCEPT ![r] = w]
  <2>1. CASE ~again
    <3>1. assistant[r] + 1 >= MaxAssistantTurns
      BY <1>2, <2>1
    <3> HIDE DEF again
    <3> QED BY <1>1, <1>2, <2>1, <3>1, LeaveFacts
  <2>2. CASE again
    <3> HIDE DEF again, given
    <3> QED BY <1>1, <2>2 DEF Goto
  <2> QED BY <2>1, <2>2
<1>4. sent \in SUBSET Tools
  OBVIOUS
<1> HIDE DEF again
<1>5. \A q \in Requests, t \in Tools :
        call'[<<q, t>>] = IF q = r /\ t \in sent THEN "queued" ELSE call[<<q, t>>]
  <2> HIDE DEF sent
  <2>1. Submit(r, sent)
    BY <1>1
  <2> QED BY ONLY r \in Requests, <1>4, <2>1, SubmitCalls
<1>6. \A t \in Tools : call[<<r, t>>] = "idle" /\ (Has(r, t) <=> t \in RowTools[r])
  BY <1>1 DEF Row, RowCalls, Calling, SyncRow
<1>7. ToolNext
  BY <1>1, <1>4, <1>6, UseStep
<1>8. PICK p \in {"scoring", "tool_calling", "raised"} :
           /\ phase' = [phase EXCEPT ![r] = p]
           /\ p = "tool_calling" => again /\ given
           /\ p = "raised" => again /\ ~given
           /\ p = "scoring" => ~again
  BY <1>3
<1>9. phase'[r] = p /\ phase' \in [Requests -> Phases] /\ wants'[r] = ts
  BY <1>1, <1>8 DEF RowTypeOK, Phases
<1>10. /\ assistant' \in [Requests -> Nat] /\ wants' \in [Requests -> SUBSET Tools]
       /\ reason' \in [Requests -> {"none", "stop", "length", "tool_calls"}]
  BY <1>1, <1>2, <1>3 DEF RowTypeOK
<1>11. \A q \in Requests \ {r} : Untouched(q)
  BY <1>1, <1>3, <1>5, <1>8 DEF Untouched, RowTypeOK, Has
<1>12. Row(r)'
  <2>1. \A t \in Tools : Has(r, t)' <=> t \in RowTools[r]
    BY <1>1, <1>6 DEF Has
  <2>2. p # "tool_calling" => sent = {}
    BY <1>8
  <2>3. \A t \in Tools : call'[<<r, t>>] # "idle" =>
          p = "tool_calling" /\ call'[<<r, t>>] = "queued" /\ t \in RowTools[r]
    BY <1>5, <1>6, <1>8, <2>2
  <2>4. p = "scoring" => reason'[r] \in {"stop", "length"}
    BY <1>3, <1>8 DEF RowTypeOK
  <2>5. RowCalls(r)'
    BY <1>9, <2>1, <2>3 DEF RowCalls, Calling, Pending
  <2> QED BY <1>9, <2>4, <2>5 DEF Row
<1>13. broken' = broken \/ Guilty(r)'
  <2>1. CASE again /\ ~given
    <3>1. p = "raised"
      BY <1>1, <1>3, <1>8, <2>1 DEF Goto, RowTypeOK
    <3> QED BY <1>9, <2>1, <3>1 DEF Guilty
  <2> QED BY <1>1, <2>1
<1> QED BY <1>1, <1>7, <1>9, <1>10, <1>11, <1>12, <1>13 DEF RowMoves, Guilty

LEMMA ToolsAnsweredMoves ==
  ASSUME NEW r \in Requests, SyncRow(r), ToolsAnswered(r) PROVE RowMoves(r)
<1> USE SyncFacts
<1>1. phase[r] = "tool_calling" /\ UNCHANGED <<reason, assistant>>
  BY DEF ToolsAnswered, Running, Goto
<1>2. CASE Nothing(r)
  <2>1. phase' = [phase EXCEPT ![r] = "raised"] /\ UNCHANGED <<wants, toolVars>>
    BY <1>2 DEF ToolsAnswered, Goto
  <2>2. phase'[r] = "raised" /\ phase' \in [Requests -> Phases]
    BY <2>1 DEF RowTypeOK, Phases
  <2>3. \A q \in Requests \ {r} : Untouched(q)
    BY <1>1, <2>1 DEF Untouched, RowTypeOK, toolVars, Has
  <2>4. Row(r)'
    BY <1>1, <2>1, <2>2 DEF Row, RowCalls, Calling, Pending, Has, toolVars
  <2>5. Guilty(r)'
    BY <1>2, <2>1, <2>2 DEF Guilty, Nothing, toolVars
  <2> QED BY <1>1, <2>1, <2>2, <2>3, <2>4, <2>5 DEF RowMoves, RowTypeOK
<1>3. CASE ~Nothing(r)
  <2>1. /\ phase' = [phase EXCEPT ![r] = "running"] /\ Collect(r)
        /\ wants' = [wants EXCEPT ![r] = {}] /\ UNCHANGED <<instances, broken>>
    BY <1>3 DEF ToolsAnswered, Goto
  <2>2. phase'[r] = "running" /\ phase' \in [Requests -> Phases]
    BY <2>1 DEF RowTypeOK, Phases
  <2>3. wants' \in [Requests -> SUBSET Tools]
    BY <2>1 DEF RowTypeOK
  <2>4. \A q \in Requests, t \in Tools :
          call'[<<q, t>>] = IF q = r THEN "idle" ELSE call[<<q, t>>]
    BY <2>1, CollectCalls
  <2>5. \A q \in Requests \ {r} : Untouched(q)
    BY <1>1, <2>1, <2>4 DEF Untouched, RowTypeOK, Has
  <2>6. Row(r)'
    BY <1>1, <2>1, <2>2, <2>4 DEF Row, RowCalls, Pending, Has, SyncRow
  <2>7. ToolNext
    BY <2>1, UseStep
  <2> QED BY <1>1, <2>1, <2>2, <2>3, <2>5, <2>6, <2>7 DEF RowMoves, RowTypeOK, Guilty
<1> QED BY <1>2, <1>3

LEMMA SyncRowMoves ==
  ASSUME NEW r \in Requests, SyncRow(r), HandlePending(r) \/ RolloutRow(r) PROVE RowMoves(r)
BY HandlePendingMoves, QuietRows, ScoreMoves, AnswerWithCallsMoves, ToolsAnsweredMoves
   DEF RolloutRow

-----------------------------------------------------------------------------
(* The agent loops.                                                        *)
AgentSide(r) == StepInvariant /\ ~Synchronous /\ config' = config /\ reason' = reason

LEMMA AgentFacts ==
  ASSUME NEW r \in Requests, AgentSide(r)
  PROVE  /\ RowTypeOK /\ Row(r) /\ instances \subseteq Calls /\ ToolTypeOK
         /\ ~Synchronous /\ ~Synchronous' /\ owner[r] \in Owners
         /\ phase[r] \in Phases
BY DEF AgentSide, StepInvariant, Synchronous, ToolInv, ToolTypeOK, RowTypeOK

\* A server is chosen among the least loaded, and once for a conversation.
LEMMA ChooseRoutes ==
  ASSUME NEW r \in Requests, AgentSide(r), NEW s \in ServerHandles, Choose(r, s)
  PROVE  /\ Pinned' /\ Spread'
         /\ pinned' \in [Requests -> SUBSET ServerHandles]
         /\ load' \in [Owners -> [ServerHandles -> Nat]]
<1> DEFINE w == owner[r]
<1>1. /\ pinned \in [Requests -> SUBSET ServerHandles] /\ load \in [Owners -> [ServerHandles -> Nat]]
      /\ Pinned /\ Spread /\ w \in Owners
  BY AgentFacts DEF AgentSide, StepInvariant, RowTypeOK
<1>2. pinned' = [pinned EXCEPT ![r] = @ \union {s}]
  BY DEF Choose
<1>3. Pinned' /\ pinned' \in [Requests -> SUBSET ServerHandles]
  <2>1. pinned[r] \union {s} = {s}
    BY <1>1 DEF Choose, Pinned
  <2> QED BY <1>1, <1>2, <2>1 DEF Pinned
<1>4. CASE pinned[r] # {}
  <2>1. load' = load
    BY <1>4 DEF Choose
  <2> QED BY <1>1, <1>3, <2>1 DEF Spread
<1>5. CASE pinned[r] = {}
  <2>1. /\ \A t \in ServerHandles : load[w][s] <= load[w][t]
        /\ load' = [load EXCEPT ![w][s] = @ + 1]
    BY <1>5 DEF Choose
  <2>2. /\ load' \in [Owners -> [ServerHandles -> Nat]]
        /\ \A v \in Owners, t \in ServerHandles :
             load'[v][t] = IF v = w /\ t = s THEN load[v][t] + 1 ELSE load[v][t]
    BY <1>1, <2>1
  <2>3. Spread'
    <3> SUFFICES ASSUME NEW v \in Owners, NEW t \in ServerHandles, NEW u \in ServerHandles
                 PROVE  load'[v][t] <= load'[v][u] + 1
      BY DEF Spread
    <3>1. load[v][t] \in Nat /\ load[v][u] \in Nat /\ load[v][t] <= load[v][u] + 1
      BY <1>1 DEF Spread
    <3>2. v = w /\ t = s => load[v][t] <= load[v][u]
      BY <2>1
    <3> QED BY <2>2, <3>1, <3>2
  <2> QED BY <1>3, <2>2, <2>3
<1> QED BY <1>4, <1>5

Routed ==
  /\ Pinned' /\ Spread'
  /\ pinned' \in [Requests -> SUBSET ServerHandles]
  /\ load' \in [Owners -> [ServerHandles -> Nat]]

LEMMA NotRouted ==
  ASSUME StepInvariant, UNCHANGED <<pinned, load>> PROVE Routed
BY DEF StepInvariant, RowTypeOK, Pinned, Spread, Routed

LEMMA BeginMoves ==
  ASSUME NEW r \in Requests, AgentSide(r), Begin(r) PROVE RowMoves(r) /\ Routed
<1> USE AgentFacts
<1>1. /\ phase[r] = "pending" /\ phase' = [phase EXCEPT ![r] = "generating"]
      /\ UNCHANGED <<assistant, wants, broken, reason, toolVars>>
  BY DEF Begin, AgentSide
<1>2. Routed
  BY ChooseRoutes DEF Begin, Routed
<1>3. phase'[r] = "generating" /\ phase' \in [Requests -> Phases]
  BY <1>1 DEF RowTypeOK, Phases
<1>4. \A q \in Requests \ {r} : Untouched(q)
  BY <1>1 DEF Untouched, toolVars, Has, RowTypeOK
<1>5. Row(r)'
  BY <1>1, <1>3 DEF Row, RowCalls, Calling, Pending, Has, toolVars
<1> QED BY <1>1, <1>2, <1>3, <1>4, <1>5 DEF RowMoves, RowTypeOK, Guilty

\* An answer whose calls are executed at once, or which ends the loop.
LEMMA ReplyMoves ==
  ASSUME NEW r \in Requests, AgentSide(r), NEW n, NEW ts \in SUBSET Tools,
         NEW malformed \in BOOLEAN, Reply(r, n, ts, malformed)
  PROVE  RowMoves(r) /\ Routed
<1> USE AgentFacts
<1>1. /\ phase[r] = "generating" /\ UNCHANGED <<broken, reason, load, pinned>>
      /\ assistant' = [assistant EXCEPT ![r] = @ + 1]
      /\ \/ /\ phase' = [phase EXCEPT ![r] = "completed"]
            /\ UNCHANGED <<wants, instances>>
            /\ UNCHANGED <<owner, limit, permits, acquiring, releasing, backlog, call>>
         \/ /\ \E p \in {"tool_calling", "bad_call"} : phase' = [phase EXCEPT ![r] = p]
            /\ wants' = [wants EXCEPT ![r] = ts]
            /\ Create(r, ts) /\ Submit(r, ts)
  BY DEF Reply, AgentSide
<1>2. Routed
  BY <1>1, NotRouted DEF AgentSide
<1>3. assistant' \in [Requests -> Nat] /\ reason' \in [Requests -> {"none", "stop", "length", "tool_calls"}]
  BY <1>1 DEF RowTypeOK
<1>4. \A t \in Tools : call[<<r, t>>] = "idle" /\ ~Has(r, t)
  BY <1>1 DEF Row, RowCalls, Calling
<1>5. ASSUME phase' = [phase EXCEPT ![r] = "completed"], UNCHANGED <<wants, instances>>,
             UNCHANGED <<owner, limit, permits, acquiring, releasing, backlog, call>>
      PROVE  RowMoves(r)
  <2>1. phase'[r] = "completed" /\ phase' \in [Requests -> Phases]
    BY <1>5 DEF RowTypeOK, Phases
  <2>2. \A q \in Requests \ {r} : Untouched(q)
    BY <1>1, <1>5 DEF Untouched, RowTypeOK, Has
  <2>3. Row(r)'
    BY <1>4, <1>5, <2>1 DEF Row, RowCalls, Pending, Has
  <2>4. UNCHANGED toolVars
    BY <1>5 DEF toolVars
  <2> QED BY <1>1, <1>3, <1>5, <2>1, <2>2, <2>3, <2>4 DEF RowMoves, RowTypeOK, Guilty
<1>6. ASSUME NEW p \in {"tool_calling", "bad_call"}, phase' = [phase EXCEPT ![r] = p],
             wants' = [wants EXCEPT ![r] = ts], Create(r, ts), Submit(r, ts)
      PROVE  RowMoves(r)
  <2>1. phase'[r] = p /\ phase' \in [Requests -> Phases] /\ wants' \in [Requests -> SUBSET Tools]
    BY <1>6 DEF RowTypeOK, Phases
  <2>2. \A q \in Requests, t \in Tools :
          call'[<<q, t>>] = IF q = r /\ t \in ts THEN "queued" ELSE call[<<q, t>>]
    BY <1>6, SubmitCalls
  <2>3. /\ \A q \in Requests, t \in Tools : Has(q, t)' <=> Has(q, t) \/ (q = r /\ t \in ts)
        /\ instances' \in SUBSET Calls
    BY <1>6, CreateHas
  <2>4. \A q \in Requests \ {r} : Untouched(q)
    BY <1>1, <1>6, <2>2, <2>3 DEF Untouched, RowTypeOK
  <2>5. Row(r)'
    BY <1>4, <2>1, <2>2, <2>3 DEF Row, RowCalls, Calling, Pending
  <2>6. ToolNext
    BY <1>4, <1>6, <2>3, UseStep
  <2> QED BY <1>1, <1>3, <1>6, <2>1, <2>4, <2>5, <2>6 DEF RowMoves, Guilty
<1> QED BY <1>1, <1>2, <1>5, <1>6

\* A call that has returned gives up its instance; the nothing of a sandbox ends the batch.
LEMMA CallReturnsMoves ==
  ASSUME NEW r \in Requests, AgentSide(r), NEW t \in Tools, CallReturns(<<r, t>>)
  PROVE  RowMoves(r) /\ Routed
<1> USE AgentFacts
<1>1. /\ phase[r] \in {"tool_calling", "bad_call", "raised"} /\ call[<<r, t>>] \in Returned
      /\ Release(r, {t})
      /\ UNCHANGED <<owner, limit, permits, acquiring, releasing, backlog, call>>
      /\ UNCHANGED <<assistant, wants, load, pinned, reason>>
      /\ \/ /\ t = Sandbox /\ call[<<r, t>>] = "none" /\ phase' = [phase EXCEPT ![r] = "raised"]
         \/ UNCHANGED <<phase, broken>>
  BY DEF CallReturns, AgentSide
<1>2. Routed
  BY <1>1, NotRouted DEF AgentSide
<1>3. /\ \A q \in Requests, u \in Tools : Has(q, u)' <=> Has(q, u) /\ ~(q = r /\ u = t)
      /\ instances' \in SUBSET Calls
  <2>1. {t} \in SUBSET Tools
    OBVIOUS
  <2> QED BY <1>1, <2>1, ReleaseHas
<1>4. phase' \in [Requests -> Phases] /\ phase'[r] \in {"tool_calling", "bad_call", "raised"}
  BY <1>1 DEF RowTypeOK, Phases
<1>5. \A q \in Requests \ {r} : Untouched(q)
  BY <1>1, <1>3 DEF Untouched, RowTypeOK
<1>6. Row(r)'
  BY <1>1, <1>3, <1>4 DEF Row, RowCalls, Calling, Pending, Returned
<1>7. (broken' = broken \/ Guilty(r)') /\ (Guilty(r) => Guilty(r)')
  BY <1>1 DEF Guilty, Nothing, RowTypeOK, Synchronous, AgentSide
<1>8. ToolNext
  BY <1>1, <1>3, UseStep
<1> QED BY <1>1, <1>2, <1>4, <1>5, <1>6, <1>7, <1>8 DEF RowMoves, RowTypeOK

LEMMA ToolsGatheredMoves ==
  ASSUME NEW r \in Requests, AgentSide(r), ToolsGathered(r) PROVE RowMoves(r) /\ Routed
<1> USE AgentFacts
<1>1. /\ phase[r] \in {"tool_calling", "bad_call"} /\ Collect(r)
      /\ CallsOf(r, Tools) \cap instances = {}
      /\ wants' = [wants EXCEPT ![r] = {}]
      /\ UNCHANGED <<assistant, instances, broken, reason>>
      /\ \E p \in {"generating", "completed"} : phase' = [phase EXCEPT ![r] = p]
      /\ (\E s \in ServerHandles : Choose(r, s)) \/ UNCHANGED <<load, pinned>>
  BY DEF ToolsGathered, AgentSide
<1>2. Routed
  BY <1>1, NotRouted, ChooseRoutes DEF AgentSide, Routed
<1>3. \A q \in Requests, t \in Tools :
        call'[<<q, t>>] = IF q = r THEN "idle" ELSE call[<<q, t>>]
  BY <1>1, CollectCalls
<1>4. \A t \in Tools : ~Has(r, t)'
  BY <1>1 DEF Has, CallsOf
<1>5. phase' \in [Requests -> Phases] /\ wants' \in [Requests -> SUBSET Tools]
  BY <1>1 DEF RowTypeOK, Phases
<1>6. \A q \in Requests \ {r} : Untouched(q)
  BY <1>1, <1>3 DEF Untouched, RowTypeOK, Has
<1>7. Row(r)'
  <2>1. phase'[r] \in {"generating", "completed"}
    BY <1>1 DEF RowTypeOK
  <2> QED BY <1>3, <1>4, <2>1 DEF Row, RowCalls, Pending
<1>8. ToolNext
  BY <1>1, UseStep
<1> QED BY <1>1, <1>2, <1>5, <1>6, <1>7, <1>8 DEF RowMoves, RowTypeOK, Guilty

LEMMA AgentRowMoves ==
  ASSUME NEW r \in Requests, AgentSide(r), AgentRow(r) PROVE RowMoves(r) /\ Routed
BY BeginMoves, ReplyMoves, CallReturnsMoves, ToolsGatheredMoves DEF AgentRow, Replies

-----------------------------------------------------------------------------
(* The composition.                                                        *)
PartSteps == [ToolNext]_toolVars /\ [EngineNext]_engineVars

LEMMA PartsKeep ==
  ASSUME StepInvariant, PartSteps
  PROVE  ToolInv' /\ EngineInv' /\ owner' = owner /\ config' = config /\ Synchronous' = Synchronous
<1>1. owner' = owner
  BY DEF PartSteps, ToolNext, ToolStep, StartCall, Grant, Execute, PutBack, Use, Submit, Collect, toolVars
<1>2. config' = config
  BY DEF PartSteps, EngineNext, RankStep, Enter, Entered, Exit, Load, Offload, SyncWeights, Compute,
     Advance, Fail, engineVars
<1> QED
  BY <1>1, <1>2, ToolNextInv, EngineNextInv DEF StepInvariant, PartSteps, Synchronous

LEMMA RanksOfEngines ==
  /\ Ranks # {}
  /\ \A s \in Servers : Group(s) \subseteq Ranks /\ Group(s) # {}
<1>1. PICK s \in Servers : TRUE
  BY HybridAssumption
<1>2. 1 \in 1..Tp
  BY HybridAssumption
<1>3. <<s, 1>> \in Ranks /\ \A q \in Servers : <<q, 1>> \in Group(q)
  BY <1>2 DEF Ranks, Group
<1> QED BY <1>3 DEF Ranks, Group

\* A row is under way only in the call that generates, and an engine's only between its
\* ranks' entry and exit.
UnderWay(r) ==
  \/ Synchronous /\ task = "generate" /\ \A k \in Group(owner[r]) : at[k] = "awake"
  \/ ~Synchronous /\ task = "agent"

LEMMA RowStepInv ==
  ASSUME StepInvariant, NEW r \in Requests, RowMoves(r), Routed, UnderWay(r), UNCHANGED engineVars
  PROVE  StepInvariant' /\ PartSteps
<1>1. PartSteps
  BY DEF PartSteps, RowMoves
<1>2. ToolInv' /\ EngineInv' /\ owner' = owner /\ config' = config /\ Synchronous' = Synchronous
  BY <1>1, PartsKeep
<1>3. RowTypeOK'
  BY DEF RowMoves, RowTypeOK, Routed
<1>4. \A q \in Requests : Row(q)'
  BY <1>2, UntouchedRow DEF RowMoves, StepInvariant
<1>5. RowsAndRanks'
  <2>1. \A q \in Requests \ {r} : phase'[q] = phase[q]
    BY DEF RowMoves, Untouched
  <2>2. ~AllCompleted
    BY DEF RowMoves, AllCompleted
  <2>3. task' = task /\ at' = at /\ task \in {"generate", "agent"}
    BY DEF UnderWay, engineVars
  <2>4. \A q \in Requests :
          Synchronous /\ task = "generate" /\ phase'[q] \notin {"pending", "completed"} =>
            \A k \in Group(owner[q]) : at[k] = "awake"
    BY <2>1 DEF UnderWay, StepInvariant, RowsAndRanks
  <2> QED BY <1>2, <2>2, <2>3, <2>4 DEF RowsAndRanks, StepInvariant
<1>6. Blame'
  <2>1. task' # "failed"
    BY DEF UnderWay, engineVars
  <2>2. ASSUME broken' # {} PROVE \E q \in Requests : Guilty(q)'
    <3>1. CASE Guilty(r)'
      BY <3>1
    <3>2. CASE ~Guilty(r)'
      <4>1. PICK q \in Requests : Guilty(q)
        BY <2>2, <3>2 DEF RowMoves, StepInvariant, Blame
      <4>2. q # r
        BY <3>2, <4>1 DEF RowMoves
      <4> QED BY <1>2, <4>1, <4>2, UntouchedRow DEF RowMoves
    <3> QED BY <3>1, <3>2
  <2> QED BY <2>1, <2>2 DEF Blame
<1> QED BY <1>1, <1>2, <1>3, <1>4, <1>5, <1>6 DEF StepInvariant, Routed

LEMMA RolloutRank0Inv ==
  ASSUME StepInvariant, task # "failed", NEW r \in Requests, RolloutRank0(r)
  PROVE  StepInvariant' /\ PartSteps
<1>1. /\ Synchronous /\ UNCHANGED <<agentVars, engineVars>> /\ config' = config
      /\ \/ HandlePending(r) /\ \A k \in Group(owner[r]) : at[k] = "awake"
         \/ RolloutRow(r)
  BY DEF RolloutRank0, engineVars
<1>2. RowMoves(r)
  BY <1>1, SyncRowMoves DEF SyncRow
<1>3. Routed
  BY <1>1, NotRouted DEF agentVars
<1>4. owner[r] \in Servers
  BY <1>1 DEF StepInvariant, RowsAndRanks
<1>5. CASE HandlePending(r) /\ \A k \in Group(owner[r]) : at[k] = "awake"
  <2>1. PICK k \in Group(owner[r]) : at[k] = "awake"
    BY <1>4, <1>5, RanksOfEngines
  <2>2. k \in Ranks /\ Controller(k) \in Ranks
    BY <1>4, <2>1, RanksOfEngines, ControllerFacts DEF StepInvariant, EngineInv, EngineTypeOK
  <2>3. task = "generate"
    BY <2>1, <2>2 DEF StepInvariant, EngineInv, RankInv, Placed
  <2> QED BY <1>1, <1>2, <1>3, <1>5, <2>3, RowStepInv DEF UnderWay
<1>6. CASE RolloutRow(r)
  <2>1. phase[r] \notin {"pending", "completed"}
    BY <1>6 DEF RolloutRow, AskEngine, AnswerCut, ToolsAnswered, Interact, Score, AnswerMalformed,
       AnswerPlain, AnswerWithCalls, Answered, Running
  <2>2. task = "generate"
    BY <1>1, <2>1 DEF StepInvariant, RowsAndRanks, EngineInv, TasksOfMode, Synchronous
  <2>3. \A k \in Group(owner[r]) : at[k] = "awake"
    BY <1>1, <2>1, <2>2 DEF StepInvariant, RowsAndRanks
  <2> QED BY <1>1, <1>2, <1>3, <2>2, <2>3, RowStepInv DEF UnderWay
<1> QED BY <1>1, <1>5, <1>6

LEMMA AgentWorkerInv ==
  ASSUME StepInvariant, NEW r \in Requests, AgentWorker(r)
  PROVE  StepInvariant' /\ PartSteps
<1>1. task = "agent" /\ AgentRow(r) /\ UNCHANGED <<reason, engineVars>> /\ config' = config
  BY DEF AgentWorker, engineVars
<1>2. ~Synchronous
  BY <1>1 DEF StepInvariant, EngineInv, TasksOfMode, Synchronous
<1>3. RowMoves(r) /\ Routed
  BY <1>1, <1>2, AgentRowMoves DEF AgentSide
<1> QED BY <1>1, <1>2, <1>3, RowStepInv DEF UnderWay

\* The tools' own steps take no call that is idle or has returned.
LEMMA ToolStepCalls ==
  ASSUME ToolInv, ToolStep
  PROVE  /\ instances' = instances /\ owner' = owner
         /\ \A q \in Requests, t \in Tools :
              /\ call[<<q, t>>] = "idle" => call'[<<q, t>>] = "idle"
              /\ call[<<q, t>>] = "none" => call'[<<q, t>>] = "none"
              /\ Pending(q, t)' => Pending(q, t)
<1>1. instances' = instances /\ owner' = owner
  BY DEF ToolStep, StartCall, Grant, Execute, PutBack
<1>2. \/ call' = call
      \/ \E c \in Calls, new \in CallStates :
           call[c] \in {"queued", "acquiring", "running"} /\ call' = [call EXCEPT ![c] = new]
  <2>1. ASSUME NEW p \in Pools, StartCall(p)
        PROVE  \E c \in Calls, new \in CallStates :
           call[c] \in {"queued", "acquiring", "running"} /\ call' = [call EXCEPT ![c] = new]
    <3>1. backlog[p] \in Seq(Calls) /\ backlog[p] # <<>> /\ call' = [call EXCEPT ![Head(backlog[p])] = "acquiring"]
      BY <2>1 DEF StartCall, ToolInv, ToolTypeOK
    <3>2. 1 \in DOMAIN backlog[p] /\ Head(backlog[p]) = backlog[p][1] /\ Head(backlog[p]) \in Calls
      BY <3>1
    <3>3. Head(backlog[p]) \in Queued(p)
      BY <3>2 DEF ToolInv, QueuesMatch, Lists
    <3>4. call[Head(backlog[p])] = "queued"
      BY <3>3 DEF Queued
    <3> QED BY <3>1, <3>2, <3>4 DEF CallStates
  <2>2. ASSUME Grant
        PROVE  \E c \in Calls, new \in CallStates :
           call[c] \in {"queued", "acquiring", "running"} /\ call' = [call EXCEPT ![c] = new]
    <3>1. acquiring \in Seq(Calls) /\ acquiring # <<>> /\ call' = [call EXCEPT ![Head(acquiring)] = "running"]
      BY <2>2 DEF Grant, ToolInv, ToolTypeOK
    <3>2. 1 \in DOMAIN acquiring /\ Head(acquiring) = acquiring[1] /\ Head(acquiring) \in Calls
      BY <3>1
    <3>3. Head(acquiring) \in Waiting
      BY <3>2 DEF ToolInv, QueuesMatch, Lists
    <3>4. call[Head(acquiring)] = "acquiring"
      BY <3>3 DEF Waiting
    <3> QED BY <3>1, <3>2, <3>4 DEF CallStates
  <2>3. ASSUME NEW c \in Calls, Execute(c)
        PROVE  \E new \in CallStates :
           call[c] \in {"queued", "acquiring", "running"} /\ call' = [call EXCEPT ![c] = new]
    BY <2>3 DEF Execute, CallStates
  <2>4. PutBack => call' = call
    BY DEF PutBack
  <2> QED BY <2>1, <2>2, <2>3, <2>4 DEF ToolStep
<1>3. call \in [Calls -> CallStates] /\ \A q \in Requests, t \in Tools : <<q, t>> \in Calls
  BY DEF ToolInv, ToolTypeOK, Calls
<1> QED BY <1>1, <1>2, <1>3 DEF Pending, Returned

LEMMA ToolWorkersInv ==
  ASSUME StepInvariant, ToolWorkers PROVE StepInvariant' /\ PartSteps
<1>1. ToolStep /\ UNCHANGED <<rowVars, reason, agentVars, engineVars>>
  BY DEF ToolWorkers
<1>2. PartSteps
  BY <1>1 DEF PartSteps, ToolNext
<1>3. ToolInv' /\ EngineInv' /\ owner' = owner /\ config' = config /\ Synchronous' = Synchronous
  BY <1>2, PartsKeep
<1>4. RowTypeOK' /\ Pinned' /\ Spread'
  BY <1>1 DEF rowVars, agentVars, StepInvariant, RowTypeOK, Pinned, Spread
<1>5. \A r \in Requests : Row(r)'
  BY <1>1, <1>3, ToolStepCalls DEF StepInvariant, Row, RowCalls, Has, rowVars
<1>6. RowsAndRanks'
  BY <1>1, <1>3 DEF StepInvariant, RowsAndRanks, AllCompleted, rowVars, engineVars
<1>7. Blame'
  <2>1. \A r \in Requests : Guilty(r) => Guilty(r)'
    BY <1>1, <1>3, ToolStepCalls, RowAssumption DEF StepInvariant, Guilty, Nothing, rowVars
  <2> QED BY <1>1, <2>1 DEF StepInvariant, Blame, rowVars, engineVars
<1> QED BY <1>2, <1>3, <1>4, <1>5, <1>6, <1>7 DEF StepInvariant

\* What stays of rows that are left alone while the engines take a step.
LEMMA RowsRest ==
  ASSUME StepInvariant, [EngineNext]_engineVars, RestOfRows, RowsAndRanks', Blame'
  PROVE  StepInvariant' /\ PartSteps
<1>1. PartSteps
  BY DEF PartSteps, RestOfRows
<1>2. ToolInv' /\ EngineInv' /\ owner' = owner /\ config' = config /\ Synchronous' = Synchronous
  BY <1>1, PartsKeep
<1>3. RowTypeOK' /\ Pinned' /\ Spread'
  BY DEF RestOfRows, rowVars, agentVars, StepInvariant, RowTypeOK, Pinned, Spread
<1>4. \A r \in Requests : Row(r)'
  BY <1>2, UntouchedRow DEF RestOfRows, rowVars, toolVars, StepInvariant, Untouched, Has
<1> QED BY <1>1, <1>2, <1>3, <1>4 DEF StepInvariant

\* Blame stays where it was when the rows are left alone.
LEMMA BlameRests ==
  ASSUME StepInvariant, RestOfRows, config' = config, task' = "failed" => broken # {}
  PROVE  Blame'
<1>1. \A r \in Requests : Guilty(r) => Guilty(r)'
  BY DEF RestOfRows, rowVars, toolVars, Guilty, Nothing, Synchronous
<1> QED BY <1>1 DEF StepInvariant, Blame, RestOfRows, rowVars

\* No rank leaves the rollout before all rows are completed.
LEMMA RanksInv ==
  ASSUME StepInvariant, task # "failed", Together \/ \E k \in Ranks : Rank(k)
  PROVE  StepInvariant' /\ PartSteps
<1>1. [EngineNext]_engineVars /\ RestOfRows /\ task' = task /\ config' = config
  BY DEF Together, Rank, EngineNext, RankStep, Enter, Entered, Exit, Load, Offload, SyncWeights, Compute
<1>2. Synchronous' = Synchronous /\ UNCHANGED <<owner, phase>> /\ AllCompleted' = AllCompleted
  BY <1>1 DEF Synchronous, RestOfRows, rowVars, toolVars, AllCompleted
<1>3. at \in [Ranks -> Places] /\ \A k \in Ranks : Placed(k)
  BY ControllerFacts DEF StepInvariant, EngineInv, EngineTypeOK, RankInv
<1>4. \A j \in Ranks : task = "generate" /\ at'[j] = "idle" => at[j] = "idle" \/ AllCompleted
  <2>1. ASSUME NEW k \in Ranks, Rank(k), NEW j \in Ranks, task = "generate", at'[j] = "idle"
        PROVE  at[j] = "idle" \/ AllCompleted
    BY <1>3, <2>1 DEF Rank, Barrier, RankStep, Enter, Entered, Exit, Load, Offload, Placed, Training
  <2>2. Together => \A j \in Ranks : at'[j] # "idle"
    BY DEF Together, SyncWeights, Compute
  <2> QED BY <2>1, <2>2
<1>5. \A j \in Ranks : task = "generate" /\ at[j] = "awake" => at'[j] = "awake" \/ AllCompleted
  <2>1. ASSUME NEW k \in Ranks, Rank(k), NEW j \in Ranks, task = "generate", at[j] = "awake"
        PROVE  at'[j] = "awake" \/ AllCompleted
    BY <1>3, <2>1 DEF Rank, Barrier, RankStep, Enter, Entered, Exit, Load, Offload
  <2>2. Together => \A j \in Ranks : at[j] # "awake"
    BY DEF Together, SyncWeights, Compute
  <2> QED BY <2>1, <2>2
<1>6. RowsAndRanks'
  <2>1. task = "generate" /\ (\E k \in Ranks : at'[k] = "idle") => AllCompleted
    BY <1>4 DEF StepInvariant, RowsAndRanks
  <2>2. ASSUME NEW r \in Requests, Synchronous, task = "generate",
               phase[r] \notin {"pending", "completed"}, NEW k \in Group(owner[r])
        PROVE  at'[k] = "awake"
    <3>1. k \in Ranks /\ at[k] = "awake" /\ ~AllCompleted
      BY <2>2, RanksOfEngines DEF StepInvariant, RowsAndRanks, AllCompleted
    <3> QED BY <1>5, <2>2, <3>1
  <2> QED BY <1>1, <1>2, <2>1, <2>2 DEF StepInvariant, RowsAndRanks
<1>7. Blame'
  BY <1>1, BlameRests
<1> QED BY <1>1, <1>6, <1>7, RowsRest

\* The driver goes on with a batch when all its rows are completed: nothing is left of them.
LEMMA DriverInv ==
  ASSUME StepInvariant, Driver PROVE StepInvariant' /\ PartSteps
<1>1. Advance /\ task \in Tasks /\ (\A k \in Ranks : at[k] = "idle") /\ config' = config
  BY DEF Driver, Advance
<1>2. EngineNext
  BY <1>1 DEF EngineNext
<1>3. task' # "failed" /\ (task \in {"generate", "agent"} => task' \notin {"generate", "agent"})
  BY <1>1 DEF Advance, After, Tasks, FirstTask
<1>4. task' = "generate" => \A k \in Ranks : at'[k] # "idle"
  BY <1>1 DEF Advance, Called
<1>5. CASE task \notin {"generate", "agent"}
  <2>1. RestOfRows /\ \A r \in Requests : phase[r] = "pending"
    BY <1>1, <1>5 DEF Driver, StepInvariant, RowsAndRanks, Tasks
  <2>2. UNCHANGED <<owner, phase>> /\ Synchronous' = Synchronous
    BY <1>1, <2>1 DEF RestOfRows, rowVars, toolVars, Synchronous
  <2>3. RowsAndRanks'
    BY <1>4, <2>1, <2>2 DEF StepInvariant, RowsAndRanks
  <2>4. Blame'
    BY <1>1, <1>3, <2>1, BlameRests
  <2> QED BY <1>2, <2>1, <2>3, <2>4, RowsRest
<1>6. CASE task \in {"generate", "agent"}
  <2>1. AllCompleted
    BY <1>1, <1>6, RanksOfEngines DEF Driver, StepInvariant, RowsAndRanks
  <2>2. /\ NextBatch /\ NextAgentBatch /\ UNCHANGED toolVars
        /\ reason' = [r \in Requests |-> "none"]
    BY <1>6 DEF Driver
  <2>3. PartSteps
    BY <1>2, <2>2 DEF PartSteps
  <2>4. ToolInv' /\ EngineInv' /\ owner' = owner /\ Synchronous' = Synchronous
    BY <2>3, PartsKeep
  <2>5. RowTypeOK'
    BY <2>2 DEF NextBatch, NextAgentBatch, StepInvariant, RowTypeOK, Phases
  <2>6. \A r \in Requests : phase'[r] = "pending"
    BY <2>2 DEF NextBatch
  <2>7. \A r \in Requests : Row(r)'
    <3> SUFFICES ASSUME NEW r \in Requests PROVE Row(r)'
      OBVIOUS
    <3>1. \A t \in Tools : call[<<r, t>>] = "idle" /\ ~Has(r, t)
      BY <2>1 DEF AllCompleted, StepInvariant, Row, RowCalls, Calling
    <3>2. \A t \in Tools : call'[<<r, t>>] = "idle" /\ ~Has(r, t)'
      BY <2>2, <3>1 DEF toolVars, Has
    <3> QED BY <2>6, <3>2 DEF Row, RowCalls, Pending
  <2>8. RowsAndRanks'
    BY <1>3, <1>6, <2>4, <2>6 DEF StepInvariant, RowsAndRanks
  <2>9. broken' = {}
    BY <2>1, <2>2 DEF AllCompleted, StepInvariant, Blame, Guilty, NextBatch
  <2>10. Pinned' /\ Spread'
    BY <2>2 DEF NextAgentBatch, StepInvariant, Pinned, Spread
  <2> QED
    BY <1>3, <2>3, <2>4, <2>5, <2>7, <2>8, <2>9, <2>10 DEF StepInvariant, Blame
<1> QED BY <1>5, <1>6

LEMMA DriverRaisesInv ==
  ASSUME StepInvariant, DriverRaises PROVE StepInvariant' /\ PartSteps
<1>1. broken # {} /\ Fail /\ RestOfRows /\ task' = "failed" /\ config' = config
  BY DEF DriverRaises, Fail
<1>2. EngineNext
  BY <1>1 DEF EngineNext
<1>3. Blame'
  BY <1>1, BlameRests
<1>4. RowsAndRanks'
  BY <1>1 DEF StepInvariant, RowsAndRanks, RestOfRows, toolVars, Synchronous
<1> QED BY <1>1, <1>2, <1>3, <1>4, RowsRest

LEMMA StepNextInv ==
  ASSUME StepInvariant, [Next]_vars PROVE StepInvariant' /\ PartSteps
<1>1. CASE UNCHANGED vars
  <2>1. RestOfRows /\ UNCHANGED engineVars
    BY <1>1 DEF vars, RestOfRows
  <2>2. UNCHANGED <<config, task, at>>
    BY <2>1 DEF engineVars
  <2>3. Blame'
    BY <2>1, <2>2, BlameRests DEF StepInvariant, Blame
  <2>4. RowsAndRanks'
    BY <2>1, <2>2 DEF StepInvariant, RowsAndRanks, AllCompleted, RestOfRows, toolVars, rowVars, Synchronous
  <2> QED BY <2>1, <2>3, <2>4, RowsRest
<1> QED
  BY <1>1, RanksInv, ToolWorkersInv, DriverInv, DriverRaisesInv, RolloutRank0Inv, AgentWorkerInv DEF Next

LEMMA StepInitInv == Init => StepInvariant
<1> SUFFICES ASSUME Init PROVE StepInvariant
  OBVIOUS
<1>1. ToolInv /\ EngineInv
  BY InitInv, EngineInitInv DEF Init
<1>2. RowTypeOK
  BY DEF Init, RowInit, AgentInit, RowTypeOK, Phases
<1>3. \A r \in Requests : phase[r] = "pending" /\ \A t \in Tools : call[<<r, t>>] = "idle" /\ ~Has(r, t)
  BY DEF Init, RowInit, ToolInit, Calls, Has
<1>4. \A r \in Requests : Row(r)
  BY <1>3 DEF Row, RowCalls, Pending
<1>5. RowsAndRanks
  <2>1. task # "generate" \/ \A k \in Ranks : at[k] # "idle"
    BY DEF Init, EngineInit, Called
  <2> QED BY <1>3, <2>1 DEF Init, RowsAndRanks
<1>6. Blame
  BY DEF Init, RowInit, EngineInit, FirstTask, Blame
<1>7. Pinned /\ Spread
  BY DEF Init, AgentInit, Pinned, Spread
<1> QED BY <1>1, <1>2, <1>4, <1>5, <1>6, <1>7 DEF StepInvariant

-----------------------------------------------------------------------------
\* The invariant of the composition, for every number of everything: rows, tools, ranks.
THEOREM StepInvariance == Spec => []StepInvariant
<1>1. StepInvariant /\ [Next]_vars => StepInvariant'
  BY StepNextInv
<1> QED BY StepInitInv, <1>1, PTL DEF Spec

\* The tools of a job are those of ToolPool: its rows only do with tools what it allows.
THEOREM ToolsAreTools == Spec => ToolSpec
<1>1. Init => ToolInit
  BY DEF Init
<1>2. StepInvariant /\ [Next]_vars => [ToolNext]_toolVars
  BY StepNextInv DEF PartSteps
<1> QED BY StepInvariance, <1>1, <1>2, PTL DEF Spec, ToolSpec

\* The ranks of a job are those of HybridEngine, whatever conversations their engines have.
THEOREM RanksAreRanks == Spec => EngineSpec
<1>1. Init => EngineInit
  BY DEF Init
<1>2. StepInvariant /\ [Next]_vars => [EngineNext]_engineVars
  BY StepNextInv DEF PartSteps
<1> QED BY StepInvariance, <1>1, <1>2, PTL DEF Spec, EngineSpec

\* In a whole job no permit of the tools' limiter is lost or made.
THEOREM PermitsConservedInJobs == Spec => []PermitsConserved
BY ToolsAreTools, ToolsConserve

\* The limiter of a whole job refines the abstract one.
THEOREM LimiterRefinedInJobs == Spec => LimiterRefined
BY ToolsAreTools, ToolsRefineLimiter

\* The memory of training and that of rollout take turns on every GPU of a job.
THEOREM MemoryExclusiveInJobs == Spec => []MemoryExclusive
BY RanksAreRanks, MemoryTakesTurns

\* No call executes on an instance that is released, and no instance outlives the rollout,
\* whichever way rows end: at a limit, without an answer, after a call that raised.
THEOREM ToolsReleasedAlways == Spec => []ToolsReleased
<1>1. StepInvariant => ToolsReleased
  <2> SUFFICES ASSUME StepInvariant PROVE ToolsReleased
    OBVIOUS
  <2>1. instances \subseteq Calls
    BY DEF StepInvariant, ToolInv, ToolTypeOK
  <2>2. \A r \in Requests, t \in Tools :
          call[<<r, t>>] \in {"queued", "acquiring", "running"} => <<r, t>> \in instances
    BY DEF StepInvariant, Row, RowCalls, Pending, Has
  <2>3. ASSUME task \notin {"generate", "agent", "failed"}, NEW r \in Requests, NEW t \in Tools
        PROVE  call[<<r, t>>] = "idle" /\ <<r, t>> \notin instances
    BY <2>3 DEF StepInvariant, RowsAndRanks, Row, RowCalls, Calling, Has
  <2> QED BY <2>1, <2>2, <2>3 DEF ToolsReleased, Calls
<1> QED BY StepInvariance, <1>1, PTL

\* A job fails only by a call of a tool that returned nothing or that its row did not have.
THEOREM FailsOnlyByToolAlways == Spec => []FailsOnlyByTool
<1>1. StepInvariant => FailsOnlyByTool
  BY DEF StepInvariant, Blame, Guilty, FailsOnlyByTool
<1> QED BY StepInvariance, <1>1, PTL

\* A conversation stays on its server, and each manager's counts differ by at most one.
THEOREM SticksAndSpreadsAlways == Spec => []SticksAndSpreads
<1>1. StepInvariant => SticksAndSpreads
  <2> SUFFICES ASSUME StepInvariant PROVE SticksAndSpreads
    OBVIOUS
  <2>1. ASSUME NEW r \in Requests PROVE Cardinality(pinned[r]) <= 1
    <3>1. CASE pinned[r] = {}
      BY <3>1, FS_EmptySet
    <3>2. CASE \E s \in ServerHandles : pinned[r] = {s}
      <4>1. PICK s \in ServerHandles : pinned[r] = {s}
        BY <3>2
      <4>2. Cardinality({s}) = 1
        BY FS_Singleton
      <4> QED BY <4>1, <4>2
    <3> QED BY <3>1, <3>2 DEF StepInvariant, Pinned
  <2> QED BY <2>1 DEF StepInvariant, Spread, SticksAndSpreads
<1> QED BY StepInvariance, <1>1, PTL

\* The rollout of every configuration is entered before it is used.
EnginesEntered == \A c \in Configs : c.mode = "sync" \/ c.free_cache

\* A conversation continues on engines that have their memory and the weights of the last
\* update, in every job that enters its rollouts; one of asynchronous servers that keep their
\* memory does not, and run async_stale_weights shows what they serve.
THEOREM ServedFreshAlways == ASSUME EnginesEntered PROVE Spec => []ServedFresh
<1>1. StepInvariant => ServedFresh
  <2> SUFFICES ASSUME StepInvariant, NEW r \in Requests, phase[r] = "generating",
                      task \in {"generate", "agent"}, NEW s \in EnginesOf(r), NEW k \in Group(s)
               PROVE  engine[k] = {"weights", "kv"} /\ engineVer[k] = version
    BY DEF ServedFresh
  <2>1. Refreshes /\ config \in Configs
    BY DEF EnginesEntered, Refreshes, Frees, StepInvariant, EngineInv, EngineTypeOK
  <2>2. s \in Servers
    BY StepAssumption DEF EnginesOf, StepInvariant, RowsAndRanks, RowTypeOK
  <2>3. k \in Ranks /\ Controller(k) \in Ranks
    BY <2>1, <2>2, RanksOfEngines, ControllerFacts
  <2>4. Held(k, Controller(k)) /\ Synced(k)
    BY <2>1, <2>3 DEF StepInvariant, EngineInv, RankInv
  <2>5. CASE ~Synchronous
    <3>1. config.mode = "async"
      BY <2>1, <2>5, ConfigOK DEF ConfigFacts, Synchronous
    <3>2. task = "agent"
      BY <3>1 DEF StepInvariant, EngineInv, TasksOfMode
    <3> QED BY <2>4, <3>2 DEF Held, Synced, Full
  <2>6. CASE Synchronous
    <3>1. task = "generate" /\ s = owner[r]
      BY <2>6 DEF StepInvariant, EngineInv, TasksOfMode, Synchronous, EnginesOf
    <3>2. \A j \in Group(s) : at[j] = "awake"
      BY <2>6, <3>1 DEF StepInvariant, RowsAndRanks
    <3>3. Controller(k) \in Group(s)
      <4>1. k[1] = s /\ 1 \in 1..Tp
        BY HybridAssumption DEF Group
      <4> QED BY <4>1 DEF Controller, Group
    <3> QED BY <2>4, <3>2, <3>3 DEF Held, Synced, Full
  <2> QED BY <2>5, <2>6
<1> QED BY StepInvariance, <1>1, PTL

-----------------------------------------------------------------------------
(***************************************************************************)
(* Part 2.  What the conversations are made of.  The invariant says of     *)
(* every row what its tokens, mask and positions are, given its phase; its *)
(* steps are those of part 1.  The reference rendering is a recursive      *)
(* function, which the least counterexample of an induction reaches.       *)
(***************************************************************************)

-----------------------------------------------------------------------------
(* The tokens of a conversation.                                           *)

\* A set of numbers has a least element.
LEMMA Least ==
  ASSUME NEW T \in SUBSET Nat, T # {}
  PROVE  \E x \in T : \A y \in T : x <= y
<1>1. PICK x \in T : \A y \in T : ~(<<y, x>> \in OpToRel(<, Nat))
  <2>1. T \subseteq Nat
    OBVIOUS
  <2> QED BY <2>1, NatLessThanWellFounded, WFMin
<1>2. \A y \in T : ~(y < x)
  BY <1>1 DEF OpToRel
<1> QED BY <1>2

\* Induction over the natural numbers, for membership in a set.
LEMMA Inductive ==
  ASSUME NEW T, 0 \in T, \A n \in Nat : n \in T => n + 1 \in T
  PROVE  \A n \in Nat : n \in T
<1> SUFFICES ASSUME NEW m \in Nat, m \notin T PROVE FALSE
  OBVIOUS
<1>1. PICK x \in Nat \ T : \A y \in Nat \ T : x <= y
  <2>1. Nat \ T \in SUBSET Nat /\ Nat \ T # {}
    OBVIOUS
  <2> QED BY <2>1, Least
<1>2. x # 0 /\ x - 1 \in Nat /\ ~(x <= x - 1) /\ (x - 1) + 1 = x
  OBVIOUS
<1>3. x - 1 \in T
  BY <1>1, <1>2
<1> QED BY <1>2, <1>3

\* RenderEach appends one message's tokens after the other.
Rendering(ms, n, g) == g = [k \in 0..n |-> IF k = 0 THEN <<>> ELSE g[k - 1] \o RenderOne(ms[k])]

\* The recursion over the messages has a solution, and what it is up to some message does
\* not depend on those that follow.
LEMMA RenderingExists ==
  ASSUME NEW ms, NEW n \in Nat
  PROVE  \E g : Rendering(ms, n, g)
<1> DEFINE N == {m \in Nat : \E g : Rendering(ms, m, g)}
<1>1. 0 \in N
  <2> DEFINE g == [k \in 0..0 |-> <<>>]
  <2>1. g = [k \in 0..0 |-> IF k = 0 THEN <<>> ELSE g[k - 1] \o RenderOne(ms[k])]
    OBVIOUS
  <2> HIDE DEF g
  <2>2. Rendering(ms, 0, g)
    BY <2>1 DEF Rendering
  <2> QED BY <2>2
<1>2. ASSUME NEW m \in Nat, m \in N PROVE m + 1 \in N
  <2>1. PICK g : Rendering(ms, m, g)
    BY <1>2
  <2> DEFINE h == [k \in 0..m + 1 |-> IF k = 0 THEN <<>> ELSE g[k - 1] \o RenderOne(ms[k])]
  <2>2. g = [k \in 0..m |-> IF k = 0 THEN <<>> ELSE g[k - 1] \o RenderOne(ms[k])]
    BY <2>1 DEF Rendering
  <2>3. \A k \in 0..m : k \in 0..m + 1
    OBVIOUS
  <2>4. \A k \in 0..m : h[k] = g[k]
    BY <2>2, <2>3
  <2>5. \A k \in 0..m + 1 : k # 0 => k - 1 \in 0..m
    OBVIOUS
  <2>6. h = [k \in 0..m + 1 |-> IF k = 0 THEN <<>> ELSE h[k - 1] \o RenderOne(ms[k])]
    BY <2>4, <2>5
  <2> HIDE DEF h
  <2>7. Rendering(ms, m + 1, h)
    BY <2>6 DEF Rendering
  <2> QED BY <2>7
<1> HIDE DEF N
<1>3. n \in N
  BY <1>1, <1>2, Inductive
<1> QED BY <1>3 DEF N

LEMMA RenderingAgrees ==
  ASSUME NEW ms, NEW ls, NEW m \in Nat, NEW n \in Nat, n <= m,
         \A k \in 1..n : ms[k] = ls[k],
         NEW g, Rendering(ms, m, g), NEW h, Rendering(ls, n, h)
  PROVE  g[n] = h[n]
<1> DEFINE N == {k \in Nat : k <= n => g[k] = h[k]}
<1>1. g = [k \in 0..m |-> IF k = 0 THEN <<>> ELSE g[k - 1] \o RenderOne(ms[k])]
  BY DEF Rendering
<1>2. h = [k \in 0..n |-> IF k = 0 THEN <<>> ELSE h[k - 1] \o RenderOne(ls[k])]
  BY DEF Rendering
<1>3. 0 \in N
  BY <1>1, <1>2
<1>4. ASSUME NEW k \in Nat, k \in N PROVE k + 1 \in N
  <2> SUFFICES ASSUME k + 1 <= n PROVE g[k + 1] = h[k + 1]
    OBVIOUS
  <2> DEFINE i == k + 1
  <2>1. i \in 0..n /\ i \in 0..m /\ i \in 1..n /\ i # 0 /\ i - 1 = k /\ k <= n
    OBVIOUS
  <2>2. g[k] = h[k]
    BY <1>4, <2>1
  <2> HIDE DEF i
  <2>3. g[i] = g[i - 1] \o RenderOne(ms[i])
    BY <1>1, <2>1
  <2>4. h[i] = h[i - 1] \o RenderOne(ls[i])
    BY <1>2, <2>1
  <2>5. ms[i] = ls[i]
    BY <2>1
  <2> QED BY <2>1, <2>2, <2>3, <2>4, <2>5 DEF i
<1> HIDE DEF N
<1>5. n \in N
  BY <1>3, <1>4, Inductive
<1> QED BY <1>5 DEF N

\* RenderEach is its last value.
LEMMA RenderIs ==
  ASSUME NEW ms, Len(ms) \in Nat
  PROVE  \E g : Rendering(ms, Len(ms), g) /\ RenderEach(ms) = g[Len(ms)]
<1> DEFINE upto == CHOOSE g : Rendering(ms, Len(ms), g)
<1>1. Rendering(ms, Len(ms), upto)
  BY RenderingExists
<1>2. RenderEach(ms) = upto[Len(ms)]
  BY Zenon DEF RenderEach, Rendering
<1> QED BY <1>1, <1>2

\* The messages of a conversation.
Messages == [kind : Kinds, len : Nat]

\* One message more is rendered after those before it.
LEMMA RenderMore ==
  ASSUME NEW ms \in Seq(Messages), NEW m \in Messages
  PROVE  RenderEach(Append(ms, m)) = RenderEach(ms) \o RenderOne(m)
<1> DEFINE ls == Append(ms, m)
           n == Len(ms)
<1>1. /\ n \in Nat /\ Len(ls) = n + 1 /\ ls[n + 1] = m /\ \A k \in 1..n : ls[k] = ms[k]
  OBVIOUS
<1> HIDE DEF ls, n
<1>2. PICK g : Rendering(ls, n + 1, g) /\ RenderEach(ls) = g[n + 1]
  BY <1>1, RenderIs
<1>3. PICK h : Rendering(ms, n, h) /\ RenderEach(ms) = h[n]
  BY <1>1, RenderIs DEF n
<1>4. g[n] = h[n]
  BY <1>1, <1>2, <1>3, RenderingAgrees
<1>5. g[n + 1] = g[n] \o RenderOne(m)
  <2>1. g = [k \in 0..n + 1 |-> IF k = 0 THEN <<>> ELSE g[k - 1] \o RenderOne(ls[k])]
    BY <1>2 DEF Rendering
  <2>2. n + 1 \in 0..n + 1 /\ n + 1 # 0 /\ (n + 1) - 1 = n
    BY <1>1
  <2> QED BY <1>1, <2>1, <2>2
<1> QED BY <1>2, <1>3, <1>4, <1>5 DEF ls

LEMMA RenderNone == RenderEach(<<>>) = <<>>
<1>1. Len(<<>>) = 0
  OBVIOUS
<1>2. PICK g : Rendering(<<>>, 0, g) /\ RenderEach(<<>>) = g[0]
  BY <1>1, RenderIs
<1>3. g[0] = <<>>
  <2>1. g = [k \in 0..0 |-> IF k = 0 THEN <<>> ELSE g[k - 1] \o RenderOne(<<>>[k])]
    BY <1>2 DEF Rendering
  <2> QED BY <2>1
<1> QED BY <1>2, <1>3

\* The prompt alone.
LEMMA RenderPrompt ==
  ASSUME NEW n \in Nat
  PROVE  RenderEach(<<Message("P", n)>>) = Repeated("P", n)
<1> DEFINE m == Message("P", n)
<1>1. m \in Messages /\ RenderOne(m) = Repeated("P", n)
  BY DEF Message, Messages, Kinds, RenderOne
<1>2. Repeated("P", n) \in Seq(Kinds)
  BY DEF Repeated, Kinds
<1> HIDE DEF m
<1>3. <<>> \in Seq(Messages) /\ Append(<<>>, m) = <<m>>
  OBVIOUS
<1>4. RenderEach(<<m>>) = <<>> \o RenderOne(m)
  BY <1>1, <1>3, RenderMore, RenderNone
<1> QED BY <1>1, <1>2, <1>4 DEF m

\* A conversation of the SGLang rollout.
Spoken == [messages : Seq(Messages), ids : Seq(Kinds), mask : Seq(BOOLEAN), pos : Seq(Nat),
           prompt : Nat]

\* Its columns fit together, and its tokens are the rendered messages, with the generation
\* prompt when nothing followed it yet.
Columns(c) ==
  /\ Len(c.mask) = Len(c.ids) /\ Len(c.pos) = Len(c.ids)
  /\ \A i \in 1..Len(c.ids) : c.mask[i] = (c.ids[i] = "A") /\ c.pos[i] = i - 1
Whole(c) ==
  /\ Len(c.ids) >= 1 /\ Columns(c)
  /\ c.ids = IF EndsWithPrompt(c) THEN Append(RenderEach(c.messages), "G") ELSE RenderEach(c.messages)

LEMMA ColumnsAreAligned == ASSUME NEW c \in Spoken, Columns(c) PROVE Aligned(c)
<1>1. c.ids \in Seq(Kinds) /\ c.mask \in Seq(BOOLEAN) /\ c.pos \in Seq(Nat)
  BY DEF Spoken
<1>2. DOMAIN c.ids = 1..Len(c.ids) /\ DOMAIN c.mask = 1..Len(c.mask) /\ DOMAIN c.pos = 1..Len(c.pos)
  BY <1>1
<1> QED BY <1>2 DEF Aligned, Columns

LEMMA RepeatedIs ==
  ASSUME NEW S, NEW x \in S, NEW n \in Nat
  PROVE  /\ Repeated(x, n) \in Seq(S) /\ Len(Repeated(x, n)) = n
         /\ \A i \in 1..n : Repeated(x, n)[i] = x
BY DEF Repeated

\* The rendered messages are tokens.
LEMMA RenderedTokens ==
  ASSUME NEW ms \in Seq(Messages)
  PROVE  RenderEach(ms) \in Seq(Kinds)
<1>1. \A m \in Messages : RenderOne(m) \in Seq(Kinds)
  <2> SUFFICES ASSUME NEW m \in Messages PROVE RenderOne(m) \in Seq(Kinds)
    OBVIOUS
  <2>1. m.kind \in Kinds /\ m.len \in Nat
    BY DEF Messages
  <2>2. Repeated(m.kind, m.len) \in Seq(Kinds)
    BY <2>1, RepeatedIs
  <2>3. <<"G">> \in Seq(Kinds)
    BY DEF Kinds
  <2>4. RenderOne(m) \in {Repeated(m.kind, m.len), <<"G">> \o Repeated(m.kind, m.len)}
    BY DEF RenderOne
  <2>5. <<"G">> \o Repeated(m.kind, m.len) \in Seq(Kinds)
    BY <2>2, <2>3, ConcatProperties
  <2> QED BY <2>2, <2>4, <2>5
<1> DEFINE N == {n \in Nat : \A ls \in Seq(Messages) : Len(ls) = n => RenderEach(ls) \in Seq(Kinds)}
<1>2. 0 \in N
  <2>1. \A ls \in Seq(Messages) : Len(ls) = 0 => ls = <<>>
    OBVIOUS
  <2>2. <<>> \in Seq(Kinds)
    OBVIOUS
  <2> QED BY <2>1, <2>2, RenderNone
<1>3. ASSUME NEW n \in Nat, n \in N PROVE n + 1 \in N
  <2> SUFFICES ASSUME NEW ls \in Seq(Messages), Len(ls) = n + 1 PROVE RenderEach(ls) \in Seq(Kinds)
    OBVIOUS
  <2> DEFINE front == [i \in 1..n |-> ls[i]]
  <2>1. /\ front \in Seq(Messages) /\ Len(front) = n
        /\ ls[n + 1] \in Messages /\ ls = Append(front, ls[n + 1])
    OBVIOUS
  <2>2. RenderEach(front) \in Seq(Kinds)
    BY <1>3, <2>1
  <2> HIDE DEF front, N
  <2>3. RenderEach(ls) = RenderEach(front) \o RenderOne(ls[n + 1])
    BY <2>1, RenderMore
  <2>4. RenderOne(ls[n + 1]) \in Seq(Kinds)
    BY <1>1, <2>1
  <2> QED BY <2>2, <2>3, <2>4, ConcatProperties
<1> HIDE DEF N
<1>4. Len(ms) \in N
  <2>1. Len(ms) \in Nat
    OBVIOUS
  <2> QED BY <1>2, <1>3, <2>1, Inductive
<1> QED BY <1>4 DEF N

LEMMA PromptMoves ==
  ASSUME NEW q \in Seq(Kinds), NEW s \in Seq(Kinds)
  PROVE  Append(q, "G") \o s = q \o (<<"G">> \o s)
BY DEF Kinds

LEMMA NewWhole ==
  ASSUME NEW n \in Nat \ {0}
  PROVE  NewRequest(n) \in Spoken /\ Whole(NewRequest(n)) /\ NewRequest(n).prompt = n + 1
<1> DEFINE c == NewRequest(n)
           p == Repeated("P", n)
<1>1. p \in Seq(Kinds) /\ Len(p) = n /\ \A i \in 1..n : p[i] = "P"
  BY RepeatedIs DEF Kinds
<1> HIDE DEF p
<1>2. c.messages = <<Message("P", n)>> /\ c.ids = Append(p, "G") /\ c.prompt = n + 1
      /\ c.mask = Repeated(FALSE, n + 1) /\ c.pos = [i \in 1..n + 1 |-> i - 1]
  BY DEF NewRequest, p
<1>3. Message("P", n) \in Messages
  BY DEF Message, Messages, Kinds
<1>4. c.messages \in Seq(Messages)
  BY <1>2, <1>3
<1>5. /\ c.ids \in Seq(Kinds) /\ Len(c.ids) = n + 1 /\ c.ids[n + 1] = "G"
      /\ \A i \in 1..n : c.ids[i] = "P"
  BY <1>1, <1>2 DEF Kinds
<1>6. /\ c.mask \in Seq(BOOLEAN) /\ Len(c.mask) = n + 1
      /\ \A i \in 1..n + 1 : c.mask[i] = FALSE
  <2>1. n + 1 \in Nat /\ FALSE \in BOOLEAN
    OBVIOUS
  <2> DEFINE no == Repeated(FALSE, n + 1)
  <2>2. no \in Seq(BOOLEAN) /\ Len(no) = n + 1 /\ \A i \in 1..n + 1 : no[i] = FALSE
    BY <2>1, RepeatedIs, Zenon
  <2> HIDE DEF c
  <2> QED BY <1>2, <2>2
<1>7. c.pos \in Seq(Nat) /\ Len(c.pos) = n + 1 /\ \A i \in 1..n + 1 : c.pos[i] = i - 1
  BY <1>2
<1>8. c \in Spoken
  <2>1. /\ c.messages \in Seq(Messages) /\ c.ids \in Seq(Kinds) /\ c.mask \in Seq(BOOLEAN)
        /\ c.pos \in Seq(Nat) /\ c.prompt \in Nat
    <3>1. c.prompt \in Nat
      BY <1>2
    <3> HIDE DEF c
    <3> QED BY <1>4, <1>5, <1>6, <1>7, <3>1
  <2>2. c = [messages |-> c.messages, ids |-> c.ids, mask |-> c.mask, pos |-> c.pos,
             prompt |-> c.prompt]
    BY DEF NewRequest
  <2> HIDE DEF c
  <2> QED BY <2>1, <2>2 DEF Spoken
<1>9. Columns(c)
  <2>1. \A i \in 1..n + 1 : c.ids[i] # "A"
    <3>1. \A i \in 1..n + 1 : i \in 1..n \/ i = n + 1
      OBVIOUS
    <3> QED BY <1>5, <3>1
  <2> QED BY <1>5, <1>6, <1>7, <2>1 DEF Columns
<1>10. RenderEach(c.messages) = p
  BY <1>2, RenderPrompt DEF p
<1>11. EndsWithPrompt(c)
  BY <1>5 DEF EndsWithPrompt
<1> QED BY <1>2, <1>5, <1>8, <1>9, <1>10, <1>11 DEF Whole

\* Tokens appended with their mask and positions.
LEMMA UpdateColumns ==
  ASSUME NEW c \in Spoken, Columns(c), Len(c.ids) >= 1,
         NEW new \in Seq(Kinds), NEW loss \in BOOLEAN,
         \A i \in 1..Len(new) : loss = (new[i] = "A")
  PROVE  LET d == Update(c, new, loss)
         IN  /\ d \in Spoken /\ Columns(d)
             /\ d.ids = c.ids \o new /\ d.messages = c.messages /\ d.prompt = c.prompt
             /\ Len(d.ids) = Len(c.ids) + Len(new)
<1> DEFINE d == Update(c, new, loss)
           n == Len(c.ids)
           k == Len(new)
           more == [i \in 1..k |-> c.pos[Len(c.pos)] + i]
<1>1. /\ c.ids \in Seq(Kinds) /\ c.mask \in Seq(BOOLEAN) /\ c.pos \in Seq(Nat)
      /\ n \in Nat /\ k \in Nat /\ Len(c.mask) = n /\ Len(c.pos) = n /\ n >= 1
  BY DEF Spoken, Columns
<1>2. /\ d.ids = c.ids \o new /\ d.mask = c.mask \o Repeated(loss, k) /\ d.pos = c.pos \o more
      /\ d.messages = c.messages /\ d.prompt = c.prompt
      /\ d = [c EXCEPT !.ids = c.ids \o new, !.mask = c.mask \o Repeated(loss, k), !.pos = c.pos \o more]
  BY DEF Update, Spoken
<1>3. c.pos[n] = n - 1
  <2>1. n \in 1..n
    BY <1>1
  <2> QED BY <2>1 DEF Columns
<1>4. more \in Seq(Nat) /\ Len(more) = k /\ \A i \in 1..k : more[i] = n - 1 + i
  <2>1. \A i \in 1..k : c.pos[Len(c.pos)] + i = n - 1 + i /\ n - 1 + i \in Nat
    BY <1>1, <1>3
  <2> QED BY <1>1, <2>1
<1> HIDE DEF d, n, k, more
<1>5. /\ d.ids \in Seq(Kinds) /\ Len(d.ids) = n + k
      /\ \A i \in 1..n + k : d.ids[i] = IF i <= n THEN c.ids[i] ELSE new[i - n]
  BY <1>1, <1>2, ConcatProperties DEF n, k
<1>6. /\ d.mask \in Seq(BOOLEAN) /\ Len(d.mask) = n + k
      /\ \A i \in 1..n + k : d.mask[i] = IF i <= n THEN c.mask[i] ELSE loss
  <2>1. /\ Repeated(loss, k) \in Seq(BOOLEAN) /\ Len(Repeated(loss, k)) = k
        /\ \A i \in 1..k : Repeated(loss, k)[i] = loss
    BY <1>1, RepeatedIs
  <2>2. /\ d.mask \in Seq(BOOLEAN) /\ Len(d.mask) = n + k
        /\ \A i \in 1..n + k : d.mask[i] = IF i <= n THEN c.mask[i] ELSE Repeated(loss, k)[i - n]
    <3> DEFINE loss2 == Repeated(loss, k)
    <3> HIDE DEF loss2
    <3>1. loss2 \in Seq(BOOLEAN) /\ Len(loss2) = k
      BY <2>1 DEF loss2
    <3>2. /\ c.mask \o loss2 \in Seq(BOOLEAN) /\ Len(c.mask \o loss2) = n + k
          /\ \A i \in 1..n + k : (c.mask \o loss2)[i] = IF i <= n THEN c.mask[i] ELSE loss2[i - n]
      <4>1. c.mask \in Seq(BOOLEAN) /\ Len(c.mask) = n
        BY <1>1
      <4>2. /\ c.mask \o loss2 \in Seq(BOOLEAN) /\ Len(c.mask \o loss2) = Len(c.mask) + Len(loss2)
            /\ \A i \in 1..Len(c.mask) + Len(loss2) :
                 (c.mask \o loss2)[i] = IF i <= Len(c.mask) THEN c.mask[i] ELSE loss2[i - Len(c.mask)]
        BY ONLY <3>1, <4>1, ConcatProperties
      <4> QED BY ONLY <3>1, <4>1, <4>2
    <3> QED BY <1>2, <3>2 DEF loss2
  <2>3. \A i \in 1..n + k : ~(i <= n) => i - n \in 1..k
    BY <1>1
  <2> QED BY <2>1, <2>2, <2>3
<1>7. /\ d.pos \in Seq(Nat) /\ Len(d.pos) = n + k
      /\ \A i \in 1..n + k : d.pos[i] = i - 1
  <2>1. /\ d.pos \in Seq(Nat) /\ Len(d.pos) = n + k
        /\ \A i \in 1..n + k : d.pos[i] = IF i <= n THEN c.pos[i] ELSE more[i - n]
    <3>1. /\ c.pos \o more \in Seq(Nat) /\ Len(c.pos \o more) = n + k
          /\ \A i \in 1..n + k : (c.pos \o more)[i] = IF i <= n THEN c.pos[i] ELSE more[i - n]
      <4>1. c.pos \in Seq(Nat) /\ Len(c.pos) = n /\ more \in Seq(Nat) /\ Len(more) = k
        BY <1>1, <1>4
      <4>2. /\ c.pos \o more \in Seq(Nat) /\ Len(c.pos \o more) = Len(c.pos) + Len(more)
            /\ \A i \in 1..Len(c.pos) + Len(more) :
                 (c.pos \o more)[i] = IF i <= Len(c.pos) THEN c.pos[i] ELSE more[i - Len(c.pos)]
        BY ONLY <4>1, ConcatProperties
      <4> QED BY ONLY <4>1, <4>2
    <3> QED BY <1>2, <3>1
  <2>2. \A i \in 1..n + k : IF i <= n THEN i \in 1..n ELSE i - n \in 1..k /\ n - 1 + (i - n) = i - 1
    BY <1>1
  <2>3. \A i \in 1..n : c.pos[i] = i - 1
    BY DEF Columns, n
  <2>4. ASSUME NEW i \in 1..n + k PROVE d.pos[i] = i - 1
    <3>1. CASE i <= n
      BY <2>1, <2>2, <2>3, <3>1
    <3>2. CASE ~(i <= n)
      BY <1>4, <2>1, <2>2, <3>2
    <3> QED BY <3>1, <3>2
  <2> QED BY <2>1, <2>4
<1>8. d \in Spoken
  BY <1>2, <1>5, <1>6, <1>7 DEF Spoken
<1>9. Columns(d)
  <2>1. ASSUME NEW i \in 1..n + k PROVE d.mask[i] = (d.ids[i] = "A")
    <3>1. CASE i <= n
      <4>1. i \in 1..n
        BY <1>1, <3>1
      <4>2. c.mask[i] = (c.ids[i] = "A")
        BY <4>1 DEF Columns, n
      <4> QED BY <1>5, <1>6, <3>1, <4>2
    <3>2. CASE ~(i <= n)
      <4>1. i - n \in 1..k
        BY <1>1, <3>2
      <4>2. loss = (new[i - n] = "A")
        BY <4>1 DEF k
      <4> QED BY <1>5, <1>6, <3>2, <4>2
    <3> QED BY <3>1, <3>2
  <2> QED BY <1>5, <1>6, <1>7, <2>1 DEF Columns
<1> QED BY <1>2, <1>5, <1>8, <1>9 DEF d, n, k

\* Asking for an answer appends the generation prompt where it is missing.
LEMMA AskWhole ==
  ASSUME NEW c \in Spoken, Whole(c)
  PROVE  LET d == ForGeneration(c) IN d \in Spoken /\ Whole(d) /\ EndsWithPrompt(d)
<1>1. CASE EndsWithPrompt(c)
  BY <1>1 DEF ForGeneration
<1>2. CASE ~EndsWithPrompt(c)
  <2> DEFINE d == Update(c, <<"G">>, FALSE)
  <2>1. <<"G">> \in Seq(Kinds) /\ Len(<<"G">>) = 1 /\ \A i \in 1..1 : FALSE = (<<"G">>[i] = "A")
    BY DEF Kinds
  <2>2. /\ d \in Spoken /\ Columns(d) /\ d.ids = c.ids \o <<"G">> /\ d.messages = c.messages
        /\ Len(d.ids) = Len(c.ids) + 1
    BY <2>1, UpdateColumns DEF Whole
  <2> HIDE DEF d
  <2>3. c.ids \in Seq(Kinds) /\ Len(c.ids) \in Nat /\ Len(c.ids) >= 1
    <3>1. c.ids \in Seq(Kinds)
      BY DEF Spoken
    <3> QED BY <3>1 DEF Whole
  <2>4. d.ids = Append(c.ids, "G") /\ d.ids[Len(c.ids) + 1] = "G"
    BY <2>2, <2>3
  <2>5. EndsWithPrompt(d)
    BY <2>2, <2>4 DEF EndsWithPrompt
  <2>6. d.ids = Append(RenderEach(d.messages), "G")
    BY <1>2, <2>2, <2>4 DEF Whole
  <2>7. Whole(d)
    <3>1. Len(d.ids) >= 1
      BY <2>2, <2>3
    <3> QED BY <2>2, <2>5, <2>6, <3>1 DEF Whole
  <2> QED BY <1>2, <2>2, <2>5, <2>7 DEF ForGeneration, d
<1> QED BY <1>1, <1>2

\* A message is appended with its tokens: an answer after the generation prompt, any other
\* where there is none.
LEMMA AddWhole ==
  ASSUME NEW c \in Spoken, Whole(c), NEW kind \in {"A", "U", "T"}, NEW n \in Nat \ {0},
         EndsWithPrompt(c) <=> kind = "A"
  PROVE  LET d == Add(c, kind, n, kind = "A")
         IN  d \in Spoken /\ Whole(d) /\ ~EndsWithPrompt(d) /\ d.prompt = c.prompt
<1> DEFINE new == Repeated(kind, n)
           m == Message(kind, n)
           u == Update(c, new, kind = "A")
           d == Add(c, kind, n, kind = "A")
<1>1. new \in Seq(Kinds) /\ Len(new) = n /\ \A i \in 1..n : new[i] = kind
  <2>1. kind \in Kinds
    BY DEF Kinds
  <2> QED BY <2>1, RepeatedIs
<1>2. m \in Messages /\ RenderOne(m) = IF kind = "A" THEN <<"G">> \o new ELSE new
  BY DEF Message, Messages, Kinds, RenderOne
<1>3. c.messages \in Seq(Messages) /\ c.ids \in Seq(Kinds) /\ Len(c.ids) \in Nat /\ Len(c.ids) >= 1
  <2>1. c.messages \in Seq(Messages) /\ c.ids \in Seq(Kinds)
    BY DEF Spoken
  <2> QED BY <2>1 DEF Whole
<1> HIDE DEF new, m
<1>4. /\ u \in Spoken /\ Columns(u) /\ u.ids = c.ids \o new /\ u.messages = c.messages
      /\ u.prompt = c.prompt /\ Len(u.ids) = Len(c.ids) + n
  <2>1. (kind = "A") \in BOOLEAN /\ \A i \in 1..Len(new) : (kind = "A") = (new[i] = "A")
    BY <1>1
  <2> QED BY <1>1, <1>3, <2>1, UpdateColumns DEF Whole
<1>5. d = [u EXCEPT !.messages = Append(@, m)]
  BY DEF Add, new, m
<1> HIDE DEF u, d
<1>6. /\ d.ids = u.ids /\ d.mask = u.mask /\ d.pos = u.pos /\ d.prompt = u.prompt
      /\ d.messages = Append(c.messages, m) /\ d \in Spoken
  <2>1. Append(c.messages, m) \in Seq(Messages)
    BY <1>2, <1>3
  <2> QED BY <1>4, <1>5, <2>1 DEF Spoken
<1>7. Columns(d)
  BY <1>4, <1>6 DEF Columns
<1>8. RenderEach(d.messages) = RenderEach(c.messages) \o RenderOne(m)
  BY <1>2, <1>3, <1>6, RenderMore
<1>9. d.ids = RenderEach(d.messages)
  <2>1. CASE kind = "A"
    <3>1. c.ids = Append(RenderEach(c.messages), "G")
      BY <2>1 DEF Whole
    <3> DEFINE q == RenderEach(c.messages)
    <3>2. q \in Seq(Kinds)
      BY <1>2, <1>3, <3>1, RenderedTokens
    <3> HIDE DEF q
    <3>3. Append(q, "G") \o new = q \o (<<"G">> \o new)
      BY <1>1, <3>2, PromptMoves
    <3> QED BY <1>2, <1>4, <1>6, <1>8, <2>1, <3>1, <3>3 DEF q
  <2>2. CASE kind # "A"
    BY <1>2, <1>4, <1>6, <1>8, <2>2 DEF Whole
  <2> QED BY <2>1, <2>2
<1>10. d.ids[Len(d.ids)] = kind /\ Len(d.ids) >= 1
  <2>1. Len(d.ids) = Len(c.ids) + n
    BY <1>4, <1>6
  <2>2. Len(c.ids) + n \in 1..Len(c.ids) + n /\ ~(Len(c.ids) + n <= Len(c.ids))
        /\ (Len(c.ids) + n) - Len(c.ids) = n /\ n \in 1..n
    BY <1>3
  <2>3. (c.ids \o new)[Len(c.ids) + n] = new[n]
    BY <1>1, <1>3, <2>2
  <2> QED BY <1>1, <1>4, <1>6, <2>1, <2>2, <2>3
<1>11. ~EndsWithPrompt(d)
  BY <1>10 DEF EndsWithPrompt
<1> QED BY <1>4, <1>6, <1>7, <1>9, <1>10, <1>11 DEF d, Whole

\* The beginning of a list, and what follows its first tokens.
LEMMA UptoIs ==
  ASSUME NEW S, NEW s \in Seq(S), NEW n \in Nat
  PROVE  /\ Upto(s, n) \in Seq(S)
         /\ Len(Upto(s, n)) = IF n < Len(s) THEN n ELSE Len(s)
         /\ \A i \in 1..Len(Upto(s, n)) : Upto(s, n)[i] = s[i]
<1> DEFINE k == IF n < Len(s) THEN n ELSE Len(s)
<1>1. Len(s) \in Nat /\ k \in Nat /\ k <= Len(s) /\ \A i \in 1..k : s[i] \in S
  OBVIOUS
<1> HIDE DEF k
<1>2. /\ SubSeq(s, 1, k) \in Seq(S)
      /\ Len(SubSeq(s, 1, k)) = IF 1 <= k THEN k - 1 + 1 ELSE 0
      /\ \A i \in 1..k - 1 + 1 : SubSeq(s, 1, k)[i] = s[1 + i - 1]
  <2>1. 1 \in Int /\ k \in Int
    BY <1>1
  <2> QED BY ONLY <1>1, <2>1, SubSeqProperties
<1>3. Len(SubSeq(s, 1, k)) = k
  BY <1>1, <1>2
<1>4. \A i \in 1..k : i \in 1..k - 1 + 1 /\ 1 + i - 1 = i
  BY <1>1
<1>5. Upto(s, n) = SubSeq(s, 1, k)
  BY DEF Upto, k
<1> QED BY <1>2, <1>3, <1>4, <1>5 DEF k

LEMMA FromIs ==
  ASSUME NEW S, NEW s \in Seq(S), NEW n \in Nat
  PROVE  /\ From(s, n + 1) \in Seq(S)
         /\ Len(From(s, n + 1)) = IF n < Len(s) THEN Len(s) - n ELSE 0
         /\ \A i \in 1..Len(From(s, n + 1)) : n + i \in 1..Len(s) /\ From(s, n + 1)[i] = s[n + i]
<1> DEFINE q == SubSeq(s, n + 1, Len(s))
<1>1. Len(s) \in Nat /\ n + 1 \in Int /\ Len(s) \in Int /\ \A i \in (n + 1)..Len(s) : s[i] \in S
  OBVIOUS
<1>2. /\ q \in Seq(S) /\ Len(q) = IF n + 1 <= Len(s) THEN Len(s) - (n + 1) + 1 ELSE 0
      /\ \A i \in 1..Len(s) - (n + 1) + 1 : q[i] = s[(n + 1) + i - 1]
  BY ONLY <1>1, SubSeqProperties
<1> HIDE DEF q
<1>3. /\ Len(q) = IF n < Len(s) THEN Len(s) - n ELSE 0
      /\ \A i \in 1..Len(q) : /\ i \in 1..Len(s) - (n + 1) + 1
                              /\ (n + 1) + i - 1 = n + i /\ n + i \in 1..Len(s)
  <2> DEFINE l == Len(s)
  <2> HIDE DEF l
  <2>1. l \in Nat /\ Len(q) = IF n + 1 <= l THEN l - (n + 1) + 1 ELSE 0
    BY <1>1, <1>2 DEF l
  <2>2. Len(q) = IF n < l THEN l - n ELSE 0
    BY <2>1
  <2>3. ASSUME NEW i \in 1..Len(q)
        PROVE  /\ i \in 1..l - (n + 1) + 1
               /\ (n + 1) + i - 1 = n + i /\ n + i \in 1..l
    BY <2>1, <2>2
  <2> QED BY <2>2, <2>3 DEF l
<1>4. From(s, n + 1) = q
  BY DEF From, q
<1> QED BY <1>2, <1>3, <1>4

\* The beginning of a list that was appended to is that of the list, up to its length.
LEMMA UptoAppend ==
  ASSUME NEW S, NEW s \in Seq(S), NEW x \in S
  PROVE  Upto(Append(s, x), Len(s)) = s
<1> DEFINE t == Append(s, x)
<1>1. t \in Seq(S) /\ Len(t) = Len(s) + 1 /\ Len(s) \in Nat /\ \A i \in 1..Len(s) : t[i] = s[i]
  OBVIOUS
<1> HIDE DEF t
<1> DEFINE u == Upto(t, Len(s))
<1>2. u \in Seq(S) /\ Len(u) = Len(s) /\ \A i \in 1..Len(s) : u[i] = t[i]
  <2>1. /\ Upto(t, Len(s)) \in Seq(S)
        /\ Len(Upto(t, Len(s))) = IF Len(s) < Len(t) THEN Len(s) ELSE Len(t)
        /\ \A i \in 1..Len(Upto(t, Len(s))) : Upto(t, Len(s))[i] = t[i]
    BY <1>1, UptoIs
  <2> QED BY <1>1, <2>1
<1> HIDE DEF u
<1>3. u = s
  BY <1>1, <1>2
<1> QED BY <1>3 DEF u, t

\* The same facts, and those of lists one after the other, to cite by a name.
IsUpto(S, s, n) ==
  /\ Upto(s, n) \in Seq(S)
  /\ Len(Upto(s, n)) = IF n < Len(s) THEN n ELSE Len(s)
  /\ \A i \in 1..Len(Upto(s, n)) : Upto(s, n)[i] = s[i]
IsFrom(S, s, n) ==
  /\ From(s, n + 1) \in Seq(S)
  /\ Len(From(s, n + 1)) = IF n < Len(s) THEN Len(s) - n ELSE 0
  /\ \A i \in 1..Len(From(s, n + 1)) : n + i \in 1..Len(s) /\ From(s, n + 1)[i] = s[n + i]
IsJoined(S, s, t) ==
  /\ s \o t \in Seq(S) /\ Len(s \o t) = Len(s) + Len(t)
  /\ \A i \in 1..Len(s) + Len(t) : (s \o t)[i] = IF i <= Len(s) THEN s[i] ELSE t[i - Len(s)]

LEMMA UptoHolds == ASSUME NEW S, NEW s \in Seq(S), NEW n \in Nat PROVE IsUpto(S, s, n)
BY UptoIs DEF IsUpto

LEMMA FromHolds == ASSUME NEW S, NEW s \in Seq(S), NEW n \in Nat PROVE IsFrom(S, s, n)
BY FromIs DEF IsFrom

LEMMA JoinedHolds == ASSUME NEW S, NEW s \in Seq(S), NEW t \in Seq(S) PROVE IsJoined(S, s, t)
BY ConcatProperties DEF IsJoined

\* What finalize leaves: the rendered messages, cut to a length, with their mask and positions.
LEMMA ColumnsCut ==
  ASSUME NEW c \in Spoken, Columns(c), NEW n \in Nat
  PROVE  LET d == [c EXCEPT !.ids = Upto(@, n), !.mask = Upto(@, n), !.pos = Upto(@, n)]
         IN  /\ d \in Spoken /\ Columns(d) /\ Len(d.ids) <= n
             /\ d.ids = Upto(c.ids, n) /\ d.messages = c.messages /\ d.prompt = c.prompt
<1> DEFINE d == [c EXCEPT !.ids = Upto(@, n), !.mask = Upto(@, n), !.pos = Upto(@, n)]
           k == IF n < Len(c.ids) THEN n ELSE Len(c.ids)
<1>1. /\ c.ids \in Seq(Kinds) /\ c.mask \in Seq(BOOLEAN) /\ c.pos \in Seq(Nat)
      /\ Len(c.mask) = Len(c.ids) /\ Len(c.pos) = Len(c.ids) /\ Len(c.ids) \in Nat
  <2>1. c.ids \in Seq(Kinds) /\ c.mask \in Seq(BOOLEAN) /\ c.pos \in Seq(Nat)
    BY DEF Spoken
  <2> QED BY <2>1 DEF Columns
<1>2. /\ d.ids = Upto(c.ids, n) /\ d.mask = Upto(c.mask, n) /\ d.pos = Upto(c.pos, n)
      /\ d.messages = c.messages /\ d.prompt = c.prompt
      /\ d = [c EXCEPT !.ids = Upto(c.ids, n), !.mask = Upto(c.mask, n), !.pos = Upto(c.pos, n)]
  BY DEF Spoken
<1>3. k \in Nat /\ k <= n /\ \A i \in 1..k : i \in 1..Len(c.ids)
  BY <1>1
<1> HIDE DEF d
<1>4. d.ids \in Seq(Kinds) /\ Len(d.ids) = k /\ \A i \in 1..k : d.ids[i] = c.ids[i]
  <2>1. /\ Upto(c.ids, n) \in Seq(Kinds)
        /\ Len(Upto(c.ids, n)) = IF n < Len(c.ids) THEN n ELSE Len(c.ids)
        /\ \A i \in 1..Len(Upto(c.ids, n)) : Upto(c.ids, n)[i] = c.ids[i]
    BY ONLY <1>1, UptoIs, n \in Nat
  <2> QED BY <1>1, <1>2, <2>1
<1>5. d.mask \in Seq(BOOLEAN) /\ Len(d.mask) = k /\ \A i \in 1..k : d.mask[i] = c.mask[i]
  <2>1. /\ Upto(c.mask, n) \in Seq(BOOLEAN)
        /\ Len(Upto(c.mask, n)) = IF n < Len(c.mask) THEN n ELSE Len(c.mask)
        /\ \A i \in 1..Len(Upto(c.mask, n)) : Upto(c.mask, n)[i] = c.mask[i]
    BY ONLY <1>1, UptoIs, n \in Nat
  <2> QED BY <1>1, <1>2, <2>1
<1>6. d.pos \in Seq(Nat) /\ Len(d.pos) = k /\ \A i \in 1..k : d.pos[i] = c.pos[i]
  <2>1. /\ Upto(c.pos, n) \in Seq(Nat)
        /\ Len(Upto(c.pos, n)) = IF n < Len(c.pos) THEN n ELSE Len(c.pos)
        /\ \A i \in 1..Len(Upto(c.pos, n)) : Upto(c.pos, n)[i] = c.pos[i]
    BY ONLY <1>1, UptoIs, n \in Nat
  <2> QED BY <1>1, <1>2, <2>1
<1> HIDE DEF k
<1>7. d \in Spoken
  BY <1>2, <1>4, <1>5, <1>6 DEF Spoken
<1>8. Columns(d)
  <2>1. \A i \in 1..k : c.mask[i] = (c.ids[i] = "A") /\ c.pos[i] = i - 1
    BY <1>3 DEF Columns
  <2> QED BY <1>4, <1>5, <1>6, <2>1 DEF Columns
<1> QED BY <1>2, <1>3, <1>4, <1>7, <1>8 DEF d

LEMMA FinalizedFits ==
  ASSUME NEW c \in Spoken, Whole(c), NEW n \in Nat
  PROVE  LET d == Finalized(c, n)
         IN  /\ d \in Spoken /\ Columns(d) /\ Len(d.ids) <= n
             /\ d.ids = Upto(RenderEach(d.messages), n) /\ d.prompt = c.prompt
<1> DEFINE s == Stripped(c)
           q == RenderEach(c.messages)
<1>1. q \in Seq(Kinds) /\ c.ids \in Seq(Kinds)
  <2>1. c.messages \in Seq(Messages) /\ c.ids \in Seq(Kinds)
    BY DEF Spoken
  <2> QED BY <2>1, RenderedTokens
<1>2. /\ s \in Spoken /\ Columns(s) /\ s.ids = q /\ s.messages = c.messages /\ s.prompt = c.prompt
  <2>1. CASE EndsWithPrompt(c)
    <3> DEFINE less == Len(c.ids) - 1
    <3>1. c.ids = Append(q, "G")
      BY <2>1 DEF Whole
    <3>2. less = Len(q) /\ less \in Nat
      BY <1>1, <3>1
    <3>3. Upto(c.ids, less) = q
      <4>1. "G" \in Kinds
        BY DEF Kinds
      <4> HIDE DEF q
      <4> QED BY <1>1, <3>1, <3>2, <4>1, UptoAppend
    <3>4. s = [c EXCEPT !.ids = Upto(@, less), !.mask = Upto(@, less), !.pos = Upto(@, less)]
      BY <2>1 DEF Stripped
    <3> HIDE DEF s, less, q
    <3> QED BY <3>2, <3>3, <3>4, ColumnsCut DEF Whole
  <2>2. CASE ~EndsWithPrompt(c)
    BY <2>2 DEF Stripped, Whole
  <2> QED BY <2>1, <2>2
<1> HIDE DEF s, q
<1>3. Finalized(c, n) = [s EXCEPT !.ids = Upto(@, n), !.mask = Upto(@, n), !.pos = Upto(@, n)]
  BY DEF Finalized, Truncated, s
<1> DEFINE d == [s EXCEPT !.ids = Upto(@, n), !.mask = Upto(@, n), !.pos = Upto(@, n)]
<1>4. /\ d \in Spoken /\ Columns(d) /\ Len(d.ids) <= n
      /\ d.ids = Upto(s.ids, n) /\ d.messages = s.messages /\ d.prompt = s.prompt
  BY <1>2, ColumnsCut
<1> HIDE DEF d
<1> QED BY <1>2, <1>3, <1>4 DEF d, q

\* What a completed conversation of the SGLang rollout puts into the batch (Fits).
FitsAs(c) ==
  LET ids  == Response(c, "ids", ResponseLength)
      mask == Response(c, "mask", ResponseLength)
  IN  /\ Aligned(c)
      /\ Len(c.ids) <= MaxModelLen
      /\ c.ids = Upto(RenderEach(c.messages), RequestModelLen)
      /\ DOMAIN mask = DOMAIN ids
      /\ \A i \in DOMAIN ids : mask[i] = (ids[i] = "A")

\* A conversation of the SGLang rollout in phase p, with tokens c, a answers, u user turns,
\* and calls of the tools w.
SpeaksAs(p, c, a, u, w) ==
  /\ c \in Spoken
  /\ p # "bad_call"
  /\ p \notin {"completed", "raised"} => Whole(c)
  /\ p = "completed" => FitsAs(c)
  /\ p = "generating" => EndsWithPrompt(c) /\ HasRoom(c.ids)
  /\ p \in {"tool_calling", "interacting"} => ~EndsWithPrompt(c)
  /\ p = "tool_calling" => w # {}
  /\ a \in 0..MaxAssistantTurns
  /\ p \in {"pending", "running", "generating", "tool_calling", "interacting"} =>
       a < MaxAssistantTurns
  /\ u \in 0..MaxUserTurns
  /\ p = "interacting" => u < MaxUserTurns

LEMMA Turns ==
  /\ MaxAssistantTurns \in Nat /\ MaxUserTurns \in Nat /\ ResponseLength \in Nat
  /\ MaxModelLen \in Nat /\ RequestModelLen \in Nat /\ RequestModelLen <= MaxModelLen
  /\ AnswerLens \subseteq Nat \ {0}
BY RowAssumption DEF RequestModelLen

LEMMA SpeaksAsked ==
  ASSUME NEW c, NEW a, NEW u, NEW w, SpeaksAs("running", c, a, u, w)
  PROVE  SpeaksAs(IF HasRoom(ForGeneration(c).ids) THEN "generating" ELSE "scoring",
                  ForGeneration(c), a, u, w)
<1> DEFINE d == ForGeneration(c)
<1>1. c \in Spoken /\ Whole(c)
  BY DEF SpeaksAs
<1>2. d \in Spoken /\ Whole(d) /\ EndsWithPrompt(d)
  BY <1>1, AskWhole
<1> HIDE DEF d
<1>3. a \in 0..MaxAssistantTurns /\ a < MaxAssistantTurns /\ u \in 0..MaxUserTurns
  BY DEF SpeaksAs
<1> QED BY <1>2, <1>3 DEF d, SpeaksAs

\* An answer of n tokens, after which the conversation is left, goes on or fails.
LEMMA SpeaksAnswered ==
  ASSUME NEW c, NEW a, NEW u, NEW w, SpeaksAs("generating", c, a, u, w), NEW n \in Nat \ {0}, NEW v,
         NEW p \in {"scoring", "tool_calling", "interacting", "raised"},
         p \in {"tool_calling", "interacting"} => a + 1 < MaxAssistantTurns,
         p = "interacting" => u < MaxUserTurns, p = "tool_calling" => v # {}
  PROVE  SpeaksAs(p, AddAssistant(c, n), a + 1, u, v)
<1> DEFINE d == AddAssistant(c, n)
<1>1. c \in Spoken /\ Whole(c) /\ EndsWithPrompt(c)
  BY DEF SpeaksAs
<1>2. d \in Spoken /\ Whole(d) /\ ~EndsWithPrompt(d)
  <2> DEFINE e == Add(c, "A", n, "A" = "A")
  <2>1. e \in Spoken /\ Whole(e) /\ ~EndsWithPrompt(e) /\ e.prompt = c.prompt
    BY <1>1, AddWhole
  <2>2. d = e
    BY DEF AddAssistant
  <2> HIDE DEF d, e
  <2> QED BY <2>1, <2>2
<1> HIDE DEF d
<1>3. a \in 0..MaxAssistantTurns /\ a < MaxAssistantTurns /\ u \in 0..MaxUserTurns
  BY DEF SpeaksAs
<1>4. a + 1 \in 0..MaxAssistantTurns
  BY <1>3, Turns
<1> QED BY <1>2, <1>3, <1>4 DEF d, SpeaksAs

\* A message of n tokens of another kind.
LEMMA SpeaksOn ==
  ASSUME NEW c \in Spoken, Whole(c), ~EndsWithPrompt(c), NEW n \in Nat \ {0}, NEW kind \in {"T", "U"},
         NEW a, NEW u, NEW w, a \in 0..MaxAssistantTurns, a < MaxAssistantTurns, u \in 0..MaxUserTurns
  PROVE  SpeaksAs("running", Add(c, kind, n, FALSE), a, u, w)
<1> DEFINE d == Add(c, kind, n, FALSE)
<1>1. d \in Spoken /\ Whole(d)
  <2> DEFINE e == Add(c, kind, n, kind = "A")
  <2>1. e \in Spoken /\ Whole(e) /\ ~EndsWithPrompt(e) /\ e.prompt = c.prompt
    BY AddWhole
  <2>2. (kind = "A") = FALSE
    OBVIOUS
  <2>3. e = d
    BY <2>2
  <2> HIDE DEF d, e
  <2> QED BY <2>1, <2>3
<1> HIDE DEF d
<1> QED BY <1>1 DEF d, SpeaksAs

LEMMA SpeaksOfTools ==
  ASSUME NEW c, NEW a, NEW u, NEW w \in SUBSET Tools, SpeaksAs("tool_calling", c, a, u, w)
  PROVE  /\ SpeaksAs("running", AddToolResponses(c, ToolLen[w]), a, u, {})
         /\ SpeaksAs("raised", c, a, u, w)
<1>1. c \in Spoken /\ Whole(c) /\ ~EndsWithPrompt(c) /\ w # {}
  BY DEF SpeaksAs
<1>2. a \in 0..MaxAssistantTurns /\ a < MaxAssistantTurns /\ u \in 0..MaxUserTurns
  BY DEF SpeaksAs
<1>3. ToolLen[w] \in Nat \ {0}
  BY <1>1, RowAssumption
<1>4. SpeaksAs("running", Add(c, "T", ToolLen[w], FALSE), a, u, {})
  BY <1>1, <1>2, <1>3, SpeaksOn
<1>5. SpeaksAs("raised", c, a, u, w)
  BY <1>1, <1>2 DEF SpeaksAs
<1> QED BY <1>4, <1>5 DEF AddToolResponses

LEMMA SpeaksWithUser ==
  ASSUME NEW c, NEW a, NEW u, NEW w, SpeaksAs("interacting", c, a, u, w)
  PROVE  /\ SpeaksAs("running", AddUser(c, 1), a, u + 1, w)
         /\ SpeaksAs("scoring", c, a, u + 1, w)
<1>1. c \in Spoken /\ Whole(c) /\ ~EndsWithPrompt(c)
  BY DEF SpeaksAs
<1>2. /\ a \in 0..MaxAssistantTurns /\ a < MaxAssistantTurns
      /\ u \in 0..MaxUserTurns /\ u < MaxUserTurns
  BY DEF SpeaksAs
<1>3. u + 1 \in 0..MaxUserTurns
  BY <1>2, Turns
<1>4. SpeaksAs("running", Add(c, "U", 1, FALSE), a, u + 1, w)
  <2> DEFINE one == 1
  <2>1. one \in Nat \ {0}
    OBVIOUS
  <2> HIDE DEF one
  <2>2. SpeaksAs("running", Add(c, "U", one, FALSE), a, u + 1, w)
    BY <1>1, <1>2, <1>3, <2>1, SpeaksOn
  <2> QED BY <2>2 DEF one
<1>5. SpeaksAs("scoring", c, a, u + 1, w)
  BY <1>1, <1>2, <1>3 DEF SpeaksAs
<1> QED BY <1>4, <1>5 DEF AddUser

\* The columns of the batch are cut alike, so that they stay aligned.
LEMMA ColumnsRespond ==
  ASSUME NEW c \in Spoken, Columns(c)
  PROVE  LET ids  == Response(c, "ids", ResponseLength)
             mask == Response(c, "mask", ResponseLength)
         IN  DOMAIN mask = DOMAIN ids /\ \A i \in DOMAIN ids : mask[i] = (ids[i] = "A")
<1> DEFINE n == c.prompt
           f == From(c.ids, n + 1)
           g == From(c.mask, n + 1)
           ids == Upto(f, ResponseLength)
           mask == Upto(g, ResponseLength)
<1>1. c.ids \in Seq(Kinds) /\ c.mask \in Seq(BOOLEAN) /\ n \in Nat
  BY DEF Spoken
<1>2. Len(c.ids) \in Nat /\ Len(c.mask) = Len(c.ids)
  BY <1>1 DEF Columns
<1>3. ids = Response(c, "ids", ResponseLength) /\ mask = Response(c, "mask", ResponseLength)
  BY DEF Response
<1> HIDE DEF n
<1>4. /\ f \in Seq(Kinds) /\ Len(f) = IF n < Len(c.ids) THEN Len(c.ids) - n ELSE 0
      /\ \A i \in 1..Len(f) : n + i \in 1..Len(c.ids) /\ f[i] = c.ids[n + i]
  <2>1. IsFrom(Kinds, c.ids, n)
    BY <1>1, FromHolds
  <2> QED BY <2>1 DEF IsFrom
<1>5. /\ g \in Seq(BOOLEAN) /\ Len(g) = IF n < Len(c.mask) THEN Len(c.mask) - n ELSE 0
      /\ \A i \in 1..Len(g) : n + i \in 1..Len(c.mask) /\ g[i] = c.mask[n + i]
  <2>1. IsFrom(BOOLEAN, c.mask, n)
    BY <1>1, FromHolds
  <2> QED BY <2>1 DEF IsFrom
<1> HIDE DEF f, g
<1>6. Len(g) = Len(f) /\ \A i \in 1..Len(f) : g[i] = (f[i] = "A")
  <2>1. Len(g) = Len(f)
    BY <1>2, <1>4, <1>5
  <2>2. ASSUME NEW i \in 1..Len(f) PROVE g[i] = (f[i] = "A")
    <3>1. n + i \in 1..Len(c.ids) /\ f[i] = c.ids[n + i] /\ g[i] = c.mask[n + i]
      BY <1>4, <1>5, <2>1
    <3> QED BY <3>1 DEF Columns
  <2> QED BY <2>1, <2>2
<1>7. ResponseLength \in Nat
  BY Turns
<1>8. /\ ids \in Seq(Kinds) /\ Len(ids) = IF ResponseLength < Len(f) THEN ResponseLength ELSE Len(f)
      /\ \A i \in 1..Len(ids) : ids[i] = f[i]
  BY ONLY <1>4, <1>7, UptoIs
<1>9. /\ mask \in Seq(BOOLEAN) /\ Len(mask) = IF ResponseLength < Len(g) THEN ResponseLength ELSE Len(g)
      /\ \A i \in 1..Len(mask) : mask[i] = g[i]
  BY ONLY <1>5, <1>7, UptoIs
<1> HIDE DEF ids, mask
<1>10. Len(mask) = Len(ids) /\ DOMAIN ids = 1..Len(ids) /\ DOMAIN mask = 1..Len(mask)
  BY <1>6, <1>8, <1>9
<1>11. \A i \in 1..Len(ids) : i \in 1..Len(f)
  <2>1. Len(f) \in Nat /\ Len(ids) <= Len(f)
    BY <1>4, <1>7, <1>8
  <2> QED BY <2>1, <1>7, <1>8
<1> QED BY <1>3, <1>6, <1>8, <1>9, <1>10, <1>11

LEMMA SpeaksToTheEnd ==
  ASSUME NEW c, NEW a, NEW u, NEW w, SpeaksAs("scoring", c, a, u, w)
  PROVE  /\ SpeaksAs("completed", Finalized(c, RequestModelLen), a, u, w)
         /\ SpeaksAs("raised", c, a, u, w)
<1> DEFINE d == Finalized(c, RequestModelLen)
<1>1. c \in Spoken /\ Whole(c) /\ a \in 0..MaxAssistantTurns /\ u \in 0..MaxUserTurns
  BY DEF SpeaksAs
<1>2. /\ d \in Spoken /\ Columns(d) /\ Len(d.ids) <= RequestModelLen
      /\ d.ids = Upto(RenderEach(d.messages), RequestModelLen)
  BY <1>1, Turns, FinalizedFits
<1> HIDE DEF d
<1>3. Len(d.ids) <= MaxModelLen
  <2>1. d.ids \in Seq(Kinds)
    BY <1>2 DEF Spoken
  <2>2. Len(d.ids) \in Nat
    BY <2>1
  <2> QED BY <1>2, <2>2, Turns
<1>4. FitsAs(d)
  BY <1>2, <1>3, ColumnsAreAligned, ColumnsRespond DEF FitsAs
<1>5. SpeaksAs("completed", d, a, u, w)
  BY <1>1, <1>2, <1>4 DEF SpeaksAs
<1>6. SpeaksAs("raised", c, a, u, w)
  BY <1>1 DEF SpeaksAs
<1> QED BY <1>5, <1>6 DEF d

\* A conversation of an agent loop: the prompt, and a response whose mask is right.
Looped == [ids : Seq(Kinds), mask : Seq(BOOLEAN), prompt : Nat]
Masked(c, n) ==
  /\ c \in Looped /\ c.prompt = n /\ Len(c.ids) = n + Len(c.mask)
  /\ \A i \in 1..Len(c.mask) : c.mask[i] = (c.ids[n + i] = "A")
EndsWithAnswer(c) == Len(c.mask) >= 1 /\ c.mask[Len(c.mask)]

\* What a loop that was left puts into the batch (LoopEnded).
EndsAs(c) ==
  LET ids  == From(c.ids, c.prompt + 1)
      mask == c.mask
  IN  /\ Len(ids) \in 1..ResponseLength
      /\ DOMAIN mask = DOMAIN ids
      /\ \A i \in DOMAIN ids : mask[i] = (ids[i] = "A")
      /\ mask[Len(mask)]

\* A conversation of an agent loop with a prompt of n tokens, like SpeaksAs.
LoopsAs(n, p, c, a, u, w) ==
  /\ p \in {"pending", "generating", "tool_calling", "bad_call", "completed", "raised"}
  /\ p = "pending" => c = NewRequest(n)
  /\ p # "pending" => c \in Looped
  /\ p \in {"generating", "tool_calling", "bad_call"} =>
       Masked(c, n + 1) /\ Len(c.mask) < ResponseLength
  /\ p \in {"tool_calling", "bad_call"} => EndsWithAnswer(c)
  /\ p = "completed" => EndsAs(c)
  /\ p = "tool_calling" => w # {}
  /\ a \in 0..MaxAssistantTurns
  /\ p \in {"pending", "generating", "tool_calling", "bad_call"} => a < MaxAssistantTurns
  /\ u \in 0..MaxUserTurns
  /\ p \in {"tool_calling", "bad_call"} => u < MaxUserTurns

\* A response cut to its length, which ends with an answer there.
LEMMA EndedEnds ==
  ASSUME NEW n \in Nat, NEW c, Masked(c, n), Len(c.mask) >= 1,
         c.mask[IF ResponseLength < Len(c.mask) THEN ResponseLength ELSE Len(c.mask)]
  PROVE  Ended(c) \in Looped /\ EndsAs(Ended(c))
<1> DEFINE R == ResponseLength
           l == Len(c.mask)
           k == IF R < l THEN R ELSE l
           ids == Upto(c.ids, n + R)
           mask == Upto(c.mask, R)
           f == From(ids, n + 1)
<1>1. c.ids \in Seq(Kinds) /\ c.mask \in Seq(BOOLEAN) /\ c.prompt = n
  BY DEF Masked, Looped
<1>2. R \in Nat /\ R >= 1 /\ n + R \in Nat
  BY RowAssumption
<1>3. l \in Nat /\ l >= 1 /\ Len(c.ids) = n + l /\ \A i \in 1..l : c.mask[i] = (c.ids[n + i] = "A")
  BY <1>1 DEF Masked
<1>4. Ended(c) = [ids |-> ids, mask |-> mask, prompt |-> n]
  BY <1>1 DEF Ended
<1> HIDE DEF R, l
<1>5. k \in 1..R /\ k <= l
  BY <1>2, <1>3
<1>6. /\ ids \in Seq(Kinds) /\ Len(ids) = IF n + R < Len(c.ids) THEN n + R ELSE Len(c.ids)
      /\ \A i \in 1..Len(ids) : ids[i] = c.ids[i]
  BY ONLY <1>1, <1>2, UptoIs
<1>7. /\ mask \in Seq(BOOLEAN) /\ Len(mask) = IF R < Len(c.mask) THEN R ELSE Len(c.mask)
      /\ \A i \in 1..Len(mask) : mask[i] = c.mask[i]
  BY ONLY <1>1, <1>2, UptoIs
<1> HIDE DEF ids, mask
<1>8. Len(ids) = n + k /\ Len(mask) = k
  BY <1>2, <1>3, <1>6, <1>7 DEF l
<1>9. /\ f \in Seq(Kinds) /\ Len(f) = IF n < Len(ids) THEN Len(ids) - n ELSE 0
      /\ \A i \in 1..Len(f) : n + i \in 1..Len(ids) /\ f[i] = ids[n + i]
  <2>1. IsFrom(Kinds, ids, n)
    BY <1>6, FromHolds
  <2> QED BY <2>1 DEF IsFrom
<1> HIDE DEF f, k
<1>10. Len(f) = k
  BY <1>5, <1>8, <1>9
<1>11. DOMAIN f = 1..k /\ DOMAIN mask = 1..k
  BY <1>7, <1>8, <1>9, <1>10
<1>12. ASSUME NEW i \in 1..k PROVE mask[i] = (f[i] = "A")
  <2>1. f[i] = ids[n + i] /\ n + i \in 1..Len(ids)
    BY <1>9, <1>10
  <2>2. ids[n + i] = c.ids[n + i]
    BY <1>6, <2>1
  <2>3. i \in 1..l
    BY <1>3, <1>5
  <2> QED BY <1>3, <1>7, <1>8, <2>1, <2>2, <2>3
<1>13. mask[k]
  <2>1. k \in 1..k
    BY <1>5
  <2> QED BY <1>7, <1>8, <2>1 DEF k, l, R
<1>14. Ended(c) \in Looped
  BY <1>4, <1>6, <1>7 DEF Looped
<1>15. /\ Ended(c).ids = ids /\ Ended(c).mask = mask /\ Ended(c).prompt = n
  BY <1>4
<1>16. k \in 1..ResponseLength
  BY <1>5 DEF R
<1>17. From(Ended(c).ids, Ended(c).prompt + 1) = f
  BY <1>15 DEF f
<1> HIDE DEF Ended
<1> QED BY <1>8, <1>10, <1>11, <1>12, <1>13, <1>14, <1>15, <1>16, <1>17 DEF EndsAs

\* More tokens, all of the model or none of it.
Alike(new, loss) == \A i \in 1..Len(new) : loss = (new[i] = "A")
Extended(c, new, loss, d) ==
  d = [c EXCEPT !.ids = @ \o new, !.mask = @ \o Repeated(loss, Len(new))]

LEMMA MaskedMore ==
  ASSUME NEW n \in Nat, NEW c, Masked(c, n), NEW new \in Seq(Kinds), NEW loss \in BOOLEAN,
         Alike(new, loss), NEW d, Extended(c, new, loss, d)
  PROVE  /\ Masked(d, n) /\ Len(d.mask) = Len(c.mask) + Len(new)
         /\ \A i \in 1..Len(d.mask) : d.mask[i] = IF i <= Len(c.mask) THEN c.mask[i] ELSE loss
<1> DEFINE k == Len(new)
           l == Len(c.mask)
           more == Repeated(loss, k)
           ids == c.ids \o new
           mask == c.mask \o more
<1>1. c.ids \in Seq(Kinds) /\ c.mask \in Seq(BOOLEAN) /\ c.prompt = n /\ c \in Looped
  BY DEF Masked, Looped
<1>2. k \in Nat /\ l \in Nat /\ Len(c.ids) = n + l
  BY <1>1 DEF Masked
<1>3. d.ids = ids /\ d.mask = mask /\ d.prompt = n /\ d = [c EXCEPT !.ids = ids, !.mask = mask]
  BY <1>1 DEF Looped, Extended
<1>4. more \in Seq(BOOLEAN) /\ Len(more) = k /\ \A i \in 1..k : more[i] = loss
  BY <1>2, RepeatedIs
<1> HIDE DEF more
<1>5. /\ ids \in Seq(Kinds) /\ Len(ids) = Len(c.ids) + Len(new)
      /\ \A i \in 1..Len(c.ids) + Len(new) : ids[i] = IF i <= Len(c.ids) THEN c.ids[i] ELSE new[i - Len(c.ids)]
  BY ONLY <1>1, ConcatProperties, new \in Seq(Kinds)
<1>6. /\ mask \in Seq(BOOLEAN) /\ Len(mask) = Len(c.mask) + Len(more)
      /\ \A i \in 1..Len(c.mask) + Len(more) : mask[i] = IF i <= Len(c.mask) THEN c.mask[i] ELSE more[i - Len(c.mask)]
  <2>1. IsJoined(BOOLEAN, c.mask, more)
    BY <1>1, <1>4, JoinedHolds
  <2> QED BY <2>1 DEF IsJoined
<1> HIDE DEF ids, mask
<1>7. Len(ids) = n + l + k /\ Len(mask) = l + k
  BY <1>2, <1>4, <1>5, <1>6 DEF k, l
<1>8. \A i \in 1..l + k : mask[i] = IF i <= l THEN c.mask[i] ELSE loss
  <2>1. \A i \in 1..l + k : mask[i] = IF i <= l THEN c.mask[i] ELSE more[i - l]
    BY <1>4, <1>6 DEF l
  <2>2. \A i \in 1..l + k : ~(i <= l) => i - l \in 1..k
    BY <1>2
  <2> QED BY <1>4, <2>1, <2>2
<1>9. ASSUME NEW i \in 1..l + k PROVE mask[i] = (ids[n + i] = "A")
  <2>1. /\ n + i \in 1..n + l + k /\ (n + i <= n + l <=> i <= l) /\ (n + i) - (n + l) = i - l
    BY <1>2
  <2>2. ids[n + i] = IF i <= l THEN c.ids[n + i] ELSE new[i - l]
    BY <1>2, <1>5, <1>7, <2>1
  <2>3. CASE i <= l
    <3>1. i \in 1..l
      BY <1>2, <2>3
    <3> QED BY <1>8, <2>2, <2>3, <3>1 DEF Masked, l
  <2>4. CASE ~(i <= l)
    <3>1. i - l \in 1..k
      BY <1>2, <2>4
    <3> QED BY <1>8, <2>2, <2>4, <3>1 DEF k, Alike
  <2> QED BY <2>3, <2>4
<1>10. d \in Looped
  BY <1>1, <1>3, <1>5, <1>6 DEF Looped
<1>11. Masked(d, n)
  <2>1. Len(d.ids) = n + Len(d.mask)
    BY <1>2, <1>3, <1>7
  <2> QED BY <1>3, <1>7, <1>9, <1>10, <2>1 DEF Masked
<1> QED BY <1>3, <1>7, <1>8, <1>11 DEF k, l

LEMMA LoopsBegun ==
  ASSUME NEW n \in Nat \ {0}, NEW c, NEW a, NEW u, NEW w, LoopsAs(n, "pending", c, a, u, w)
  PROVE  LoopsAs(n, "generating", [ids |-> c.ids, mask |-> <<>>, prompt |-> c.prompt], a, u, w)
<1> DEFINE d == [ids |-> c.ids, mask |-> <<>>, prompt |-> c.prompt]
<1>1. c = NewRequest(n) /\ a \in 0..MaxAssistantTurns /\ a < MaxAssistantTurns /\ u \in 0..MaxUserTurns
  BY DEF LoopsAs
<1>2. c \in Spoken /\ c.prompt = n + 1 /\ Len(c.ids) = n + 1
  <2>1. c \in Spoken /\ c.prompt = n + 1
    BY <1>1, NewWhole
  <2>2. c.ids = Append(Repeated("P", n), "G")
    BY <1>1 DEF NewRequest
  <2>3. Repeated("P", n) \in Seq(Kinds) /\ Len(Repeated("P", n)) = n
    BY RepeatedIs DEF Kinds
  <2> QED BY <2>1, <2>2, <2>3
<1>3. c.ids \in Seq(Kinds) /\ c.prompt \in Nat
  BY <1>2 DEF Spoken
<1>4. d \in Looped /\ Len(d.mask) = 0
  BY <1>3 DEF Looped
<1>5. Masked(d, n + 1)
  <2>1. Len(d.ids) = n + 1 + Len(d.mask)
    BY <1>2, <1>4
  <2> QED BY <1>2, <1>4, <2>1 DEF Masked
<1>6. Len(d.mask) < ResponseLength
  BY <1>4, RowAssumption
<1> HIDE DEF d
<1> QED BY <1>1, <1>4, <1>5, <1>6 DEF d, LoopsAs

\* An answer of k tokens.
Grown(c, k) == [c EXCEPT !.ids = @ \o Repeated("A", k), !.mask = @ \o Repeated(TRUE, k)]

LEMMA LoopsAnswered ==
  ASSUME NEW n \in Nat, NEW c, NEW a, NEW u, NEW w, LoopsAs(n, "generating", c, a, u, w),
         NEW k \in Nat \ {0}, NEW v
  PROVE  LET d == Grown(c, k)
         IN  /\ LoopsAs(n, "completed", Ended(d), a + 1, u, w)
             /\ \A p \in {"tool_calling", "bad_call"} :
                  /\ Len(d.mask) < ResponseLength /\ a + 1 < MaxAssistantTurns /\ u < MaxUserTurns
                  /\ p = "tool_calling" => v # {}
                  => LoopsAs(n, p, d, a + 1, u, v)
<1> DEFINE d == Grown(c, k)
           new == Repeated("A", k)
<1>1. /\ Masked(c, n + 1) /\ Len(c.mask) < ResponseLength /\ c \in Looped
      /\ a \in 0..MaxAssistantTurns /\ a < MaxAssistantTurns /\ u \in 0..MaxUserTurns
  BY DEF LoopsAs
<1>2. new \in Seq(Kinds) /\ Len(new) = k /\ \A i \in 1..k : new[i] = "A"
  BY RepeatedIs DEF Kinds
<1>3. Extended(c, new, TRUE, d)
  BY <1>2 DEF Grown, Extended
<1>4. n + 1 \in Nat /\ TRUE \in BOOLEAN /\ Alike(new, TRUE)
  BY <1>2 DEF Alike
<1> HIDE DEF d, new
<1>5. /\ Masked(d, n + 1) /\ Len(d.mask) = Len(c.mask) + k
      /\ \A i \in 1..Len(d.mask) : d.mask[i] = IF i <= Len(c.mask) THEN c.mask[i] ELSE TRUE
  <2>1. /\ Masked(d, n + 1) /\ Len(d.mask) = Len(c.mask) + Len(new)
        /\ \A i \in 1..Len(d.mask) : d.mask[i] = IF i <= Len(c.mask) THEN c.mask[i] ELSE TRUE
    BY ONLY <1>1, <1>2, <1>3, <1>4, MaskedMore, Zenon
  <2> QED BY <1>2, <2>1
<1>6. c.mask \in Seq(BOOLEAN) /\ Len(c.mask) \in Nat
  <2>1. c.mask \in Seq(BOOLEAN)
    BY <1>1 DEF Looped
  <2> QED BY <2>1
<1>7. ResponseLength \in Nat /\ ResponseLength >= 1
  BY RowAssumption
<1>8. Len(d.mask) >= 1 /\ d.mask[Len(d.mask)]
  <2>1. Len(d.mask) \in 1..Len(d.mask) /\ ~(Len(d.mask) <= Len(c.mask)) /\ Len(d.mask) >= 1
    BY <1>5, <1>6
  <2> QED BY <1>5, <2>1
<1>9. d.mask[IF ResponseLength < Len(d.mask) THEN ResponseLength ELSE Len(d.mask)]
  <2>1. CASE ResponseLength < Len(d.mask)
    <3>1. ResponseLength \in 1..Len(d.mask) /\ ~(ResponseLength <= Len(c.mask))
      BY <1>1, <1>5, <1>6, <1>7, <2>1
    <3> QED BY <1>5, <2>1, <3>1
  <2> QED BY <1>8, <2>1
<1>10. Ended(d) \in Looped /\ EndsAs(Ended(d))
  BY <1>4, <1>5, <1>8, <1>9, EndedEnds
<1>11. a + 1 \in 0..MaxAssistantTurns
  BY <1>1, Turns
<1>12. LoopsAs(n, "completed", Ended(d), a + 1, u, w)
  BY <1>1, <1>10, <1>11 DEF LoopsAs
<1>13. d \in Looped
  BY <1>5 DEF Masked
<1>14. ASSUME NEW p \in {"tool_calling", "bad_call"}, Len(d.mask) < ResponseLength,
              a + 1 < MaxAssistantTurns, u < MaxUserTurns, p = "tool_calling" => v # {}
       PROVE  LoopsAs(n, p, d, a + 1, u, v)
  BY <1>1, <1>5, <1>8, <1>11, <1>13, <1>14 DEF LoopsAs, EndsWithAnswer
<1> QED BY <1>12, <1>14 DEF d

\* The responses of the tools, with a generation prompt, if room is left for an answer.
LEMMA LoopsGathered ==
  ASSUME NEW n \in Nat, NEW p \in {"tool_calling", "bad_call"}, NEW c, NEW a, NEW u, NEW w \in SUBSET Tools,
         LoopsAs(n, p, c, a, u, w), NEW k \in Nat \ {0}
  PROVE  LET d == [c EXCEPT !.ids = @ \o Repeated("T", k - 1) \o <<"G">>,
                            !.mask = @ \o Repeated(FALSE, k)]
         IN  /\ RoomForAnswer(c.mask, k) => LoopsAs(n, "generating", d, a, u + 1, {})
             /\ LoopsAs(n, "completed", Ended(c), a, u, {})
             /\ LoopsAs(n, "raised", c, a, u, w)
<1> DEFINE d == [c EXCEPT !.ids = @ \o Repeated("T", k - 1) \o <<"G">>,
                          !.mask = @ \o Repeated(FALSE, k)]
           ts == Repeated("T", k - 1)
           new == ts \o <<"G">>
<1>1. /\ Masked(c, n + 1) /\ Len(c.mask) < ResponseLength /\ c \in Looped /\ EndsWithAnswer(c)
      /\ a \in 0..MaxAssistantTurns /\ a < MaxAssistantTurns
      /\ u \in 0..MaxUserTurns /\ u < MaxUserTurns
  BY DEF LoopsAs
<1>2. c.ids \in Seq(Kinds) /\ c.mask \in Seq(BOOLEAN)
  BY <1>1 DEF Looped
<1>3. ts \in Seq(Kinds) /\ Len(ts) = k - 1 /\ \A i \in 1..k - 1 : ts[i] = "T"
  <2>1. k - 1 \in Nat
    OBVIOUS
  <2> QED BY <2>1, RepeatedIs DEF Kinds
<1> HIDE DEF ts
<1>4. /\ new \in Seq(Kinds) /\ Len(new) = k /\ \A i \in 1..k : new[i] # "A"
      /\ (c.ids \o ts) \o <<"G">> = c.ids \o new
  <2>1. "G" \in Kinds
    BY DEF Kinds
  <2>2. /\ new \in Seq(Kinds) /\ Len(new) = k
        /\ \A i \in 1..k : new[i] = IF i <= k - 1 THEN ts[i] ELSE "G"
    BY <1>3, <2>1
  <2>3. \A i \in 1..k : i <= k - 1 => i \in 1..k - 1
    OBVIOUS
  <2>4. (c.ids \o ts) \o <<"G">> = c.ids \o new
    <3> DEFINE s == c.ids
    <3>1. s \in Seq(Kinds) /\ ts \in Seq(Kinds) /\ <<"G">> \in Seq(Kinds)
      BY <1>2, <1>3, <2>1
    <3> HIDE DEF s
    <3>2. (s \o ts) \o <<"G">> = s \o (ts \o <<"G">>)
      BY ONLY <3>1, ConcatAssociative
    <3> QED BY <3>2 DEF s
  <2> QED BY <1>3, <2>2, <2>3, <2>4
<1> HIDE DEF new
<1>5. Extended(c, new, FALSE, d)
  BY <1>1, <1>4 DEF Looped, ts, Extended
<1>6. n + 1 \in Nat /\ FALSE \in BOOLEAN /\ Alike(new, FALSE)
  BY <1>4 DEF Alike
<1> HIDE DEF d
<1>7. Masked(d, n + 1) /\ Len(d.mask) = Len(c.mask) + k
  <2>1. /\ Masked(d, n + 1) /\ Len(d.mask) = Len(c.mask) + Len(new)
        /\ \A i \in 1..Len(d.mask) : d.mask[i] = IF i <= Len(c.mask) THEN c.mask[i] ELSE FALSE
    BY ONLY <1>1, <1>4, <1>5, <1>6, MaskedMore, Zenon
  <2> QED BY <1>4, <2>1
<1>8. d \in Looped
  BY <1>7 DEF Masked
<1>9. u + 1 \in 0..MaxUserTurns
  BY <1>1, Turns
<1>10. RoomForAnswer(c.mask, k) => LoopsAs(n, "generating", d, a, u + 1, {})
  BY <1>1, <1>7, <1>8, <1>9 DEF LoopsAs, RoomForAnswer
<1>11. Ended(c) \in Looped /\ EndsAs(Ended(c))
  <2>1. Len(c.mask) \in Nat /\ Len(c.mask) >= 1 /\ c.mask[Len(c.mask)]
    BY <1>1, <1>2 DEF EndsWithAnswer
  <2>2. ~(ResponseLength < Len(c.mask))
    BY <1>1, <2>1, Turns
  <2> QED BY <1>1, <1>6, <2>1, <2>2, EndedEnds
<1>12. LoopsAs(n, "completed", Ended(c), a, u, {})
  BY <1>1, <1>11 DEF LoopsAs
<1>13. LoopsAs(n, "raised", c, a, u, w)
  BY <1>1 DEF LoopsAs
<1> QED BY <1>10, <1>12, <1>13 DEF d

\* Every conversation, with its kind and its row's counts.
Talk(r) ==
  IF Synchronous THEN SpeaksAs(phase[r], conv[r], assistant[r], user[r], wants[r])
  ELSE LoopsAs(PromptLen[r], phase[r], conv[r], assistant[r], user[r], wants[r])

Talking ==
  /\ conv \in [Requests -> Spoken \union Looped] /\ user \in [Requests -> Nat]
  /\ broken \subseteq Owners
  /\ \A r \in Requests : Talk(r)

\* Row r goes on to phase p, with tokens d, and so on.
Becomes(r, p, d, a, u, w) ==
  /\ phase' = [phase EXCEPT ![r] = p] /\ conv' = [conv EXCEPT ![r] = d]
  /\ assistant' = [assistant EXCEPT ![r] = a] /\ user' = [user EXCEPT ![r] = u]
  /\ wants' = [wants EXCEPT ![r] = w]
  /\ broken' \in {broken, broken \union {owner[r]}}

\* What is at hand of a row.
AtRow(r) == StepInvariant /\ Talking /\ config' = config /\ r \in Requests

LEMMA RowFacts ==
  ASSUME NEW r, AtRow(r)
  PROVE  /\ r \in Requests /\ owner[r] \in Owners /\ Talk(r)
         /\ phase \in [Requests -> Phases] /\ conv \in [Requests -> Spoken \union Looped]
         /\ assistant \in [Requests -> Nat] /\ user \in [Requests -> Nat]
         /\ wants \in [Requests -> SUBSET Tools]
         /\ PromptLen[r] \in Nat \ {0}
         /\ Synchronous' = Synchronous
BY RowAssumption, ToolAssumption
   DEF AtRow, Talking, StepInvariant, ToolInv, ToolTypeOK, RowTypeOK, Synchronous

LEMMA Unchanging ==
  ASSUME NEW S, NEW f \in [Requests -> S], NEW r \in Requests PROVE f = [f EXCEPT ![r] = f[r]]
OBVIOUS

LEMMA TalkingOn ==
  ASSUME NEW r, AtRow(r), NEW p, NEW d, NEW a, NEW u, NEW w, Becomes(r, p, d, a, u, w),
         IF Synchronous THEN SpeaksAs(p, d, a, u, w)
         ELSE p # "pending" /\ LoopsAs(PromptLen[r], p, d, a, u, w)
  PROVE  Talking'
<1> USE RowFacts
<1>1. d \in Spoken \union Looped /\ u \in Nat
  <2>1. MaxUserTurns \in Nat
    BY Turns
  <2> QED BY <2>1 DEF SpeaksAs, LoopsAs
<1>2. conv' \in [Requests -> Spoken \union Looped] /\ user' \in [Requests -> Nat]
  BY <1>1 DEF Becomes
<1>3. broken' \subseteq Owners
  BY DEF Becomes, AtRow, Talking
<1>4. ASSUME NEW q \in Requests PROVE Talk(q)'
  <2>1. Talk(q)
    BY DEF AtRow, Talking
  <2>2. CASE q # r
    BY <2>1, <2>2 DEF Becomes, Talk
  <2>3. CASE q = r
    BY <2>3 DEF Becomes, Talk
  <2> QED BY <2>2, <2>3
<1> QED BY <1>2, <1>3, <1>4 DEF Talking

\* The rows of the SGLang rollout.
Speaking(r) == AtRow(r) /\ Synchronous

LEMMA SpeakingFacts ==
  ASSUME NEW r, Speaking(r)
  PROVE  SpeaksAs(phase[r], conv[r], assistant[r], user[r], wants[r])
BY RowFacts DEF Speaking, Talk

LEMMA SpeakingOn ==
  ASSUME NEW r, Speaking(r), NEW p, NEW d, NEW a, NEW u, NEW w, Becomes(r, p, d, a, u, w),
         SpeaksAs(p, d, a, u, w)
  PROVE  Talking'
BY TalkingOn DEF Speaking

LEMMA HandlePendingTalks ==
  ASSUME NEW r, Speaking(r), HandlePending(r) PROVE Talking'
<1> DEFINE c == conv[r]  a == assistant[r]  u == user[r]  w == wants[r]
<1>1. SpeaksAs("pending", c, a, u, w)
  BY SpeakingFacts DEF HandlePending, Running
<1>2. SpeaksAs("running", c, a, u, w)
  BY <1>1 DEF SpeaksAs
<1>3. Becomes(r, "running", c, a, u, w)
  BY RowFacts, Unchanging DEF HandlePending, Goto, Becomes, Speaking
<1> HIDE DEF c, a, u, w
<1> QED BY <1>2, <1>3, SpeakingOn

LEMMA AskEngineTalks ==
  ASSUME NEW r, Speaking(r), AskEngine(r) PROVE Talking'
<1> DEFINE c == conv[r]  a == assistant[r]  u == user[r]  w == wants[r]
           d == ForGeneration(c)
           p == IF HasRoom(d.ids) THEN "generating" ELSE "scoring"
<1>1. SpeaksAs("running", c, a, u, w)
  BY SpeakingFacts DEF AskEngine, Running
<1>2. SpeaksAs(p, d, a, u, w)
  BY <1>1, SpeaksAsked
<1>3. Becomes(r, p, d, a, u, w)
  BY RowFacts, Unchanging DEF AskEngine, Goto, Leave, Becomes, Speaking
<1> HIDE DEF c, a, u, w, d, p
<1> QED BY <1>2, <1>3, SpeakingOn

\* An answer of n tokens.
LEMMA AnsweredTalks ==
  ASSUME NEW r, Speaking(r), NEW n \in Nat \ {0}, Answered(r, n), NEW v,
         NEW p \in {"scoring", "tool_calling", "interacting", "raised"},
         phase' = [phase EXCEPT ![r] = p], wants' = [wants EXCEPT ![r] = v],
         broken' \in {broken, broken \union {owner[r]}},
         p \in {"tool_calling", "interacting"} => assistant[r] + 1 < MaxAssistantTurns,
         p = "interacting" => user[r] < MaxUserTurns, p = "tool_calling" => v # {}
  PROVE  Talking'
<1> DEFINE c == conv[r]  a == assistant[r]  u == user[r]  w == wants[r]
           d == AddAssistant(c, n)
           b == a + 1
<1>1. SpeaksAs("generating", c, a, u, w)
  BY SpeakingFacts DEF Answered, Running
<1>2. SpeaksAs(p, d, b, u, v)
  BY <1>1, SpeaksAnswered
<1>3. Becomes(r, p, d, b, u, v)
  BY RowFacts, Unchanging DEF Answered, Becomes, Speaking
<1> HIDE DEF c, a, u, w, d, b
<1> QED BY <1>2, <1>3, SpeakingOn

LEMMA RoomIsSome ==
  ASSUME NEW r, Speaking(r), phase[r] = "generating"
  PROVE  Room(r) + 1 \in Nat \ {0}
<1>1. conv[r] \in Spoken /\ HasRoom(conv[r].ids)
  BY SpeakingFacts DEF SpeaksAs
<1>2. conv[r].ids \in Seq(Kinds)
  BY <1>1 DEF Spoken
<1>3. Len(conv[r].ids) \in Nat
  BY <1>2
<1> QED BY <1>1, <1>3, Turns DEF HasRoom, Room

LEMMA AnswersTalk ==
  ASSUME NEW r, Speaking(r),
         \/ AnswerCut(r)
         \/ \E n \in Stops(r) : \/ AnswerMalformed(r, n) \/ AnswerPlain(r, n)
                                \/ \E ts \in (SUBSET Tools) \ {{}} : AnswerWithCalls(r, n, ts)
  PROVE  Talking'
<1>1. \A n \in Stops(r) : n \in Nat \ {0}
  BY Turns DEF Stops
<1>2. wants = [wants EXCEPT ![r] = wants[r]]
  BY RowFacts, Unchanging DEF Speaking
<1>3. CASE AnswerCut(r)
  <2>1. Room(r) + 1 \in Nat \ {0}
    BY <1>3, RoomIsSome DEF AnswerCut, Answered, Running
  <2> DEFINE k == Room(r) + 1
  <2>2. Answered(r, k) /\ UNCHANGED <<wants, broken>> /\ phase' = [phase EXCEPT ![r] = "scoring"]
    BY <1>3 DEF AnswerCut, Leave
  <2> HIDE DEF k
  <2>3. k \in Nat \ {0}
    BY <2>1 DEF k
  <2> QED BY <1>2, <2>2, <2>3, AnsweredTalks
<1>4. ASSUME NEW n \in Stops(r), AnswerMalformed(r, n) PROVE Talking'
  <2>1. Answered(r, n) /\ UNCHANGED <<wants, broken>> /\ phase' = [phase EXCEPT ![r] = "scoring"]
    BY <1>4 DEF AnswerMalformed, Leave
  <2> QED BY <1>1, <1>2, <2>1, AnsweredTalks
<1>5. ASSUME NEW n \in Stops(r), AnswerPlain(r, n) PROVE Talking'
  <2> DEFINE p == IF UserTurn(r) THEN "interacting" ELSE "scoring"
  <2>1. Answered(r, n) /\ UNCHANGED <<wants, broken>> /\ phase' = [phase EXCEPT ![r] = p]
    BY <1>5 DEF AnswerPlain, Leave, Goto
  <2>2. p = "interacting" => user[r] < MaxUserTurns /\ assistant[r] + 1 < MaxAssistantTurns
    BY DEF UserTurn
  <2>3. p \in {"scoring", "interacting"}
    OBVIOUS
  <2> HIDE DEF p
  <2> QED BY <1>1, <1>2, <2>1, <2>2, <2>3, AnsweredTalks
<1>6. ASSUME NEW n \in Stops(r), NEW ts \in (SUBSET Tools) \ {{}}, AnswerWithCalls(r, n, ts)
      PROVE  Talking'
  <2> DEFINE again == assistant[r] + 1 < MaxAssistantTurns
             given == ts \subseteq RowTools[r]
             p == IF ~again THEN "scoring" ELSE IF given THEN "tool_calling" ELSE "raised"
  <2>1. /\ Answered(r, n) /\ wants' = [wants EXCEPT ![r] = ts]
        /\ phase' = [phase EXCEPT ![r] = p]
        /\ broken' \in {broken, broken \union {owner[r]}}
    BY <1>6 DEF AnswerWithCalls, Leave, Goto
  <2>2. p = "tool_calling" => assistant[r] + 1 < MaxAssistantTurns
    OBVIOUS
  <2>3. p \in {"scoring", "tool_calling", "raised"}
    OBVIOUS
  <2> HIDE DEF p, again, given
  <2> QED BY <1>1, <2>1, <2>2, <2>3, AnsweredTalks
<1> QED BY <1>3, <1>4, <1>5, <1>6

LEMMA ToolsAnsweredTalks ==
  ASSUME NEW r, Speaking(r), ToolsAnswered(r) PROVE Talking'
<1> DEFINE c == conv[r]  a == assistant[r]  u == user[r]  w == wants[r]
           d == AddToolResponses(c, ToolLen[w])
<1>1. SpeaksAs("tool_calling", c, a, u, w) /\ w \in SUBSET Tools
  BY SpeakingFacts, RowFacts DEF ToolsAnswered, Running, Speaking
<1>2. SpeaksAs("running", d, a, u, {}) /\ SpeaksAs("raised", c, a, u, w)
  BY <1>1, SpeaksOfTools
<1>3. Becomes(r, "running", d, a, u, {}) \/ Becomes(r, "raised", c, a, u, w)
  BY RowFacts, Unchanging DEF ToolsAnswered, Goto, Becomes, Speaking
<1> HIDE DEF c, a, u, w, d
<1> QED BY <1>2, <1>3, SpeakingOn

LEMMA InteractTalks ==
  ASSUME NEW r, Speaking(r), Interact(r) PROVE Talking'
<1> DEFINE c == conv[r]  a == assistant[r]  u == user[r]  w == wants[r]
           d == AddUser(c, 1)
           v == u + 1
<1>1. SpeaksAs("interacting", c, a, u, w)
  BY SpeakingFacts DEF Interact, Running
<1>2. SpeaksAs("running", d, a, v, w) /\ SpeaksAs("scoring", c, a, v, w)
  BY <1>1, SpeaksWithUser
<1>3. Becomes(r, "running", d, a, v, w) \/ Becomes(r, "scoring", c, a, v, w)
  BY RowFacts, Unchanging DEF Interact, Goto, Leave, Becomes, Speaking
<1> HIDE DEF c, a, u, w, d, v
<1> QED BY <1>2, <1>3, SpeakingOn

LEMMA ScoreTalks ==
  ASSUME NEW r, Speaking(r), Score(r) PROVE Talking'
<1> DEFINE c == conv[r]  a == assistant[r]  u == user[r]  w == wants[r]
           d == Finalized(c, RequestModelLen)
<1>1. SpeaksAs("scoring", c, a, u, w)
  BY SpeakingFacts DEF Score, Running
<1>2. SpeaksAs("completed", d, a, u, w) /\ SpeaksAs("raised", c, a, u, w)
  BY <1>1, SpeaksToTheEnd
<1>3. Becomes(r, "completed", d, a, u, w) \/ Becomes(r, "raised", c, a, u, w)
  BY RowFacts, Unchanging DEF Score, Goto, Becomes, Speaking
<1> HIDE DEF c, a, u, w, d
<1> QED BY <1>2, <1>3, SpeakingOn

LEMMA RolloutTalks ==
  ASSUME NEW r, Speaking(r), HandlePending(r) \/ RolloutRow(r) PROVE Talking'
BY HandlePendingTalks, AskEngineTalks, AnswersTalk, ToolsAnsweredTalks, InteractTalks, ScoreTalks
   DEF RolloutRow

\* The rows of the agent loops.
Looping(r) == AtRow(r) /\ ~Synchronous

LEMMA LoopingFacts ==
  ASSUME NEW r, Looping(r)
  PROVE  LoopsAs(PromptLen[r], phase[r], conv[r], assistant[r], user[r], wants[r])
BY RowFacts DEF Looping, Talk

LEMMA LoopingOn ==
  ASSUME NEW r, Looping(r), NEW p, NEW d, NEW a, NEW u, NEW w, Becomes(r, p, d, a, u, w),
         p # "pending", LoopsAs(PromptLen[r], p, d, a, u, w)
  PROVE  Talking'
BY TalkingOn DEF Looping

LEMMA BeginTalks ==
  ASSUME NEW r, Looping(r), Begin(r) PROVE Talking'
<1> DEFINE n == PromptLen[r]
           c == conv[r]  a == assistant[r]  u == user[r]  w == wants[r]
           d == [ids |-> c.ids, mask |-> <<>>, prompt |-> c.prompt]
<1>1. LoopsAs(n, "pending", c, a, u, w) /\ n \in Nat \ {0}
  BY LoopingFacts, RowFacts DEF Begin, Looping
<1>2. LoopsAs(n, "generating", d, a, u, w)
  BY <1>1, LoopsBegun
<1>3. Becomes(r, "generating", d, a, u, w)
  BY RowFacts, Unchanging DEF Begin, Becomes, Looping
<1> HIDE DEF c, a, u, w, d
<1> QED BY <1>2, <1>3, LoopingOn

LEMMA AnswersAreSome ==
  ASSUME NEW r, Looping(r), phase[r] = "generating", NEW k \in ServerAnswers(r)
  PROVE  k \in Nat \ {0}
<1> DEFINE n == PromptLen[r]  c == conv[r]
<1>1. Masked(c, n + 1) /\ Len(c.mask) < ResponseLength /\ c \in Looped
  BY LoopingFacts DEF LoopsAs
<1>2. c.mask \in Seq(BOOLEAN) /\ Len(c.ids) = n + 1 + Len(c.mask)
  BY <1>1 DEF Masked, Looped
<1>3. Len(c.mask) \in Nat
  BY <1>2
<1>4. n \in 1..PromptLength - 1 /\ PromptLength \in Nat
  BY RowFacts, RowAssumption DEF Looping
<1>5. MaxModelLen >= PromptLength + ResponseLength
  BY RowAssumption
<1>6. MaxModelLen - Len(c.ids) \in Nat \ {0}
  <2> DEFINE l == Len(c.mask)  j == Len(c.ids)
  <2>1. l \in Nat /\ j = n + 1 + l /\ l < ResponseLength
    BY <1>1, <1>2, <1>3
  <2> HIDE DEF l, j, n
  <2>2. MaxModelLen - j \in Nat \ {0}
    BY <1>4, <1>5, <2>1, Turns
  <2> QED BY <2>2 DEF j
<1> QED BY <1>6, Turns DEF ServerAnswers

LEMMA ReplyTalks ==
  ASSUME NEW r, Looping(r), NEW k \in ServerAnswers(r), NEW ts \in SUBSET Tools,
         NEW malformed \in BOOLEAN, Reply(r, k, ts, malformed)
  PROVE  Talking'
<1> DEFINE n == PromptLen[r]
           c == conv[r]  a == assistant[r]  u == user[r]  w == wants[r]
           d == Grown(c, k)
           b == a + 1
           over == \/ Len(d.mask) >= ResponseLength
                   \/ a + 1 >= MaxAssistantTurns
                   \/ u >= MaxUserTurns
                   \/ ts = {} /\ ~malformed
           p == IF malformed THEN "bad_call" ELSE "tool_calling"
<1>1. phase[r] = "generating"
  BY DEF Reply
<1>2. LoopsAs(n, "generating", c, a, u, w) /\ n \in Nat
  BY <1>1, LoopingFacts, RowFacts DEF Looping
<1>3. k \in Nat \ {0}
  BY <1>1, AnswersAreSome
<1>4. /\ LoopsAs(n, "completed", Ended(d), b, u, w)
      /\ \A q \in {"tool_calling", "bad_call"} :
           /\ Len(d.mask) < ResponseLength /\ a + 1 < MaxAssistantTurns /\ u < MaxUserTurns
           /\ q = "tool_calling" => ts # {}
           => LoopsAs(n, q, d, b, u, ts)
  BY <1>2, <1>3, LoopsAnswered
<1>5. /\ over => Becomes(r, "completed", Ended(d), b, u, w)
      /\ ~over => Becomes(r, p, d, b, u, ts)
  <2>1. /\ assistant' = [assistant EXCEPT ![r] = b] /\ UNCHANGED <<user, broken>>
        /\ over => /\ phase' = [phase EXCEPT ![r] = "completed"]
                   /\ conv' = [conv EXCEPT ![r] = Ended(d)] /\ UNCHANGED wants
        /\ ~over => /\ phase' = [phase EXCEPT ![r] = p] /\ conv' = [conv EXCEPT ![r] = d]
                    /\ wants' = [wants EXCEPT ![r] = ts]
    <3>1. assistant[r] \in Nat
      BY RowFacts DEF Looping
    <3> QED BY <3>1 DEF Reply, Grown
  <2> HIDE DEF over, d, b, p
  <2> QED BY <2>1, RowFacts, Unchanging DEF Becomes, Looping
<1>6. ~over => LoopsAs(n, p, d, b, u, ts)
  <2>1. c.mask \in Seq(BOOLEAN) /\ a \in Nat /\ u \in Nat
    BY <1>2, RowFacts DEF LoopsAs, Looped, Looping
  <2>2. Len(d.mask) = Len(c.mask) + k
    <3> DEFINE s == c.mask  more == Repeated(TRUE, k)
    <3>1. more \in Seq(BOOLEAN) /\ Len(more) = k
      BY <1>3 DEF Repeated
    <3>2. d.mask = s \o more
      BY <1>2 DEF LoopsAs, Looped, Grown
    <3> HIDE DEF s, more, d
    <3>3. s \in Seq(BOOLEAN)
      BY <2>1 DEF s
    <3>4. Len(s \o more) = Len(s) + Len(more)
      BY ONLY <3>1, <3>3, ConcatProperties
    <3> QED BY <3>1, <3>2, <3>4 DEF s
  <2>3. Len(d.mask) \in Nat
    BY <1>3, <2>1, <2>2
  <2> HIDE DEF d
  <2> QED BY <1>4, <2>1, <2>3, Turns
<1> HIDE DEF c, a, u, w, d, b, over
<1>7. p \in {"tool_calling", "bad_call"}
  OBVIOUS
<1> HIDE DEF p
<1> QED BY <1>4, <1>5, <1>6, <1>7, LoopingOn

LEMMA CallReturnsTalks ==
  ASSUME NEW r, Looping(r), NEW t \in Tools, CallReturns(<<r, t>>) PROVE Talking'
<1> DEFINE n == PromptLen[r]
           c == conv[r]  a == assistant[r]  u == user[r]  w == wants[r]
<1>1. LoopsAs(n, phase[r], c, a, u, w) /\ phase[r] \in {"tool_calling", "bad_call", "raised"}
  BY LoopingFacts DEF CallReturns
<1>2. LoopsAs(n, "raised", c, a, u, w)
  BY <1>1 DEF LoopsAs
<1>3. Becomes(r, "raised", c, a, u, w) \/ Becomes(r, phase[r], c, a, u, w)
  BY RowFacts, Unchanging DEF CallReturns, Becomes, Looping
<1> HIDE DEF c, a, u, w
<1> QED BY <1>1, <1>2, <1>3, LoopingOn

LEMMA ToolsGatheredTalks ==
  ASSUME NEW r, Looping(r), ToolsGathered(r) PROVE Talking'
<1> DEFINE n == PromptLen[r]
           c == conv[r]  a == assistant[r]  u == user[r]  w == wants[r]
           k == ToolLen[w] + 1
           d == [c EXCEPT !.ids = @ \o Repeated("T", k - 1) \o <<"G">>,
                          !.mask = @ \o Repeated(FALSE, k)]
           v == u + 1
<1>1. /\ LoopsAs(n, phase[r], c, a, u, w) /\ n \in Nat /\ w \in SUBSET Tools
      /\ phase[r] \in {"tool_calling", "bad_call"}
  BY LoopingFacts, RowFacts DEF ToolsGathered, Looping
<1>2. \A j \in Nat \ {0} : LoopsAs(n, "completed", Ended(c), a, u, {})
  BY <1>1, LoopsGathered
<1>3. LoopsAs(n, "completed", Ended(c), a, u, {})
  <2>1. 1 \in Nat \ {0}
    OBVIOUS
  <2> QED BY <1>2, <2>1
<1>4. phase[r] = "tool_calling" => k \in Nat \ {0}
  <2>1. phase[r] = "tool_calling" => w # {}
    BY <1>1 DEF LoopsAs
  <2>2. phase[r] = "tool_calling" => ToolLen[w] \in Nat \ {0}
    BY <1>1, <2>1, RowAssumption
  <2> QED BY <2>2
<1>5. phase[r] = "tool_calling" /\ RoomForAnswer(c.mask, k) => LoopsAs(n, "generating", d, a, v, {})
  <2> HIDE DEF c, a, u, w, k
  <2> QED BY <1>1, <1>4, LoopsGathered
<1>6. \/ Becomes(r, "completed", Ended(c), a, u, {})
      \/ /\ phase[r] = "tool_calling" /\ RoomForAnswer(c.mask, k)
         /\ Becomes(r, "generating", d, a, v, {})
  <2>1. /\ wants' = [wants EXCEPT ![r] = {}] /\ UNCHANGED <<assistant, broken>>
        /\ \/ /\ phase' = [phase EXCEPT ![r] = "completed"]
              /\ conv' = [conv EXCEPT ![r] = Ended(c)] /\ UNCHANGED user
           \/ /\ phase[r] = "tool_calling" /\ RoomForAnswer(c.mask, k)
              /\ phase' = [phase EXCEPT ![r] = "generating"]
              /\ conv' = [conv EXCEPT ![r] = d] /\ user' = [user EXCEPT ![r] = v]
    <3>1. user[r] \in Nat
      BY RowFacts DEF Looping
    <3> QED BY <3>1, Zenon DEF ToolsGathered
  <2> HIDE DEF d, v, k
  <2> QED BY <2>1, RowFacts, Unchanging DEF Becomes, Looping
<1> HIDE DEF c, a, u, w, d, v, k
<1> QED BY <1>3, <1>5, <1>6, LoopingOn

LEMMA AgentTalks ==
  ASSUME NEW r, Looping(r), AgentRow(r) PROVE Talking'
BY BeginTalks, ReplyTalks, CallReturnsTalks, ToolsGatheredTalks DEF AgentRow, Replies

-----------------------------------------------------------------------------
\* The driver starts other conversations with each batch.
LEMMA NewTalks ==
  ASSUME NEW n \in Nat \ {0}, NEW w
  PROVE  /\ NewRequest(n) \in Spoken
         /\ SpeaksAs("pending", NewRequest(n), 0, 0, w)
         /\ LoopsAs(n, "pending", NewRequest(n), 0, 0, w)
<1> DEFINE c == NewRequest(n)
<1>1. MaxAssistantTurns \in Nat \ {0} /\ MaxUserTurns \in Nat
  BY RowAssumption
<1>2. c \in Spoken /\ Whole(c)
  BY NewWhole
<1> HIDE DEF c
<1>3. SpeaksAs("pending", c, 0, 0, w)
  BY <1>1, <1>2 DEF SpeaksAs
<1>4. LoopsAs(n, "pending", c, 0, 0, w)
  BY <1>1 DEF LoopsAs, c
<1> QED BY <1>2, <1>3, <1>4 DEF c

LEMMA Prompts == \A r \in Requests : PromptLen[r] \in Nat \ {0}
BY RowAssumption

LEMMA RestTalks ==
  ASSUME Talking, UNCHANGED <<rowVars, config>> PROVE Talking'
BY DEF rowVars, Talking, Talk, Synchronous

LEMMA DriverTalks ==
  ASSUME Talking, Driver PROVE Talking'
<1>1. config' = config
  BY DEF Driver, Advance
<1>2. CASE RestOfRows
  BY <1>1, <1>2, RestTalks DEF RestOfRows
<1>3. CASE NextBatch
  <2>1. \A r \in Requests :
           /\ phase'[r] = "pending" /\ conv'[r] = NewRequest(PromptLen[r])
           /\ assistant'[r] = 0 /\ user'[r] = 0
    BY <1>3 DEF NextBatch
  <2>2. \A r \in Requests : Talk(r)' /\ conv'[r] \in Spoken
    <3> SUFFICES ASSUME NEW r \in Requests PROVE Talk(r)' /\ conv'[r] \in Spoken
      OBVIOUS
    <3> QED BY <2>1, Prompts, NewTalks DEF Talk
  <2>3. conv' \in [Requests -> Spoken \union Looped] /\ user' \in [Requests -> Nat]
    BY <1>3, <2>2 DEF NextBatch
  <2> QED BY <1>3, <2>2, <2>3 DEF NextBatch, Talking
<1> QED BY <1>2, <1>3 DEF Driver

LEMMA InitTalks == Init => Talking
<1> SUFFICES ASSUME Init PROVE Talking
  OBVIOUS
<1>1. \A r \in Requests : Talk(r) /\ conv[r] \in Spoken
  <2> SUFFICES ASSUME NEW r \in Requests PROVE Talk(r) /\ conv[r] \in Spoken
    OBVIOUS
  <2>1. /\ phase[r] = "pending" /\ conv[r] = NewRequest(PromptLen[r])
        /\ assistant[r] = 0 /\ user[r] = 0
    BY DEF Init, RowInit
  <2> QED BY <2>1, Prompts, NewTalks DEF Talk
<1> QED BY <1>1 DEF Init, RowInit, Talking

LEMMA NextTalks ==
  ASSUME StepInvariant, Talking, [Next]_vars PROVE Talking'
<1>1. CASE UNCHANGED vars
  BY <1>1, RestTalks DEF vars, engineVars
<1>2. ASSUME NEW k \in Ranks, Rank(k) PROVE Talking'
  <2>1. UNCHANGED <<rowVars, config>>
    BY <1>2 DEF Rank, RestOfRows, RankStep, Enter, Entered, Exit, Load, Offload
  <2> QED BY <2>1, RestTalks
<1>3. CASE Together
  <2>1. UNCHANGED <<rowVars, config>>
    BY <1>3 DEF Together, RestOfRows, SyncWeights, Compute
  <2> QED BY <2>1, RestTalks
<1>4. CASE ToolWorkers
  BY <1>4, RestTalks DEF ToolWorkers, engineVars
<1>5. CASE Driver
  BY <1>5, DriverTalks
<1>6. CASE DriverRaises
  BY <1>6, RestTalks DEF DriverRaises, Fail, RestOfRows
<1>7. ASSUME NEW r \in Requests, RolloutRank0(r) PROVE Talking'
  <2>1. Speaking(r) /\ (HandlePending(r) \/ RolloutRow(r))
    BY <1>7 DEF RolloutRank0, Speaking, AtRow, engineVars
  <2> QED BY <2>1, RolloutTalks
<1>8. ASSUME NEW r \in Requests, AgentWorker(r) PROVE Talking'
  <2>1. task = "agent" /\ AgentRow(r) /\ config' = config
    BY <1>8 DEF AgentWorker, engineVars
  <2>2. ~Synchronous
    BY <2>1 DEF StepInvariant, EngineInv, TasksOfMode, Synchronous
  <2>3. Looping(r)
    BY <2>1, <2>2 DEF Looping, AtRow
  <2> QED BY <2>1, <2>3, AgentTalks
<1> QED BY <1>1, <1>2, <1>3, <1>4, <1>5, <1>6, <1>7, <1>8 DEF Next

\* Every conversation is whole, however answers, tools, users and limits take turns.
LEMMA TalkingAlways == Spec => []Talking
<1>1. StepInvariant /\ Talking /\ [Next]_vars => Talking'
  BY NextTalks
<1> QED BY InitTalks, StepInvariance, <1>1, PTL DEF Spec

\* What the engine continues and what the actor is trained on are the messages, each rendered
\* on its own, once and in their order, in place and with their positions and mask.
THEOREM MessagesRenderedAlways == Spec => []MessagesRendered
<1>1. Talking => MessagesRendered
  <2> SUFFICES ASSUME Talking, Synchronous, NEW r \in Requests
               PROVE  /\ phase[r] \notin {"completed", "raised"} => Rendered(r)
                      /\ phase[r] = "completed" => Fits(r)
    BY DEF MessagesRendered
  <2> DEFINE c == conv[r]
  <2>1. SpeaksAs(phase[r], c, assistant[r], user[r], wants[r])
    BY DEF Talking, Talk
  <2>2. ASSUME phase[r] \notin {"completed", "raised"} PROVE Rendered(r)
    <3>1. c \in Spoken /\ Whole(c) /\ (phase[r] = "generating" => EndsWithPrompt(c))
      BY <2>1, <2>2 DEF SpeaksAs
    <3>2. Aligned(c)
      BY <3>1, ColumnsAreAligned DEF Whole
    <3> QED BY <3>1, <3>2 DEF Whole, Rendered
  <2>3. ASSUME phase[r] = "completed" PROVE Fits(r)
    <3>1. FitsAs(c)
      BY <2>1, <2>3 DEF SpeaksAs
    <3> QED BY <3>1 DEF FitsAs, Fits
  <2> QED BY <2>2, <2>3
<1> QED BY TalkingAlways, <1>1, PTL

\* However an agent loop was left, its response ends with a token the model generated.
THEOREM EndsWithGeneratedAlways == Spec => []EndsWithGenerated
<1>1. Talking => EndsWithGenerated
  <2> SUFFICES ASSUME Talking, ~Synchronous, NEW r \in Requests, phase[r] = "completed"
               PROVE  LoopEnded(r)
    BY DEF EndsWithGenerated
  <2>1. EndsAs(conv[r])
    BY DEF Talking, Talk, LoopsAs
  <2> QED BY <2>1 DEF EndsAs, LoopEnded
<1> QED BY TalkingAlways, <1>1, PTL

\* Where the rows run does not change.
LEMMA HousedAlways == Spec => [](owner \in Placements)
<1>1. Init => owner \in Placements
  BY DEF Init, ToolInit
<1>2. StepInvariant /\ owner \in Placements /\ [Next]_vars => (owner \in Placements)'
  BY StepNextInv, PartsKeep
<1> QED BY StepInvariance, <1>1, <1>2, PTL DEF Spec

LEMMA TypesTogether ==
  ASSUME StepInvariant, Talking, Counts, owner \in Placements PROVE TypeOK
<1>1. /\ limit \in Nat \ {0} /\ permits \in Nat /\ releasing \in Nat
      /\ acquiring \in Seq(Calls) /\ backlog \in [Pools -> Seq(Calls)]
      /\ call \in [Calls -> {"idle", "queued", "acquiring", "running"} \union Returned]
      /\ instances \subseteq Calls
  BY DEF StepInvariant, ToolInv, ToolTypeOK, CallStates
<1>2. /\ phase \in [Requests -> Phases] /\ assistant \in [Requests -> Nat]
      /\ wants \in [Requests -> SUBSET Tools]
      /\ reason \in [Requests -> {"none", "stop", "length", "tool_calls"}]
      /\ pinned \in [Requests -> SUBSET ServerHandles]
      /\ load \in [Owners -> [ServerHandles -> Nat]]
  BY DEF StepInvariant, RowTypeOK
<1>3. /\ user \in [Requests -> Nat] /\ broken \subseteq Owners
  BY DEF Talking
<1>4. ASSUME NEW r \in Requests
      PROVE  /\ conv[r].ids \in Seq(Kinds) /\ conv[r].mask \in Seq(BOOLEAN)
             /\ assistant[r] \in 0..MaxAssistantTurns /\ user[r] \in 0..MaxUserTurns
  <2>1. conv[r] \in Spoken \union Looped /\ Talk(r)
    BY DEF Talking
  <2>2. conv[r].ids \in Seq(Kinds) /\ conv[r].mask \in Seq(BOOLEAN)
    BY <2>1 DEF Spoken, Looped
  <2>3. assistant[r] \in 0..MaxAssistantTurns /\ user[r] \in 0..MaxUserTurns
    BY <2>1 DEF Talk, SpeaksAs, LoopsAs
  <2> QED BY <2>2, <2>3
<1>5. /\ assistant \in [Requests -> 0..MaxAssistantTurns]
      /\ user \in [Requests -> 0..MaxUserTurns]
  BY <1>2, <1>3, <1>4
<1>6. /\ config \in Configs /\ task \in Tasks \union {"end", "failed"}
      /\ at \in [Ranks -> {"idle", "called", "syncing", "synced", "awake", "loaded", "computed"}]
      /\ actor \in [Ranks -> SUBSET {"params", "grads", "optim"}]
      /\ engine \in [Ranks -> SUBSET {"weights", "kv"}]
      /\ engineVer \in [Ranks -> Nat]
  BY DEF StepInvariant, EngineInv, EngineTypeOK, Places
<1>7. step \in 1..Steps /\ version \in 1..Steps + 1 /\ engineVer \in [Ranks -> 0..Steps + 1]
  <2>1. Steps \in Nat /\ step \in 1..Steps /\ version \in 1..step + 1
    BY HybridAssumption DEF Counts
  <2>2. version \in 1..Steps + 1
    BY <2>1
  <2>3. \A k \in Ranks : engineVer[k] \in 0..version
    BY DEF Counts
  <2>4. \A k \in Ranks : engineVer[k] \in 0..Steps + 1
    BY <2>1, <2>2, <2>3
  <2> QED BY <1>6, <2>1, <2>2, <2>4
<1> QED BY <1>1, <1>2, <1>3, <1>4, <1>5, <1>6, <1>7 DEF TypeOK

\* The job's variables have their types, its turns and versions are within their bounds.
THEOREM TypeCorrectAlways == Spec => []TypeOK
<1>1. StepInvariant /\ Talking /\ Counts /\ owner \in Placements => TypeOK
  BY TypesTogether
<1> QED BY StepInvariance, TalkingAlways, RanksAreRanks, CountsAlways, HousedAlways, <1>1, PTL
=============================================================================
