---------------------------- MODULE RolloutRows ----------------------------
(***************************************************************************)
(* The rows of a batch while they are generated: what a conversation of    *)
(* the SGLang rollout (module MultiTurnRollout) and one of an agent loop   *)
(* (module AgentLoop) both have.  A job uses one of the two.               *)
(*                                                                         *)
(* Bounds: an answer that stops by itself has a length in AnswerLens, the  *)
(* responses of each set of tools the length ToolLen, each user message one*)
(* token.                                                                  *)
(***************************************************************************)
EXTENDS ToolPool, Conversation

CONSTANTS
  RowTools,           \* tools_kwargs: the tools each row of the SGLang rollout is given
  Sandbox,            \* the tool of sandbox_fusion_tools.py; others answer like search_tool.py
  PromptLen,          \* tokens of each row's prompt before the generation prompt
  PromptLength,       \* rollout.prompt_length, the longest prompt
  ResponseLength,     \* rollout.response_length
  MaxModelLen,        \* rollout.max_model_len
  MaxAssistantTurns,  \* rollout.multi_turn.max_assistant_turns
  MaxUserTurns,       \* rollout.multi_turn.max_user_turns
  AnswerLens,         \* lengths of the answers the engine ends by itself
  ToolLen             \* length of the responses of some tools, rendered together

ASSUME RowAssumption ==
  /\ Sandbox \in Tools /\ RowTools \in [Requests -> SUBSET Tools]
  /\ PromptLength \in Nat \ {0} /\ ResponseLength \in Nat \ {0}
  /\ PromptLen \in [Requests -> 1..PromptLength - 1]
  /\ MaxModelLen \in Nat /\ MaxModelLen >= PromptLength + ResponseLength
  /\ MaxAssistantTurns \in Nat \ {0} /\ MaxUserTurns \in Nat \ {0}
  /\ AnswerLens \subseteq Nat \ {0} /\ ToolLen \in [(SUBSET Tools) \ {{}} -> Nat \ {0}]

VARIABLES
  phase,      \* where each conversation is
  conv,       \* its tokens
  assistant,  \* current_turns, assistant_turns: answers it has
  user,       \* user_turns: messages or tool results it was answered with
  wants,      \* the tools its last message calls
  broken      \* the processes whose batch was ended by an exception

rowVars == <<phase, conv, assistant, user, wants, broken>>

Phases == {"pending", "running", "generating", "tool_calling", "bad_call", "interacting", "scoring",
           "completed", "raised"}

RowInit ==
  /\ phase = [r \in Requests |-> "pending"]
  /\ conv = [r \in Requests |-> NewRequest(PromptLen[r])]
  /\ assistant = [r \in Requests |-> 0] /\ user = [r \in Requests |-> 0]
  /\ wants = [r \in Requests |-> {}]
  /\ broken = {}

\* The next batch: other conversations, with the same prompts.
NextBatch ==
  /\ phase' = [r \in Requests |-> "pending"]
  /\ conv' = [r \in Requests |-> NewRequest(PromptLen[r])]
  /\ assistant' = [r \in Requests |-> 0] /\ user' = [r \in Requests |-> 0]
  /\ wants' = [r \in Requests |-> {}]
  /\ UNCHANGED broken

AllCompleted == \A r \in Requests : phase[r] = "completed"

\* sandbox_fusion_tools.py returns the nothing of a call that raised; search_tool.py makes
\* an error message of it.
Nothing(r) == call[<<r, Sandbox>>] = "none"
=============================================================================
