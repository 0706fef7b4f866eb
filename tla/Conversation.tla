---------------------------- MODULE Conversation ----------------------------
(***************************************************************************)
(* The tokens of one conversation (AsyncRolloutRequest of                  *)
(* verl/workers/rollout/schemas.py).  Messages are appended one by one and *)
(* each is rendered on its own, cut out of the chat template applied to a  *)
(* base conversation; with every token go its position and whether the     *)
(* actor is trained on it (loss_mask).                                     *)
(*                                                                         *)
(* A token is its kind: "P" of the prompt, "G" of the template's generation*)
(* prompt (one token), "A" of an assistant's message, its end mark among   *)
(* them, "U" of a user's, "T" of a tool's.  Multi-modal inputs are left    *)
(* out, and the template is the same at training and inference             *)
(* (use_inference_chat_template is FALSE, its default).                    *)
(*                                                                         *)
(* A template that renders a message by its context, such as those of      *)
(* QwQ-32B and Qwen3, which strip the reasoning of earlier turns           *)
(* (rollout.yaml:148-152), makes another text of all messages at once than *)
(* of each on its own.  finalize compares the two (schemas.py:571-640) and *)
(* only logs a warning, which is left out: nothing here speaks of the text *)
(* of all messages at once.                                                *)
(***************************************************************************)
EXTENDS Naturals, Sequences

Kinds == {"P", "G", "A", "U", "T"}

Repeated(x, n) == [i \in 1..n |-> x]
Upto(s, n)     == SubSeq(s, 1, IF n < Len(s) THEN n ELSE Len(s))
From(s, n)     == SubSeq(s, n, Len(s))

\* A message has the kind of its tokens and their number.
Message(kind, n) == [kind |-> kind, len |-> n]

\* The prompt as initialize_request tokenizes it: with the generation prompt, positions
\* from zero, nothing to train on.
NewRequest(n) ==
  [messages |-> <<Message("P", n)>>,
   ids      |-> Append(Repeated("P", n), "G"),
   mask     |-> Repeated(FALSE, n + 1),
   pos      |-> [i \in 1..n + 1 |-> i - 1],
   prompt   |-> n + 1]

\* _update_input_ids.
\* Mutant of Update: the positions of a new message start at zero.
UpdateFromZero(req, new, loss) ==
  [req EXCEPT !.ids = @ \o new, !.mask = @ \o Repeated(loss, Len(new)),
              !.pos = @ \o [i \in 1..Len(new) |-> i - 1]]
Update(req, new, loss) ==
  [req EXCEPT !.ids = @ \o new, !.mask = @ \o Repeated(loss, Len(new)),
              !.pos = @ \o [i \in 1..Len(new) |-> req.pos[Len(req.pos)] + i]]

EndsWithPrompt(req) == req.ids[Len(req.ids)] = "G"

\* get_generation_prompt_ids: what the engine is asked to continue.
\* Mutant of ForGeneration: the generation prompt is appended to a conversation that ends
\* with it.
ForGenerationAlways(req) == Update(req, <<"G">>, FALSE)
ForGeneration(req) == IF EndsWithPrompt(req) THEN req ELSE Update(req, <<"G">>, FALSE)

Add(req, kind, n, loss) ==
  [Update(req, Repeated(kind, n), loss) EXCEPT !.messages = Append(@, Message(kind, n))]

AddUser(req, n)      == Add(req, "U", n, FALSE)
AddAssistant(req, n) == Add(req, "A", n, TRUE)
\* The answers of several tools are rendered together.
AddToolResponses(req, n) == Add(req, "T", n, FALSE)

\* finalize: a generation prompt nothing followed is dropped, then truncate_output_ids.
\* Mutant of Stripped: the tokens lose the generation prompt, the mask and positions do not.
StrippedIds(req) ==
  IF EndsWithPrompt(req) THEN [req EXCEPT !.ids = Upto(@, Len(@) - 1)] ELSE req
Stripped(req) ==
  LET less == Len(req.ids) - 1
  IN  IF EndsWithPrompt(req)
        THEN [req EXCEPT !.ids = Upto(@, less), !.mask = Upto(@, less), !.pos = Upto(@, less)]
        ELSE req

Truncated(req, maxModelLen) ==
  [req EXCEPT !.ids = Upto(@, maxModelLen), !.mask = Upto(@, maxModelLen),
              !.pos = Upto(@, maxModelLen)]

Finalized(req, maxModelLen) == Truncated(Stripped(req), maxModelLen)

\* The columns of the batch a finalized conversation fills, at most maxResponseLen each.
Response(req, column, maxResponseLen) ==
  Upto(From(req[column], req.prompt + 1), maxResponseLen)

-----------------------------------------------------------------------------
(* The reference: every message rendered on its own, one after the other.  *)
RenderOne(m) == IF m.kind = "A" THEN <<"G">> \o Repeated("A", m.len) ELSE Repeated(m.kind, m.len)

RenderEach(messages) ==
  LET upto[k \in 0..Len(messages)] ==
        IF k = 0 THEN <<>> ELSE upto[k - 1] \o RenderOne(messages[k])
  IN  upto[Len(messages)]

\* Every token has its position, and is trained on when an assistant wrote it.
Aligned(req) ==
  /\ DOMAIN req.mask = DOMAIN req.ids /\ DOMAIN req.pos = DOMAIN req.ids
  /\ \A i \in DOMAIN req.ids : /\ req.mask[i] = (req.ids[i] = "A")
                               /\ req.pos[i] = i - 1
=============================================================================
