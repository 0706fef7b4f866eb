---------------------------- MODULE RateLimiter ----------------------------
(***************************************************************************)
(* What a limiter of tool calls promises: the callers that are inside at   *)
(* the same time are never more than the rate limit it was made with.      *)
(***************************************************************************)
EXTENDS Naturals, FiniteSets

CONSTANT Callers   \* who may ask for a permit

VARIABLES
  cap,      \* the rate limit
  inside    \* the callers that hold a permit

Init == cap \in Nat \ {0} /\ inside = {}

Enter(c) == /\ c \notin inside
            /\ Cardinality(inside) < cap
            /\ inside' = inside \union {c}
            /\ UNCHANGED cap

Leave(c) == c \in inside /\ inside' = inside \ {c} /\ UNCHANGED cap

Next == \E c \in Callers : Enter(c) \/ Leave(c)

Spec == Init /\ [][Next]_<<cap, inside>>
=============================================================================
