----------------------------- MODULE HumanGate -----------------------------
(***************************************************************************)
(* What momo-shell promises a user who lets an AI client work in his       *)
(* terminals: an operation of the client takes effect only if policy waived *)
(* the question, or the user was asked about that very operation and said   *)
(* yes.  The first answer counts, a decision is final, and an operation     *)
(* nobody answers ends up refused.  AIControl is shown to implement it.     *)
(***************************************************************************)
CONSTANT Calls  \* the operations AI clients invoke, each invoked once

VARIABLES
  stage,    \* how far the decision about an operation has come
  vote,     \* the user's first answer, "none" before it
  effects   \* the operations that took effect

vars == <<stage, vote, effects>>

Stages == {"new", "asked", "allowed", "refused"}
Answers == {"yes", "no"}

Init ==
  /\ stage = [c \in Calls |-> "new"]
  /\ vote = [c \in Calls |-> "none"]
  /\ effects = {}

Ask(c) ==
  /\ stage[c] = "new"
  /\ stage' = [stage EXCEPT ![c] = "asked"]
  /\ UNCHANGED <<vote, effects>>

Waive(c) ==
  /\ stage[c] = "new"
  /\ stage' = [stage EXCEPT ![c] = "allowed"]
  /\ UNCHANGED <<vote, effects>>

\* An answer may still arrive after the decision; it is recorded, not obeyed.
Answer(c, a) ==
  /\ stage[c] # "new"
  /\ vote[c] = "none"
  /\ vote' = [vote EXCEPT ![c] = a]
  /\ UNCHANGED <<stage, effects>>

Allow(c) ==
  /\ stage[c] = "asked"
  /\ vote[c] = "yes"
  /\ stage' = [stage EXCEPT ![c] = "allowed"]
  /\ UNCHANGED <<vote, effects>>

\* The user said no, or said nothing in time.
Refuse(c) ==
  /\ stage[c] = "asked"
  /\ stage' = [stage EXCEPT ![c] = "refused"]
  /\ UNCHANGED <<vote, effects>>

TakeEffect(c) ==
  /\ stage[c] = "allowed"
  /\ effects' = effects \cup {c}
  /\ UNCHANGED <<stage, vote>>

Next ==
  \E c \in Calls :
    \/ Ask(c) \/ Waive(c)
    \/ \E a \in Answers : Answer(c, a)
    \/ Allow(c) \/ Refuse(c) \/ TakeEffect(c)

Spec == Init /\ [][Next]_vars
=============================================================================
