-------------------------- MODULE RoutingDecision ---------------------------
(***************************************************************************)
(* What routing promises a person about each decision, with no queue,      *)
(* lease or runner in sight: a decision leaves one copy at its destination *)
(* at most, and lands only once it has; one that was called off left none  *)
(* and never will, where the destination confirms what it says.            *)
(***************************************************************************)
EXTENDS Integers

CONSTANTS
    Records,
    Confirmed   \* those whose destination says what it knows to have arrived

VARIABLES
    stage,   \* where the person finds each decision
    copies   \* what its destination may hold of it

decisionVars == <<stage, copies>>

Stages == {"none", "pending", "delivered", "withdrawn", "marked", "cancelled", "abandoned"}

Init ==
    /\ stage = [r \in Records |-> "none"]
    /\ copies = [r \in Records |-> 0]

Moves(r, from, to) ==
    /\ stage[r] = from
    /\ stage' = [stage EXCEPT ![r] = to]
    /\ UNCHANGED copies

Decide(r) == Moves(r, "none", "pending")

MarkByHand(r) == Moves(r, "none", "marked")

\* An attempt may arrive though its decision was given up on meanwhile.
Arrives(r) ==
    /\ stage[r] \in {"pending", "abandoned"}
    /\ copies[r] = 0
    /\ copies' = [copies EXCEPT ![r] = 1]
    /\ UNCHANGED stage

Land(r) == copies[r] = 1 /\ Moves(r, "pending", "delivered")

GiveUp(r) == Moves(r, "pending", "abandoned")

CallOff(r) ==
    /\ r \in Confirmed => copies[r] = 0
    /\ Moves(r, "pending", "cancelled")

Unmark(r) == Moves(r, "marked", "cancelled")

Withdraw(r) == Moves(r, "delivered", "withdrawn")

Reinstate(r) == Moves(r, "withdrawn", "delivered")

Next == \E r \in Records :
    \/ Decide(r) \/ MarkByHand(r)
    \/ Arrives(r)
    \/ Land(r) \/ GiveUp(r)
    \/ CallOff(r) \/ Unmark(r)
    \/ Withdraw(r) \/ Reinstate(r)

Spec == Init /\ [][Next]_decisionVars
=============================================================================
