-------------------------- MODULE SubscriberAccount --------------------------
(***************************************************************************)
(* What a subscriber's ledger promises, whatever rows it keeps: every cent  *)
(* the operator holds of the subscriber settles an invoice or is owed back, *)
(* and every cent that is missing stands in a case to reconcile.  No step   *)
(* makes or loses money, and each moves it one way: a payment reopens       *)
(* nothing, a refund reopens nothing, a reversal settles nothing, and what  *)
(* is given back takes nothing.                                             *)
(***************************************************************************)
EXTENDS Integers

VARIABLES
    account     \* a cent amount for each of Flows and Positions

\* What came and went, in all; granted is owed by invoices of a negative total.
Flows == {"collected", "paidOut", "withdrawn", "reinstated", "granted"}

\* What settles the chain's invoices, is open on credits, or left and matched nothing.
Positions == {"settled", "owedBack", "toReconcile"}

Held(a) == a.collected - a.paidOut - a.withdrawn + a.reinstated

Balanced(a) == Held(a) + a.granted + a.toReconcile = a.settled + a.owedBack

Changed(a, b) == {f \in Flows \cup Positions : b[f] # a[f]}

Grown(a, b) == {f \in Flows \cup Positions : b[f] > a[f]}

\* Exactly the flow `flow` moves, and of the positions `up` only grow and `down`
\* only shrink.
Moves(a, b, flow, up, down) ==
    /\ Changed(a, b) \cap Flows = flow
    /\ Grown(a, b) \cap Positions \subseteq up
    /\ Grown(b, a) \cap Positions \subseteq down

Init == account = [f \in Flows \cup Positions |-> 0]

\* A payment settles what is owed, and the rest is owed back.
Collects(a, b) ==
    b.collected > a.collected /\ Moves(a, b, {"collected"}, {"settled", "owedBack"}, {})

Grants(a, b) == b.granted > a.granted /\ Moves(a, b, {"granted"}, {"owedBack"}, {})

\* What a cancelled invoice's replacement does not take is owed back.
Replaces(a, b) == Moves(a, b, {}, {"owedBack"}, {"settled"})

\* A refund or a payout; and a refund that failed.
PaysOut(a, b) ==
    b.paidOut > a.paidOut /\ Moves(a, b, {"paidOut"}, {"toReconcile"}, {"owedBack"})

Fails(a, b) ==
    b.paidOut < a.paidOut /\ Moves(a, b, {"paidOut"}, {"owedBack"}, {"toReconcile"})

TakesBack(a, b) ==
    /\ b.withdrawn > a.withdrawn
    /\ Moves(a, b, {"withdrawn"}, {"toReconcile"}, {"settled", "owedBack"})

GivesBack(a, b) ==
    /\ b.reinstated > a.reinstated
    /\ Moves(a, b, {"reinstated"}, {"settled", "owedBack"}, {"toReconcile"})

\* One report of both: what was taken and what came back are told apart no more.
TakesAndGivesBack(a, b) ==
    /\ b.withdrawn > a.withdrawn /\ b.reinstated > a.reinstated
    /\ Moves(a, b, {"withdrawn", "reinstated"}, Positions, Positions)

Step(a, b) ==
    /\ Balanced(b)
    /\ \/ Collects(a, b) \/ Grants(a, b) \/ Replaces(a, b) \/ PaysOut(a, b) \/ Fails(a, b)
       \/ TakesBack(a, b) \/ GivesBack(a, b) \/ TakesAndGivesBack(a, b)

Next == \E before \in {account} : \E after \in {account'} : Step(before, after)

Spec == Init /\ [][Next]_account
=============================================================================
