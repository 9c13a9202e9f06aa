-------------------------- MODULE MCFutuExecution --------------------------
(* Small instances of FutuExecution for TLC: plans, threads and bounds.    *)
EXTENDS FutuExecution, TLC

CONSTANTS a1, d1, d2, b1, s1, b2, main, fast, web

\* A leg of account a1: one lot at a price of 20 in session 0, whole day.
Order(side, d, seq) ==
  [account |-> a1, decision |-> d, sequence |-> seq, side |-> side, quantity |-> 1,
   price |-> 20, session |-> 0, planned |-> FALSE, after |-> 0, before |-> 0,
   dependency |-> None, setup |-> FALSE]
Planned(leg, after, before) == [leg EXCEPT !.planned = TRUE, !.after = after, !.before = before]

\* One plan: buy at the open, then sell the old lot at the next checkpoint.
EntryLeg(qty, before) == Planned([Order("BUY", d1, 0) EXCEPT !.quantity = qty], 0, before)
ExitLeg == Planned([Order("SELL", d1, 1) EXCEPT !.dependency = b1], 1, 1)
RotationLeg == (b1 :> EntryLeg(2, 1)) @@ (s1 :> ExitLeg)

\* One buy alone.
BuyLeg == b1 :> EntryLeg(1, 0)

\* Immediate orders of one decision; at the price of the second pair the fee
\* is rounded.
SplitLeg == (b1 :> Order("BUY", d1, 0)) @@ (b2 :> Order("BUY", d1, 1))
RoundedSplitLeg == [i \in {b1, b2} |-> [SplitLeg[i] EXCEPT !.price = 30]]

\* Two attempts at one signal date: the second decision may replace the first.
ReplacedLeg == (b1 :> EntryLeg(1, 1)) @@ (b2 :> Order("BUY", d2, 0))

\* A plan for tomorrow that an older release expired today.
LegacyLeg == b1 :> [EntryLeg(1, 0) EXCEPT !.session = 1]

SamePlan == [d \in Decision |-> [account |-> a1, signalDate |-> 0]]

AllJobs == main :> Job
SubmitJobs == main :> {"fast", "ack", "drive"}
TwoThreads == (fast :> {"fast"}) @@ (web :> {"ack", "resume", "cancel", "drive"})
AckAndDrive == (fast :> {"fast"}) @@ (web :> {"ack", "drive"})

Symmetry == Permutations(OrderId)
=============================================================================
