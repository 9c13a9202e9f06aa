---------------------------- MODULE MCPaperStore ----------------------------
(* A small instance of PaperStore for TLC: one account and two attempts at *)
(* the decision of one signal date, with every caller doing as it likes.   *)
EXTENDS PaperStore, TLC

CONSTANTS a1, d1, d2, b1, b2, o1

Buy(d, lots) ==
  [account |-> a1, decision |-> d, sequence |-> 0, side |-> "BUY", quantity |-> lots,
   price |-> 20, session |-> 0, planned |-> TRUE, after |-> 0, before |-> 1,
   dependency |-> None, setup |-> FALSE]
MCLeg == (b1 :> Buy(d1, 2)) @@ (b2 :> [Buy(d2, 1) EXCEPT !.side = "SELL"])
MCPlan == [d \in Decision |-> [account |-> a1, signalDate |-> 0]]

\* The bound: a reservation is taken at most twice, and of the statuses that
\* the code treats alike one is kept.
MCStatus == {"NONE", "PENDING_SUBMIT", "SUBMITTING", "EXPIRED", "FILLED_ALL", "SUPERSEDED"}
MCBound ==
  /\ \A i \in Intent : /\ intent'[i].generation <= 2 /\ intent'[i].status \in MCStatus
                       /\ intent'[i].reason \in {"none", "deadline"}
  /\ \A o \in OrderId : order'[o] # None => order'[o].status = "FILLED_ALL"
  /\ \A a \in Account : account'[a].error = "none" /\ account'[a].health # "OK"

MCSpec == StoreInit /\ [][StoreNext /\ MCBound]_storeVars
=============================================================================
