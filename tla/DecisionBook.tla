---------------------------- MODULE DecisionBook ----------------------------
(***************************************************************************)
(* What the paper trading engine promises of the decisions of an account,  *)
(* whoever asks for them and whenever: the README of the engine, "decision *)
(* of one account".  Nothing here knows of threads, locks, crashes or the  *)
(* strategy; DecisionCycle is shown to implement it.                       *)
(***************************************************************************)
EXTENDS Naturals, Sequences

CONSTANTS Account, Plan, DateOf   \* DateOf: the signal date of a plan

VARIABLE book   \* the decisions of each account in the order they were taken

Entry(p, orders) == [plan |-> p, active |-> TRUE, orders |-> orders]
Open == {"pending", "sent"}

Init == book = [a \in Account |-> <<>>]

HasOpen(a) == \E k \in DOMAIN book[a] : book[a][k].orders \in Open
Current(a) == Len(book[a])
HasActive(a, d, except) ==
  \E k \in DOMAIN book[a] \ except : book[a][k].active /\ DateOf[book[a][k].plan] = d

\* A new decision waits for the orders of the older ones, and there is no
\* other for its signal date.
Decide(a, p) ==
  /\ ~HasOpen(a) /\ ~HasActive(a, DateOf[p], {})
  /\ book' = [book EXCEPT ![a] = Append(@, Entry(p, "none"))]

\* All orders of the current decision are created together, once.
CreateOrders(a) ==
  /\ book[a] # <<>> /\ ~HasOpen(a) /\ book[a][Current(a)].orders = "none"
  /\ book' = [book EXCEPT ![a][Current(a)].orders = "pending"]

\* A replaced decision loses the orders that were not sent; the new one gets
\* its own in the same transaction, or has none.
Replace(a, p) ==
  \E orders \in {"none", "pending"} :
    LET k == Current(a) old == book[a][k] IN
    /\ book[a] # <<>> /\ old.active /\ old.orders # "sent"
    /\ \A j \in DOMAIN book[a] \ {k} : book[a][j].orders \notin Open
    /\ ~HasActive(a, DateOf[p], {k})
    /\ book' = [book EXCEPT ![a] =
                  Append([book[a] EXCEPT ![k].active = FALSE,
                                         ![k].orders = IF @ = "pending" THEN "withdrawn" ELSE @],
                         Entry(p, orders))]

\* Orders are sent to the channel, and end: filled, cancelled or expired.
Send(a) ==
  \E k \in DOMAIN book[a] :
    book[a][k].orders = "pending" /\ book' = [book EXCEPT ![a][k].orders = "sent"]

End(a) ==
  \E k \in DOMAIN book[a] :
    book[a][k].orders \in Open /\ book' = [book EXCEPT ![a][k].orders = "ended"]

Next ==
  \E a \in Account :
    (\E p \in Plan : Decide(a, p) \/ Replace(a, p)) \/ CreateOrders(a) \/ Send(a) \/ End(a)

Spec == Init /\ [][Next]_book

-----------------------------------------------------------------------------

OrdersState == {"none", "pending", "sent", "ended", "withdrawn"}
Row == [plan : Plan, active : BOOLEAN, orders : OrdersState]

TypeOK == book \in [Account -> Seq(Row)]

\* Two decisions of an account never have orders under way together.
NoOverlap ==
  \A a \in Account : \A j, k \in DOMAIN book[a] :
    book[a][j].orders \in Open /\ book[a][k].orders \in Open => j = k

\* One decision is in force per signal date.
OneActivePerDate ==
  \A a \in Account : \A j, k \in DOMAIN book[a] :
    LET x == book[a][j] y == book[a][k] IN
    x.active /\ y.active /\ DateOf[x.plan] = DateOf[y.plan] => j = k

\* Orders under way are those of a decision in force.
OpenIsActive ==
  \A a \in Account : \A k \in DOMAIN book[a] : book[a][k].orders \in Open => book[a][k].active
=============================================================================
