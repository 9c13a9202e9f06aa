------------------------- MODULE DecisionBookProofs -------------------------
(***************************************************************************)
(* What follows from the book of decisions alone, for any accounts, plans  *)
(* and dates; by ImplementsBook it holds of the decision cycle too.  All   *)
(* of it is about one account at a time, so the proofs are about the rows  *)
(* s of one account.                                                       *)
(***************************************************************************)
EXTENDS DecisionBook, SequenceTheorems, TLAPS

NoOverlapIn(s) ==
  \A j, k \in DOMAIN s : s[j].orders \in Open /\ s[k].orders \in Open => j = k

OneActiveIn(s) ==
  \A j, k \in DOMAIN s :
    s[j].active /\ s[k].active /\ DateOf[s[j].plan] = DateOf[s[k].plan] => j = k

OpenActiveIn(s) == \A k \in DOMAIN s : s[k].orders \in Open => s[k].active

\* CreateOrders is for the last row, so OpenActiveIn needs it to be in force.
LastActiveIn(s) == s # <<>> => s[Len(s)].active

Good(s) ==
  s \in Seq(Row) /\ NoOverlapIn(s) /\ OneActiveIn(s) /\ OpenActiveIn(s) /\ LastActiveIn(s)

Inv == book \in [Account -> Seq(Row)] /\ \A a \in Account : Good(book[a])

\* A step changes the rows of one account.
LEMMA OneAccount ==
  ASSUME Inv, NEW a \in Account, NEW s, Good(s), book' = [book EXCEPT ![a] = s]
  PROVE  Inv'
  BY DEF Inv, Good

\* A row in force without orders may follow when nothing is open and no other
\* row of its date is in force.
LEMMA AppendGood ==
  ASSUME NEW s, s \in Seq(Row), NoOverlapIn(s), OneActiveIn(s), OpenActiveIn(s),
         NEW p \in Plan, NEW o \in {"none", "pending"},
         \A k \in DOMAIN s : s[k].orders \notin Open,
         \A k \in DOMAIN s : s[k].active => DateOf[s[k].plan] # DateOf[p]
  PROVE  Good(Append(s, Entry(p, o)))
<1> DEFINE e == Entry(p, o)
           n == Len(s) + 1
           t == Append(s, e)
<1>1. e \in Row /\ e.plan = p /\ e.active /\ e.orders = o
  BY DEF Entry, Row, OrdersState
<1>2. /\ t \in Seq(Row) /\ DOMAIN t = 1..n /\ Len(t) = n /\ t[n] = e
      /\ DOMAIN s = 1..Len(s) /\ Len(s) \in Nat
      /\ \A k \in DOMAIN s : t[k] = s[k]
  BY <1>1
<1> HIDE DEF e, t
<1>3. \A k \in DOMAIN t : k = n \/ k \in DOMAIN s
  BY <1>2
<1>4. NoOverlapIn(t)
  BY <1>2, <1>3 DEF NoOverlapIn
<1>5. OneActiveIn(t)
  BY <1>1, <1>2, <1>3 DEF OneActiveIn
<1>6. OpenActiveIn(t)
  BY <1>1, <1>2, <1>3 DEF OpenActiveIn
<1>7. LastActiveIn(t)
  BY <1>1, <1>2 DEF LastActiveIn
<1> QED BY <1>2, <1>4, <1>5, <1>6, <1>7 DEF Good, t, e

\* The orders of one row may change among themselves.
LEMMA OrdersGood ==
  ASSUME NEW s, Good(s), NEW k \in DOMAIN s, NEW o \in OrdersState,
         o \in Open => s[k].active /\ \A j \in DOMAIN s \ {k} : s[j].orders \notin Open
  PROVE  Good([s EXCEPT ![k].orders = o])
<1> DEFINE t == [s EXCEPT ![k].orders = o]
<1>1. s \in Seq(Row) /\ DOMAIN s = 1..Len(s) /\ Len(s) \in Nat /\ s[k] \in Row
  BY DEF Good
<1>2. [s[k] EXCEPT !.orders = o] \in Row
  BY <1>1 DEF Row
<1>3. /\ t \in Seq(Row) /\ DOMAIN t = DOMAIN s /\ Len(t) = Len(s)
      /\ t[k] = [s[k] EXCEPT !.orders = o]
      /\ \A j \in DOMAIN s \ {k} : t[j] = s[j]
  BY <1>1, <1>2
<1>4. \A j \in DOMAIN s : t[j].active = s[j].active /\ t[j].plan = s[j].plan
  BY <1>1, <1>3 DEF Row
<1>5. t[k].orders = o
  BY <1>1, <1>3 DEF Row
<1> HIDE DEF t
<1>6. NoOverlapIn(t)
  BY <1>3, <1>5 DEF NoOverlapIn, Good
<1>7. OneActiveIn(t)
  BY <1>3, <1>4 DEF OneActiveIn, Good
<1>8. OpenActiveIn(t)
  BY <1>3, <1>4, <1>5 DEF OpenActiveIn, Good
<1>9. LastActiveIn(t)
  <2>1. CASE s = <<>>
    BY <2>1, <1>1
  <2>2. CASE s # <<>>
    <3>1. Len(s) \in DOMAIN s
      BY <2>2, <1>1
    <3> QED BY <2>2, <3>1, <1>3, <1>4 DEF LastActiveIn, Good
  <2> QED BY <2>1, <2>2
<1> QED BY <1>3, <1>6, <1>7, <1>8, <1>9 DEF Good, t

LEMMA RowsAreSeq ==
  ASSUME NEW S, NEW n \in Nat, NEW t \in [1..n -> S]
  PROVE  t \in Seq(S)
BY SeqDef

Withdrawn(s, k) ==
  [s EXCEPT ![k].active = FALSE, ![k].orders = IF @ = "pending" THEN "withdrawn" ELSE @]

\* Withdrawing the last row leaves rows that AppendGood can extend.
LEMMA WithdrawGood ==
  ASSUME NEW s, Good(s), NEW k \in DOMAIN s, s[k].orders # "sent",
         \A j \in DOMAIN s \ {k} : s[j].orders \notin Open,
         NEW t, t = Withdrawn(s, k)
  PROVE  /\ t \in Seq(Row) /\ NoOverlapIn(t) /\ OneActiveIn(t) /\ OpenActiveIn(t)
         /\ DOMAIN t = DOMAIN s
         /\ \A j \in DOMAIN t : t[j].orders \notin Open
         /\ \A j \in DOMAIN t : t[j].active => j # k /\ t[j] = s[j]
<1> DEFINE o == IF s[k].orders = "pending" THEN "withdrawn" ELSE s[k].orders
           r == [plan |-> s[k].plan, active |-> FALSE, orders |-> o]
<1>1. s \in Seq(Row) /\ DOMAIN s = 1..Len(s) /\ Len(s) \in Nat /\ s[k] \in Row
  BY DEF Good
<1>2. r \in Row /\ o \notin Open
  BY <1>1 DEF Row, OrdersState, Open
<1>3. t[k] = r
  BY <1>1 DEF Row, Withdrawn
<1>4. DOMAIN t = DOMAIN s /\ \A j \in DOMAIN s \ {k} : t[j] = s[j]
  BY <1>1 DEF Withdrawn
<1>5. r.active = FALSE /\ r.orders = o
  OBVIOUS
<1> HIDE DEF r, o
<1>6. t \in Seq(Row)
  <2>1. \A j \in DOMAIN s : s[j] \in Row
    BY <1>1
  <2>2. \A j \in 1..Len(s) : t[j] \in Row
    BY <2>1, <1>1, <1>2, <1>3, <1>4
  <2>3. t \in [1..Len(s) -> Row]
    BY <2>2, <1>1 DEF Withdrawn
  <2> QED BY <2>3, <1>1, RowsAreSeq
<1>7. \A j \in DOMAIN t : t[j].orders \notin Open
  BY <1>2, <1>3, <1>4, <1>5
<1>8. \A j \in DOMAIN t : t[j].active => j # k /\ t[j] = s[j]
  BY <1>3, <1>4, <1>5
<1>9. OneActiveIn(t)
  BY <1>4, <1>8 DEF OneActiveIn, Good
<1> QED BY <1>4, <1>6, <1>7, <1>8, <1>9 DEF NoOverlapIn, OpenActiveIn

LEMMA InvInit == Init => Inv
BY DEF Init, Inv, Good, NoOverlapIn, OneActiveIn, OpenActiveIn, LastActiveIn

LEMMA DecideStep == ASSUME Inv, NEW a \in Account, NEW p \in Plan, Decide(a, p) PROVE Inv'
<1> DEFINE s == book[a]
<1>1. Good(s) /\ book' = [book EXCEPT ![a] = Append(s, Entry(p, "none"))]
  BY DEF Inv, Decide
<1>2. \A k \in DOMAIN s : s[k].orders \notin Open
  BY DEF Decide, HasOpen
<1>3. \A k \in DOMAIN s : s[k].active => DateOf[s[k].plan] # DateOf[p]
  BY DEF Decide, HasActive
<1>4. Good(Append(s, Entry(p, "none")))
  <2> HIDE DEF s
  <2> QED BY <1>1, <1>2, <1>3, AppendGood DEF Good
<1> QED BY <1>1, <1>4, OneAccount

LEMMA ReplaceStep == ASSUME Inv, NEW a \in Account, NEW p \in Plan, Replace(a, p) PROVE Inv'
<1> DEFINE s == book[a]
           k == Len(s)
           t == Withdrawn(s, k)
<1>1. PICK o \in {"none", "pending"} :
        /\ s # <<>> /\ s[k].active /\ s[k].orders # "sent"
        /\ \A j \in DOMAIN s \ {k} : s[j].orders \notin Open
        /\ ~HasActive(a, DateOf[p], {k})
        /\ book' = [book EXCEPT ![a] = Append(t, Entry(p, o))]
  BY DEF Replace, Current, Withdrawn
<1>2. Good(s) /\ k \in DOMAIN s
  BY <1>1 DEF Inv, Good
<1>3. \A j \in DOMAIN s \ {k} : s[j].active => DateOf[s[j].plan] # DateOf[p]
  BY <1>1 DEF HasActive
<1> HIDE DEF s, k
<1>4. /\ t \in Seq(Row) /\ NoOverlapIn(t) /\ OneActiveIn(t) /\ OpenActiveIn(t)
      /\ DOMAIN t = DOMAIN s
      /\ \A j \in DOMAIN t : t[j].orders \notin Open
      /\ \A j \in DOMAIN t : t[j].active => j # k /\ t[j] = s[j]
  BY <1>1, <1>2, WithdrawGood
<1> HIDE DEF t
<1>5. Good(Append(t, Entry(p, o)))
  BY <1>3, <1>4, AppendGood
<1> QED BY <1>1, <1>5, OneAccount

LEMMA CreateOrdersStep == ASSUME Inv, NEW a \in Account, CreateOrders(a) PROVE Inv'
<1> DEFINE s == book[a]
           k == Len(s)
           t == [s EXCEPT ![k].orders = "pending"]
<1>1. /\ Good(s) /\ s # <<>> /\ book' = [book EXCEPT ![a] = t]
      /\ \A j \in DOMAIN s : s[j].orders \notin Open
  BY DEF Inv, CreateOrders, Current, HasOpen
<1>2. k \in DOMAIN s /\ s[k].active
  BY <1>1 DEF Good, LastActiveIn
<1> HIDE DEF s, k
<1>3. Good(t)
  BY <1>1, <1>2, OrdersGood DEF OrdersState
<1> QED BY <1>1, <1>3, OneAccount

LEMMA OrdersStep == ASSUME Inv, NEW a \in Account, Send(a) \/ End(a) PROVE Inv'
<1> DEFINE s == book[a]
<1>1. PICK k \in DOMAIN s, o \in {"sent", "ended"} :
        /\ s[k].orders \in Open
        /\ book' = [book EXCEPT ![a] = [s EXCEPT ![k].orders = o]]
  BY DEF Inv, Send, End, Open
<1>2. Good(s)
  BY DEF Inv
<1>3. s[k].active /\ \A j \in DOMAIN s \ {k} : s[j].orders \notin Open
  BY <1>1, <1>2 DEF Good, OpenActiveIn, NoOverlapIn
<1>4. Good([s EXCEPT ![k].orders = o])
  <2> HIDE DEF s
  <2> QED BY <1>2, <1>3, OrdersGood DEF OrdersState
<1> QED BY <1>1, <1>4, OneAccount

LEMMA InvNext == Inv /\ [Next]_book => Inv'
<1> SUFFICES ASSUME Inv, [Next]_book PROVE Inv'
  OBVIOUS
<1>1. CASE UNCHANGED book
  BY <1>1 DEF Inv, Good
<1>2. ASSUME NEW a \in Account, NEW p \in Plan, Decide(a, p) \/ Replace(a, p) PROVE Inv'
  BY <1>2, DecideStep, ReplaceStep
<1>3. ASSUME NEW a \in Account, CreateOrders(a) \/ Send(a) \/ End(a) PROVE Inv'
  BY <1>3, CreateOrdersStep, OrdersStep
<1> QED BY <1>1, <1>2, <1>3 DEF Next

\* The rows keep their types.
THEOREM TypeCorrect == Spec => []TypeOK
<1>1. Inv => TypeOK
  BY DEF Inv, TypeOK
<1> QED BY InvInit, InvNext, <1>1, PTL DEF Spec

\* Whatever the order of drives, workers and replacements, no account has orders
\* of two decisions under way: replaced ones are withdrawn in the same step.
THEOREM OrdersNeverOverlap == Spec => []NoOverlap
<1>1. Inv => NoOverlap
  BY DEF Inv, NoOverlap, Good, NoOverlapIn
<1> QED BY InvInit, InvNext, <1>1, PTL DEF Spec

\* At most one decision of an account is in force per signal date (the check of
\* save_account_decision, kept over replacements).
THEOREM OneDecisionPerDate == Spec => []OneActivePerDate
<1>1. Inv => OneActivePerDate
  BY DEF Inv, OneActivePerDate, Good, OneActiveIn
<1> QED BY InvInit, InvNext, <1>1, PTL DEF Spec

\* No order is under way for a decision that was replaced.
THEOREM SupersededHasNoOrders == Spec => []OpenIsActive
<1>1. Inv => OpenIsActive
  BY DEF Inv, OpenIsActive, Good, OpenActiveIn
<1> QED BY InvInit, InvNext, <1>1, PTL DEF Spec
=============================================================================
