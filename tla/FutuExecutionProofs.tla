------------------------ MODULE FutuExecutionProofs ------------------------
(* What the execution of intents at Futu guarantees, for all accounts,     *)
(* plans, threads and histories.                                           *)
EXTENDS FutuExecution, PaperStoreProofs

\* The variables other than the store's, and the frames of the threads.
WorldOK ==
  /\ broker \in [OrderId -> OrderRow \cup {None}]
  /\ channel \in {"NONE", "OK", "BLOCKED"}
  /\ pausedAll \in BOOLEAN
  /\ up \in {"down", "starting", "serving"}
  /\ now \in 0 .. MaxTime /\ requests \in 0 .. MaxRequests /\ crashes \in 0 .. MaxCrashes

ThreadsOK == th \in [Thread -> Frame]

-----------------------------------------------------------------------------
(* What a thread relies on from one step to the next.                      *)

InOrders == {"orders", "bind", "fill", "report", "settle"}
InCancel == {"cancel", "cancelMark"}
InRecover == {"recover", "recoverSet"}
InPending == {"pending", "claim", "send", "placed", "uncertain", "reject"}

\* The loop the thread is in, or returns to when the account is blocked.
Loop(f) == IF f.pc = "block" THEN f.next ELSE f.pc

\* What the loop has left was in the store or in the snapshot when it began.
WorkIsReal(f) ==
  /\ Loop(f) \in InOrders => \A o \in f.todo : o \in OrderId /\ f.snap[o] # None
  /\ Loop(f) \in InCancel => \A i \in f.todo : i \in Intent /\ Created(i) /\ intent[i].order # None
  /\ Loop(f) \in InRecover => f.todo \subseteq Account
  /\ Loop(f) \in {"expire", "activate"} \cup InPending => f.todo \subseteq Intent
  /\ Loop(f) = "requeue" =>
       \A i \in f.todo : i \in Intent /\ Leg[i].session > Day(f.moment)

\* So was the intent, the account or the order in hand.
HandIsReal(f) ==
  /\ f.job = "ack" \/ f.pc \in {"resolve", "ackCheck", "ackSet"} => f.arg \in Intent
  /\ f.pc \in {"save", "create"} =>
       f.arg \in Decision /\ \A i \in LegsOf(f.arg) : Leg[i].session >= Day(now)
  /\ f.pc = "block" =>
       /\ f.cur \in Intent \cup Account
       /\ f.next \in {"idle", "expire", "orders", "activate", "pending"}
  /\ f.pc = "recoverSet" => f.cur \in Account
  /\ f.pc = "claim" => f.cur \in Intent /\ Leg[f.cur].session <= Day(f.moment)
  /\ f.pc \in {"cancelMark", "send", "placed", "uncertain", "reject"} =>
       f.cur \in Intent /\ Created(f.cur)
  /\ f.pc = "cancelMark" => intent[f.cur].order # None
  /\ f.pc = "send" => Leg[f.cur].session = Day(f.moment)
  /\ f.pc = "placed" =>
       f.ord \in OrderId /\ broker[f.ord] # None /\ broker[f.ord].intent = f.cur
  /\ f.pc = "reject" => f.prev \in {"REJECTED", "SUBMISSION_FAILED"}
  /\ f.pc \in {"bind", "fill", "report", "settle"} => f.ord \in OrderId /\ f.snap[f.ord] # None
  /\ f.pc \in {"fill", "report", "settle"} => order[f.ord] # None
  /\ f.pc = "settle" => f.snap[f.ord].status \in TerminalOrder

\* What an order at Futu was stays true of it: it keeps its intent, fills only
\* grow, and an order that has ended does not change any more.
Becomes(old, new) ==
  /\ new # None /\ new.intent = old.intent /\ old.filled <= new.filled
  /\ old.status \in TerminalOrder => new = old

\* A snapshot may be old, but it was true.
SnapIsPast(f) == \A o \in OrderId : f.snap[o] # None => Becomes(f.snap[o], broker[o])

\* An operation that reads the clock ends on the day it began.
SameDay(f) == f.pc \in {"idle", "save", "create"} \/ Day(f.moment) = Day(now)

\* What is in the queue for a past session is still to be expired: an operation
\* does nothing else before.
PastIsExpired(f) ==
  f.pc \in {"idle", "save", "create"} \/
  \A i \in Intent : intent[i].status = "PENDING_SUBMIT" /\ Leg[i].session < Day(now) =>
    Loop(f) = "expire" /\ i \in f.todo

Relies(f) ==
  WorkIsReal(f) /\ HandIsReal(f) /\ SnapIsPast(f) /\ SameDay(f) /\ PastIsExpired(f)
ThreadsRely == \A t \in Thread : Relies(th[t])

-----------------------------------------------------------------------------
(* One order per intent.                                                   *)

\* A claimed intent is in the hand of its thread until its outcome is written.
Held == {"send", "placed", "uncertain", "reject"}
Untold == {"send", "reject"}
Holds(t, i) == th[t].pc \in Held /\ th[t].cur = i

\* Nothing of the intent is at Futu or on its way there.
Clean(i) == OrdersOf(i) = {} /\ \A t \in Thread : ~Holds(t, i)

\* A thread that holds an intent is the only one.  When it sends it, nothing was
\* sent before; when it was refused, nothing came of it.
SendersAlone ==
  \A t \in Thread : th[t].pc \in Held =>
    /\ th[t].pc \in Untold => OrdersOf(th[t].cur) = {}
    /\ \A u \in Thread : Holds(u, th[t].cur) => u = t

\* An intent that still waits in the queue, or was withdrawn, was never sent;
\* of one that was refused, Futu has no order.
Refused == {"REJECTED", "SUBMISSION_FAILED", "SUPERSEDED"}
Withheld == Unsent \cup Refused
WithheldIsClean == \A i \in Intent : intent[i].status \in Withheld => Clean(i)

\* What was sent was due: an intent of a later session, which a submission may
\* queue again, was not.
SentIsDue == \A i \in Intent : Clean(i) \/ Leg[i].session <= Day(now)

OneOrder == SendersAlone /\ WithheldIsClean /\ SentIsDue /\ AtMostOneOrder

-----------------------------------------------------------------------------
(* Dependencies.                                                           *)

HasFilled(i) == \E o \in OrdersOf(i) : broker[o].status = "FILLED_ALL"

\* The store calls an intent filled only if Futu filled its order.
FilledIsFilled == \A i \in Intent : intent[i].status = "FILLED_ALL" => HasFilled(i)

\* A dependent leg is in the queue or beyond only if its dependency was filled.
QueuedAfterFill ==
  \A i \in Intent :
    Leg[i].dependency # None /\ (intent[i].status = "PENDING_SUBMIT" \/ ~Clean(i))
      => HasFilled(Leg[i].dependency)

FillsFirst == FilledIsFilled /\ QueuedAfterFill

-----------------------------------------------------------------------------
\* The inductive invariant.
Inv ==
  /\ StoreInv /\ WorldOK /\ ThreadsOK /\ ThreadsRely
  /\ BookedFillsExist /\ OneOrder /\ FillsFirst

-----------------------------------------------------------------------------
(* Frames.  One field after the other: an update of a frame is a frame.    *)

\* A thread goes to another point.
WithPc(f, p) == [f EXCEPT !.pc = p]
IsPc(g, f, p) ==
  /\ g \in Frame
  /\ g.pc = p /\ g.job = f.job /\ g.arg = f.arg /\ g.moment = f.moment /\ g.snap = f.snap
  /\ g.todo = f.todo /\ g.cur = f.cur /\ g.ord = f.ord /\ g.prev = f.prev /\ g.next = f.next
LEMMA PcFrame ==
  ASSUME NEW f \in Frame, NEW p \in PC
  PROVE  IsPc(WithPc(f, p), f, p)
  BY DEF Frame, WithPc, IsPc

\* It leaves something out.
WithTodo(f, T) == [f EXCEPT !.todo = T]
IsTodo(g, f, T) ==
  /\ g \in Frame
  /\ g.pc = f.pc /\ g.job = f.job /\ g.arg = f.arg /\ g.moment = f.moment /\ g.snap = f.snap
  /\ g.todo = T /\ g.cur = f.cur /\ g.ord = f.ord /\ g.prev = f.prev /\ g.next = f.next
LEMMA TodoFrame ==
  ASSUME NEW f \in Frame, NEW T \in SUBSET (Intent \cup OrderId \cup Account)
  PROVE  IsTodo(WithTodo(f, T), f, T)
  BY DEF Frame, WithTodo, IsTodo

\* It has looked at an account.
WithTouched(f, A) == [f EXCEPT !.touched = A]
IsTouched(g, f) ==
  /\ g \in Frame
  /\ g.pc = f.pc /\ g.job = f.job /\ g.arg = f.arg /\ g.moment = f.moment /\ g.snap = f.snap
  /\ g.todo = f.todo /\ g.cur = f.cur /\ g.ord = f.ord /\ g.prev = f.prev /\ g.next = f.next
LEMMA TouchedFrame ==
  ASSUME NEW f \in Frame, NEW A \in SUBSET Account
  PROVE  IsTouched(WithTouched(f, A), f)
  BY DEF Frame, WithTouched, IsTouched

\* It blocks an account, or comes back from that.
WithBlock(f, p, c, e, k) == [f EXCEPT !.pc = p, !.cur = c, !.err = e, !.next = k]
IsBlock(g, f, p, c, k) ==
  /\ g \in Frame
  /\ g.pc = p /\ g.job = f.job /\ g.arg = f.arg /\ g.moment = f.moment /\ g.snap = f.snap
  /\ g.todo = f.todo /\ g.cur = c /\ g.ord = f.ord /\ g.prev = f.prev /\ g.next = k
LEMMA BlockFrame ==
  ASSUME NEW f \in Frame, NEW p \in PC, NEW c \in Intent \cup Account \cup {None},
         NEW e \in Error, NEW k \in PC
  PROVE  IsBlock(WithBlock(f, p, c, e, k), f, p, c, k)
  <1> DEFINE g1 == [f EXCEPT !.pc = p]
  <1> DEFINE g2 == [g1 EXCEPT !.cur = c]
  <1> DEFINE g3 == [g2 EXCEPT !.err = e]
  <1> DEFINE g4 == [g3 EXCEPT !.next = k]
  <1>1. g1 \in Frame
    BY DEF Frame
  <1> HIDE DEF g1
  <1>2. g2 \in Frame
    BY <1>1 DEF Frame
  <1> HIDE DEF g2
  <1>3. g3 \in Frame
    BY <1>2 DEF Frame
  <1> HIDE DEF g3
  <1>4. g4 \in Frame
    BY <1>3 DEF Frame
  <1> HIDE DEF g4
  <1>5. g4 = WithBlock(f, p, c, e, k)
    BY DEF WithBlock, g1, g2, g3, g4
  <1>6. WithBlock(f, p, c, e, k) \in Frame
    BY <1>4, <1>5
  <1> QED
    BY <1>6 DEF Frame, WithBlock, IsBlock

\* It blocks the account of an intent it has dealt with.
WithDrop(f, p, c, e, k, T) == [f EXCEPT !.pc = p, !.cur = c, !.err = e, !.next = k, !.todo = T]
IsDrop(g, f, p, c, k, T) ==
  /\ g \in Frame
  /\ g.pc = p /\ g.job = f.job /\ g.arg = f.arg /\ g.moment = f.moment /\ g.snap = f.snap
  /\ g.todo = T /\ g.cur = c /\ g.ord = f.ord /\ g.prev = f.prev /\ g.next = k
LEMMA DropFrame ==
  ASSUME NEW f \in Frame, NEW p \in PC, NEW c \in Intent \cup Account \cup {None},
         NEW e \in Error, NEW k \in PC, NEW T \in SUBSET (Intent \cup OrderId \cup Account)
  PROVE  IsDrop(WithDrop(f, p, c, e, k, T), f, p, c, k, T)
  <1> DEFINE g1 == [f EXCEPT !.pc = p]
  <1> DEFINE g2 == [g1 EXCEPT !.cur = c]
  <1> DEFINE g3 == [g2 EXCEPT !.err = e]
  <1> DEFINE g4 == [g3 EXCEPT !.next = k]
  <1> DEFINE g5 == [g4 EXCEPT !.todo = T]
  <1>1. g1 \in Frame
    BY DEF Frame
  <1> HIDE DEF g1
  <1>2. g2 \in Frame
    BY <1>1 DEF Frame
  <1> HIDE DEF g2
  <1>3. g3 \in Frame
    BY <1>2 DEF Frame
  <1> HIDE DEF g3
  <1>4. g4 \in Frame
    BY <1>3 DEF Frame
  <1> HIDE DEF g4
  <1>5. g5 \in Frame
    BY <1>4 DEF Frame
  <1> HIDE DEF g5
  <1>6. g5 = WithDrop(f, p, c, e, k, T)
    BY DEF WithDrop, g1, g2, g3, g4, g5
  <1>7. WithDrop(f, p, c, e, k, T) \in Frame
    BY <1>5, <1>6
  <1> QED
    BY <1>7 DEF Frame, WithDrop, IsDrop

\* It blocks the account of an intent that was rejected.
WithReject(f, p, e, k, b) == [f EXCEPT !.pc = p, !.err = e, !.next = k, !.failed = b]
IsReject(g, f, p, k) ==
  /\ g \in Frame
  /\ g.pc = p /\ g.job = f.job /\ g.arg = f.arg /\ g.moment = f.moment /\ g.snap = f.snap
  /\ g.todo = f.todo /\ g.cur = f.cur /\ g.ord = f.ord /\ g.prev = f.prev /\ g.next = k
LEMMA RejectFrame ==
  ASSUME NEW f \in Frame, NEW p \in PC, NEW e \in Error, NEW k \in PC, NEW b \in BOOLEAN
  PROVE  IsReject(WithReject(f, p, e, k, b), f, p, k)
  <1> DEFINE g1 == [f EXCEPT !.pc = p]
  <1> DEFINE g2 == [g1 EXCEPT !.err = e]
  <1> DEFINE g3 == [g2 EXCEPT !.next = k]
  <1> DEFINE g4 == [g3 EXCEPT !.failed = b]
  <1>1. g1 \in Frame
    BY DEF Frame
  <1> HIDE DEF g1
  <1>2. g2 \in Frame
    BY <1>1 DEF Frame
  <1> HIDE DEF g2
  <1>3. g3 \in Frame
    BY <1>2 DEF Frame
  <1> HIDE DEF g3
  <1>4. g4 \in Frame
    BY <1>3 DEF Frame
  <1> HIDE DEF g4
  <1>5. g4 = WithReject(f, p, e, k, b)
    BY DEF WithReject, g1, g2, g3, g4
  <1>6. WithReject(f, p, e, k, b) \in Frame
    BY <1>4, <1>5
  <1> QED
    BY <1>6 DEF Frame, WithReject, IsReject

\* It asks for orders,
WithSnap(f, p, S) == [f EXCEPT !.pc = p, !.snap = S]
IsSnap(g, f, p, S) ==
  /\ g \in Frame
  /\ g.pc = p /\ g.job = f.job /\ g.arg = f.arg /\ g.moment = f.moment /\ g.snap = S
  /\ g.todo = f.todo /\ g.cur = f.cur /\ g.ord = f.ord /\ g.prev = f.prev /\ g.next = f.next
LEMMA SnapFrame ==
  ASSUME NEW f \in Frame, NEW p \in PC, NEW S \in [OrderId -> OrderRow \cup {None}]
  PROVE  IsSnap(WithSnap(f, p, S), f, p, S)
  <1> DEFINE g1 == [f EXCEPT !.pc = p]
  <1> DEFINE g2 == [g1 EXCEPT !.snap = S]
  <1>1. g1 \in Frame
    BY DEF Frame
  <1> HIDE DEF g1
  <1>2. g2 \in Frame
    BY <1>1 DEF Frame
  <1> HIDE DEF g2
  <1>3. g2 = WithSnap(f, p, S)
    BY DEF WithSnap, g1, g2
  <1>4. WithSnap(f, p, S) \in Frame
    BY <1>2, <1>3
  <1> QED
    BY <1>4 DEF Frame, WithSnap, IsSnap

\* for more orders,
WithOrders(f, p, S, T) == [f EXCEPT !.pc = p, !.snap = S, !.todo = T]
IsOrders(g, f, p, S, T) ==
  /\ g \in Frame
  /\ g.pc = p /\ g.job = f.job /\ g.arg = f.arg /\ g.moment = f.moment /\ g.snap = S
  /\ g.todo = T /\ g.cur = f.cur /\ g.ord = f.ord /\ g.prev = f.prev /\ g.next = f.next
LEMMA OrdersFrame ==
  ASSUME NEW f \in Frame, NEW p \in PC, NEW S \in [OrderId -> OrderRow \cup {None}],
         NEW T \in SUBSET (Intent \cup OrderId \cup Account)
  PROVE  IsOrders(WithOrders(f, p, S, T), f, p, S, T)
  <1> DEFINE g1 == [f EXCEPT !.pc = p]
  <1> DEFINE g2 == [g1 EXCEPT !.snap = S]
  <1> DEFINE g3 == [g2 EXCEPT !.todo = T]
  <1>1. g1 \in Frame
    BY DEF Frame
  <1> HIDE DEF g1
  <1>2. g2 \in Frame
    BY <1>1 DEF Frame
  <1> HIDE DEF g2
  <1>3. g3 \in Frame
    BY <1>2 DEF Frame
  <1> HIDE DEF g3
  <1>4. g3 = WithOrders(f, p, S, T)
    BY DEF WithOrders, g1, g2, g3
  <1>5. WithOrders(f, p, S, T) \in Frame
    BY <1>3, <1>4
  <1> QED
    BY <1>5 DEF Frame, WithOrders, IsOrders

\* and takes one of them.
WithLook(f, p, o, T, v) == [f EXCEPT !.pc = p, !.ord = o, !.todo = T, !.prev = v]
IsLook(g, f, p, o, T, v) ==
  /\ g \in Frame
  /\ g.pc = p /\ g.job = f.job /\ g.arg = f.arg /\ g.moment = f.moment /\ g.snap = f.snap
  /\ g.todo = T /\ g.cur = f.cur /\ g.ord = o /\ g.prev = v /\ g.next = f.next
LEMMA LookFrame ==
  ASSUME NEW f \in Frame, NEW p \in PC, NEW o \in OrderId \cup {None},
         NEW T \in SUBSET (Intent \cup OrderId \cup Account), NEW v \in IntentStatus
  PROVE  IsLook(WithLook(f, p, o, T, v), f, p, o, T, v)
  <1> DEFINE g1 == [f EXCEPT !.pc = p]
  <1> DEFINE g2 == [g1 EXCEPT !.ord = o]
  <1> DEFINE g3 == [g2 EXCEPT !.todo = T]
  <1> DEFINE g4 == [g3 EXCEPT !.prev = v]
  <1>1. g1 \in Frame
    BY DEF Frame
  <1> HIDE DEF g1
  <1>2. g2 \in Frame
    BY <1>1 DEF Frame
  <1> HIDE DEF g2
  <1>3. g3 \in Frame
    BY <1>2 DEF Frame
  <1> HIDE DEF g3
  <1>4. g4 \in Frame
    BY <1>3 DEF Frame
  <1> HIDE DEF g4
  <1>5. g4 = WithLook(f, p, o, T, v)
    BY DEF WithLook, g1, g2, g3, g4
  <1>6. WithLook(f, p, o, T, v) \in Frame
    BY <1>4, <1>5
  <1> QED
    BY <1>6 DEF Frame, WithLook, IsLook

\* It looks for orders to cancel,
WithScan(f, p, o, v, T) == [f EXCEPT !.pc = p, !.ord = o, !.prev = v, !.todo = T]
IsScan(g, f, p, o, v, T) ==
  /\ g \in Frame
  /\ g.pc = p /\ g.job = f.job /\ g.arg = f.arg /\ g.moment = f.moment /\ g.snap = f.snap
  /\ g.todo = T /\ g.cur = f.cur /\ g.ord = o /\ g.prev = v /\ g.next = f.next
LEMMA ScanFrame ==
  ASSUME NEW f \in Frame, NEW p \in PC, NEW o \in OrderId \cup {None}, NEW v \in IntentStatus,
         NEW T \in SUBSET (Intent \cup OrderId \cup Account)
  PROVE  IsScan(WithScan(f, p, o, v, T), f, p, o, v, T)
  <1> DEFINE g1 == [f EXCEPT !.pc = p]
  <1> DEFINE g2 == [g1 EXCEPT !.ord = o]
  <1> DEFINE g3 == [g2 EXCEPT !.prev = v]
  <1> DEFINE g4 == [g3 EXCEPT !.todo = T]
  <1>1. g1 \in Frame
    BY DEF Frame
  <1> HIDE DEF g1
  <1>2. g2 \in Frame
    BY <1>1 DEF Frame
  <1> HIDE DEF g2
  <1>3. g3 \in Frame
    BY <1>2 DEF Frame
  <1> HIDE DEF g3
  <1>4. g4 \in Frame
    BY <1>3 DEF Frame
  <1> HIDE DEF g4
  <1>5. g4 = WithScan(f, p, o, v, T)
    BY DEF WithScan, g1, g2, g3, g4
  <1>6. WithScan(f, p, o, v, T) \in Frame
    BY <1>4, <1>5
  <1> QED
    BY <1>6 DEF Frame, WithScan, IsScan

\* and cancels one.
WithCancel(f, p, c, T) == [f EXCEPT !.pc = p, !.cur = c, !.todo = T]
IsCancel(g, f, p, c, T) ==
  /\ g \in Frame
  /\ g.pc = p /\ g.job = f.job /\ g.arg = f.arg /\ g.moment = f.moment /\ g.snap = f.snap
  /\ g.todo = T /\ g.cur = c /\ g.ord = f.ord /\ g.prev = f.prev /\ g.next = f.next
LEMMA CancelFrame ==
  ASSUME NEW f \in Frame, NEW p \in PC, NEW c \in Intent \cup Account \cup {None},
         NEW T \in SUBSET (Intent \cup OrderId \cup Account)
  PROVE  IsCancel(WithCancel(f, p, c, T), f, p, c, T)
  <1> DEFINE g1 == [f EXCEPT !.pc = p]
  <1> DEFINE g2 == [g1 EXCEPT !.cur = c]
  <1> DEFINE g3 == [g2 EXCEPT !.todo = T]
  <1>1. g1 \in Frame
    BY DEF Frame
  <1> HIDE DEF g1
  <1>2. g2 \in Frame
    BY <1>1 DEF Frame
  <1> HIDE DEF g2
  <1>3. g3 \in Frame
    BY <1>2 DEF Frame
  <1> HIDE DEF g3
  <1>4. g3 = WithCancel(f, p, c, T)
    BY DEF WithCancel, g1, g2, g3
  <1>5. WithCancel(f, p, c, T) \in Frame
    BY <1>3, <1>4
  <1> QED
    BY <1>5 DEF Frame, WithCancel, IsCancel

\* It asks for the position.
WithHeld(f, p, n) == [f EXCEPT !.pc = p, !.held = n]
IsHeld(g, f, p) ==
  /\ g \in Frame
  /\ g.pc = p /\ g.job = f.job /\ g.arg = f.arg /\ g.moment = f.moment /\ g.snap = f.snap
  /\ g.todo = f.todo /\ g.cur = f.cur /\ g.ord = f.ord /\ g.prev = f.prev /\ g.next = f.next
LEMMA HeldFrame ==
  ASSUME NEW f \in Frame, NEW p \in PC, NEW n \in Int
  PROVE  IsHeld(WithHeld(f, p, n), f, p)
  <1> DEFINE g1 == [f EXCEPT !.pc = p]
  <1> DEFINE g2 == [g1 EXCEPT !.held = n]
  <1>1. g1 \in Frame
    BY DEF Frame
  <1> HIDE DEF g1
  <1>2. g2 \in Frame
    BY <1>1 DEF Frame
  <1> HIDE DEF g2
  <1>3. g2 = WithHeld(f, p, n)
    BY DEF WithHeld, g1, g2
  <1>4. WithHeld(f, p, n) \in Frame
    BY <1>2, <1>3
  <1> QED
    BY <1>4 DEF Frame, WithHeld, IsHeld

\* It looks for accounts to unblock,
WithRecover(f, p, S, n, T) == [f EXCEPT !.pc = p, !.snap = S, !.held = n, !.todo = T]
IsRecover(g, f, p, S, T) ==
  /\ g \in Frame
  /\ g.pc = p /\ g.job = f.job /\ g.arg = f.arg /\ g.moment = f.moment /\ g.snap = S
  /\ g.todo = T /\ g.cur = f.cur /\ g.ord = f.ord /\ g.prev = f.prev /\ g.next = f.next
LEMMA RecoverFrame ==
  ASSUME NEW f \in Frame, NEW p \in PC, NEW S \in [OrderId -> OrderRow \cup {None}],
         NEW n \in Int, NEW T \in SUBSET (Intent \cup OrderId \cup Account)
  PROVE  IsRecover(WithRecover(f, p, S, n, T), f, p, S, T)
  <1> DEFINE g1 == [f EXCEPT !.pc = p]
  <1> DEFINE g2 == [g1 EXCEPT !.snap = S]
  <1> DEFINE g3 == [g2 EXCEPT !.held = n]
  <1> DEFINE g4 == [g3 EXCEPT !.todo = T]
  <1>1. g1 \in Frame
    BY DEF Frame
  <1> HIDE DEF g1
  <1>2. g2 \in Frame
    BY <1>1 DEF Frame
  <1> HIDE DEF g2
  <1>3. g3 \in Frame
    BY <1>2 DEF Frame
  <1> HIDE DEF g3
  <1>4. g4 \in Frame
    BY <1>3 DEF Frame
  <1> HIDE DEF g4
  <1>5. g4 = WithRecover(f, p, S, n, T)
    BY DEF WithRecover, g1, g2, g3, g4
  <1>6. WithRecover(f, p, S, n, T) \in Frame
    BY <1>4, <1>5
  <1> QED
    BY <1>6 DEF Frame, WithRecover, IsRecover

\* and takes one, or an intent that may be due.
WithTake(f, T, p, c) == [f EXCEPT !.todo = T, !.pc = p, !.cur = c]
IsTake(g, f, T, p, c) ==
  /\ g \in Frame
  /\ g.pc = p /\ g.job = f.job /\ g.arg = f.arg /\ g.moment = f.moment /\ g.snap = f.snap
  /\ g.todo = T /\ g.cur = c /\ g.ord = f.ord /\ g.prev = f.prev /\ g.next = f.next
LEMMA TakeFrame ==
  ASSUME NEW f \in Frame, NEW T \in SUBSET (Intent \cup OrderId \cup Account), NEW p \in PC,
         NEW c \in Intent \cup Account \cup {None}
  PROVE  IsTake(WithTake(f, T, p, c), f, T, p, c)
  <1> DEFINE g1 == [f EXCEPT !.todo = T]
  <1> DEFINE g2 == [g1 EXCEPT !.pc = p]
  <1> DEFINE g3 == [g2 EXCEPT !.cur = c]
  <1>1. g1 \in Frame
    BY DEF Frame
  <1> HIDE DEF g1
  <1>2. g2 \in Frame
    BY <1>1 DEF Frame
  <1> HIDE DEF g2
  <1>3. g3 \in Frame
    BY <1>2 DEF Frame
  <1> HIDE DEF g3
  <1>4. g3 = WithTake(f, T, p, c)
    BY DEF WithTake, g1, g2, g3
  <1>5. WithTake(f, T, p, c) \in Frame
    BY <1>3, <1>4
  <1> QED
    BY <1>5 DEF Frame, WithTake, IsTake

\* It begins another loop.
WithLoop(f, p, T) == [f EXCEPT !.pc = p, !.todo = T]
IsLoop(g, f, p, T) ==
  /\ g \in Frame
  /\ g.pc = p /\ g.job = f.job /\ g.arg = f.arg /\ g.moment = f.moment /\ g.snap = f.snap
  /\ g.todo = T /\ g.cur = f.cur /\ g.ord = f.ord /\ g.prev = f.prev /\ g.next = f.next
LEMMA LoopFrame ==
  ASSUME NEW f \in Frame, NEW p \in PC, NEW T \in SUBSET (Intent \cup OrderId \cup Account)
  PROVE  IsLoop(WithLoop(f, p, T), f, p, T)
  <1> DEFINE g1 == [f EXCEPT !.pc = p]
  <1> DEFINE g2 == [g1 EXCEPT !.todo = T]
  <1>1. g1 \in Frame
    BY DEF Frame
  <1> HIDE DEF g1
  <1>2. g2 \in Frame
    BY <1>1 DEF Frame
  <1> HIDE DEF g2
  <1>3. g2 = WithLoop(f, p, T)
    BY DEF WithLoop, g1, g2
  <1>4. WithLoop(f, p, T) \in Frame
    BY <1>2, <1>3
  <1> QED
    BY <1>4 DEF Frame, WithLoop, IsLoop

\* It has queued an intent again.
WithRequeue(f, T, A) == [f EXCEPT !.todo = T, !.touched = A]
IsRequeue(g, f, T) ==
  /\ g \in Frame
  /\ g.pc = f.pc /\ g.job = f.job /\ g.arg = f.arg /\ g.moment = f.moment /\ g.snap = f.snap
  /\ g.todo = T /\ g.cur = f.cur /\ g.ord = f.ord /\ g.prev = f.prev /\ g.next = f.next
LEMMA RequeueFrame ==
  ASSUME NEW f \in Frame, NEW T \in SUBSET (Intent \cup OrderId \cup Account),
         NEW A \in SUBSET Account
  PROVE  IsRequeue(WithRequeue(f, T, A), f, T)
  <1> DEFINE g1 == [f EXCEPT !.todo = T]
  <1> DEFINE g2 == [g1 EXCEPT !.touched = A]
  <1>1. g1 \in Frame
    BY DEF Frame
  <1> HIDE DEF g1
  <1>2. g2 \in Frame
    BY <1>1 DEF Frame
  <1> HIDE DEF g2
  <1>3. g2 = WithRequeue(f, T, A)
    BY DEF WithRequeue, g1, g2
  <1>4. WithRequeue(f, T, A) \in Frame
    BY <1>2, <1>3
  <1> QED
    BY <1>4 DEF Frame, WithRequeue, IsRequeue

\* It goes on to the next intent.
WithNext(f, p, c, o) == [f EXCEPT !.pc = p, !.cur = c, !.ord = o]
IsNext(g, f, p, c, o) ==
  /\ g \in Frame
  /\ g.pc = p /\ g.job = f.job /\ g.arg = f.arg /\ g.moment = f.moment /\ g.snap = f.snap
  /\ g.todo = f.todo /\ g.cur = c /\ g.ord = o /\ g.prev = f.prev /\ g.next = f.next
LEMMA NextFrame ==
  ASSUME NEW f \in Frame, NEW p \in PC, NEW c \in Intent \cup Account \cup {None},
         NEW o \in OrderId \cup {None}
  PROVE  IsNext(WithNext(f, p, c, o), f, p, c, o)
  <1> DEFINE g1 == [f EXCEPT !.pc = p]
  <1> DEFINE g2 == [g1 EXCEPT !.cur = c]
  <1> DEFINE g3 == [g2 EXCEPT !.ord = o]
  <1>1. g1 \in Frame
    BY DEF Frame
  <1> HIDE DEF g1
  <1>2. g2 \in Frame
    BY <1>1 DEF Frame
  <1> HIDE DEF g2
  <1>3. g3 \in Frame
    BY <1>2 DEF Frame
  <1> HIDE DEF g3
  <1>4. g3 = WithNext(f, p, c, o)
    BY DEF WithNext, g1, g2, g3
  <1>5. WithNext(f, p, c, o) \in Frame
    BY <1>3, <1>4
  <1> QED
    BY <1>5 DEF Frame, WithNext, IsNext

\* It has sent an order,
WithSent(f, o, p) == [f EXCEPT !.ord = o, !.pc = p]
IsSent(g, f, o, p) ==
  /\ g \in Frame
  /\ g.pc = p /\ g.job = f.job /\ g.arg = f.arg /\ g.moment = f.moment /\ g.snap = f.snap
  /\ g.todo = f.todo /\ g.cur = f.cur /\ g.ord = o /\ g.prev = f.prev /\ g.next = f.next
LEMMA SentFrame ==
  ASSUME NEW f \in Frame, NEW o \in OrderId \cup {None}, NEW p \in PC
  PROVE  IsSent(WithSent(f, o, p), f, o, p)
  <1> DEFINE g1 == [f EXCEPT !.ord = o]
  <1> DEFINE g2 == [g1 EXCEPT !.pc = p]
  <1>1. g1 \in Frame
    BY DEF Frame
  <1> HIDE DEF g1
  <1>2. g2 \in Frame
    BY <1>1 DEF Frame
  <1> HIDE DEF g2
  <1>3. g2 = WithSent(f, o, p)
    BY DEF WithSent, g1, g2
  <1>4. WithSent(f, o, p) \in Frame
    BY <1>2, <1>3
  <1> QED
    BY <1>4 DEF Frame, WithSent, IsSent

\* or was refused.
WithRefused(f, p, v) == [f EXCEPT !.pc = p, !.prev = v]
IsRefused(g, f, p, v) ==
  /\ g \in Frame
  /\ g.pc = p /\ g.job = f.job /\ g.arg = f.arg /\ g.moment = f.moment /\ g.snap = f.snap
  /\ g.todo = f.todo /\ g.cur = f.cur /\ g.ord = f.ord /\ g.prev = v /\ g.next = f.next
LEMMA RefusedFrame ==
  ASSUME NEW f \in Frame, NEW p \in PC, NEW v \in IntentStatus
  PROVE  IsRefused(WithRefused(f, p, v), f, p, v)
  <1> DEFINE g1 == [f EXCEPT !.pc = p]
  <1> DEFINE g2 == [g1 EXCEPT !.prev = v]
  <1>1. g1 \in Frame
    BY DEF Frame
  <1> HIDE DEF g1
  <1>2. g2 \in Frame
    BY <1>1 DEF Frame
  <1> HIDE DEF g2
  <1>3. g2 = WithRefused(f, p, v)
    BY DEF WithRefused, g1, g2
  <1>4. WithRefused(f, p, v) \in Frame
    BY <1>2, <1>3
  <1> QED
    BY <1>4 DEF Frame, WithRefused, IsRefused

\* It begins an operation,
WithBegin(f, p, j, x, m, T) == [f EXCEPT !.pc = p, !.job = j, !.arg = x, !.moment = m, !.todo = T]
IsBegin(g, f, p, j, x, m, T) ==
  /\ g \in Frame
  /\ g.pc = p /\ g.job = j /\ g.arg = x /\ g.moment = m /\ g.snap = f.snap /\ g.todo = T
  /\ g.cur = f.cur /\ g.ord = f.ord /\ g.prev = f.prev /\ g.next = f.next
LEMMA BeginFrame ==
  ASSUME NEW f \in Frame, NEW p \in PC, NEW j \in Job \cup {"none"},
         NEW x \in Intent \cup Decision \cup {None}, NEW m \in Nat,
         NEW T \in SUBSET (Intent \cup OrderId \cup Account)
  PROVE  IsBegin(WithBegin(f, p, j, x, m, T), f, p, j, x, m, T)
  <1> DEFINE g1 == [f EXCEPT !.pc = p]
  <1> DEFINE g2 == [g1 EXCEPT !.job = j]
  <1> DEFINE g3 == [g2 EXCEPT !.arg = x]
  <1> DEFINE g4 == [g3 EXCEPT !.moment = m]
  <1> DEFINE g5 == [g4 EXCEPT !.todo = T]
  <1>1. g1 \in Frame
    BY DEF Frame
  <1> HIDE DEF g1
  <1>2. g2 \in Frame
    BY <1>1 DEF Frame
  <1> HIDE DEF g2
  <1>3. g3 \in Frame
    BY <1>2 DEF Frame
  <1> HIDE DEF g3
  <1>4. g4 \in Frame
    BY <1>3 DEF Frame
  <1> HIDE DEF g4
  <1>5. g5 \in Frame
    BY <1>4 DEF Frame
  <1> HIDE DEF g5
  <1>6. g5 = WithBegin(f, p, j, x, m, T)
    BY DEF WithBegin, g1, g2, g3, g4, g5
  <1>7. WithBegin(f, p, j, x, m, T) \in Frame
    BY <1>5, <1>6
  <1> QED
    BY <1>7 DEF Frame, WithBegin, IsBegin

\* its second half,
WithSecond(f, j, x, m, ph, T, p) ==
  [f EXCEPT !.job = j, !.arg = x, !.moment = m, !.phase = ph, !.todo = T, !.pc = p]
IsSecond(g, f, j, x, m, T, p) ==
  /\ g \in Frame
  /\ g.pc = p /\ g.job = j /\ g.arg = x /\ g.moment = m /\ g.snap = f.snap /\ g.todo = T
  /\ g.cur = f.cur /\ g.ord = f.ord /\ g.prev = f.prev /\ g.next = f.next
LEMMA SecondFrame ==
  ASSUME NEW f \in Frame, NEW j \in Job \cup {"none"},
         NEW x \in Intent \cup Decision \cup {None}, NEW m \in Nat,
         NEW ph \in {"refresh", "submit"}, NEW T \in SUBSET (Intent \cup OrderId \cup Account),
         NEW p \in PC
  PROVE  IsSecond(WithSecond(f, j, x, m, ph, T, p), f, j, x, m, T, p)
  <1> DEFINE g1 == [f EXCEPT !.job = j]
  <1> DEFINE g2 == [g1 EXCEPT !.arg = x]
  <1> DEFINE g3 == [g2 EXCEPT !.moment = m]
  <1> DEFINE g4 == [g3 EXCEPT !.phase = ph]
  <1> DEFINE g5 == [g4 EXCEPT !.todo = T]
  <1> DEFINE g6 == [g5 EXCEPT !.pc = p]
  <1>1. g1 \in Frame
    BY DEF Frame
  <1> HIDE DEF g1
  <1>2. g2 \in Frame
    BY <1>1 DEF Frame
  <1> HIDE DEF g2
  <1>3. g3 \in Frame
    BY <1>2 DEF Frame
  <1> HIDE DEF g3
  <1>4. g4 \in Frame
    BY <1>3 DEF Frame
  <1> HIDE DEF g4
  <1>5. g5 \in Frame
    BY <1>4 DEF Frame
  <1> HIDE DEF g5
  <1>6. g6 \in Frame
    BY <1>5 DEF Frame
  <1> HIDE DEF g6
  <1>7. g6 = WithSecond(f, j, x, m, ph, T, p)
    BY DEF WithSecond, g1, g2, g3, g4, g5, g6
  <1>8. WithSecond(f, j, x, m, ph, T, p) \in Frame
    BY <1>6, <1>7
  <1> QED
    BY <1>8 DEF Frame, WithSecond, IsSecond

\* or the drive of a decision.
WithDrive(f, p, j, x, b) == [f EXCEPT !.pc = p, !.job = j, !.arg = x, !.failed = b]
IsDrive(g, f, p, j, x) ==
  /\ g \in Frame
  /\ g.pc = p /\ g.job = j /\ g.arg = x /\ g.moment = f.moment /\ g.snap = f.snap
  /\ g.todo = f.todo /\ g.cur = f.cur /\ g.ord = f.ord /\ g.prev = f.prev /\ g.next = f.next
LEMMA DriveFrame ==
  ASSUME NEW f \in Frame, NEW p \in PC, NEW j \in Job \cup {"none"},
         NEW x \in Intent \cup Decision \cup {None}, NEW b \in BOOLEAN
  PROVE  IsDrive(WithDrive(f, p, j, x, b), f, p, j, x)
  <1> DEFINE g1 == [f EXCEPT !.pc = p]
  <1> DEFINE g2 == [g1 EXCEPT !.job = j]
  <1> DEFINE g3 == [g2 EXCEPT !.arg = x]
  <1> DEFINE g4 == [g3 EXCEPT !.failed = b]
  <1>1. g1 \in Frame
    BY DEF Frame
  <1> HIDE DEF g1
  <1>2. g2 \in Frame
    BY <1>1 DEF Frame
  <1> HIDE DEF g2
  <1>3. g3 \in Frame
    BY <1>2 DEF Frame
  <1> HIDE DEF g3
  <1>4. g4 \in Frame
    BY <1>3 DEF Frame
  <1> HIDE DEF g4
  <1>5. g4 = WithDrive(f, p, j, x, b)
    BY DEF WithDrive, g1, g2, g3, g4
  <1>6. WithDrive(f, p, j, x, b) \in Frame
    BY <1>4, <1>5
  <1> QED
    BY <1>6 DEF Frame, WithDrive, IsDrive

-----------------------------------------------------------------------------
(* How a step may change what the others rely on.                          *)

\* A thread between two operations relies on nothing.
LEMMA IdleFrame == Idle \in Frame /\ Relies(Idle)
  <1>1. Idle \in Frame
    BY DEF Idle, Frame, PC, NoSnap, IntentStatus, Unsent, Error
  <1>2. Relies(Idle)
    BY DEF Idle, NoSnap, Relies, WorkIsReal, HandIsReal, SnapIsPast, SameDay, PastIsExpired, Loop, InOrders,
           InCancel, InRecover, InPending
  <1> QED
    BY <1>1, <1>2

\* The thread that was refused puts the intent down.
Refusing(i) ==
  \E t \in Thread : th[t].pc = "reject" /\ th[t].cur = i /\ th'[t].pc \notin Held

\* How the status of an intent may change.
Lawful(i) ==
  /\ Created(i) => Created(i)'
  /\ intent[i].order # None => intent'[i].order # None
  /\ intent[i].status \in Refused => intent'[i].status = intent[i].status
  /\ intent'[i].status \in Withheld =>
       intent[i].status \in Withheld \/ Leg[i].session > Day(now) \/ Refusing(i)
  /\ intent'[i].status = "PENDING_SUBMIT" =>
       intent[i].status = "PENDING_SUBMIT" \/ Leg[i].session >= Day(now)
  /\ Leg[i].dependency # None /\ intent'[i].status = "PENDING_SUBMIT" =>
       intent[i].status = "PENDING_SUBMIT" \/ HasFilled(Leg[i].dependency)
  /\ intent'[i].status = "FILLED_ALL" => intent[i].status = "FILLED_ALL" \/ HasFilled(i)

\* The store makes one of its steps, and books what Futu holds.
StoreTame ==
  /\ [StoreNext]_storeVars
  /\ \A i \in Intent : Lawful(i)
  /\ \A o \in OrderId : order[o] # None => order'[o] # None
  /\ \A o \in OrderId : order'[o] # None =>
       /\ broker[o] # None /\ broker[o].intent = order'[o].intent
       /\ order'[o].filled <= broker[o].filled

\* Orders at Futu get on.
OrdersGrow ==
  /\ broker' \in [OrderId -> OrderRow \cup {None}]
  /\ \A o \in OrderId : broker[o] # None => Becomes(broker[o], broker'[o])

\* Becoming is a preorder.
LEMMA BecomesTransitive ==
  ASSUME NEW x \in OrderRow, NEW y \in OrderRow, NEW z \in OrderRow,
         Becomes(x, y), Becomes(y, z)
  PROVE  Becomes(x, z)
  BY DEF Becomes, OrderRow

LEMMA BecomesReflexive ==
  ASSUME NEW x \in OrderRow
  PROVE  Becomes(x, x)
  BY NoneAssumption DEF Becomes, OrderRow

\* What a thread relies on survives the steps of the others.
LEMMA ReliesKept ==
  ASSUME NEW f \in Frame, Relies(f), WorldOK, StoreTame, OrdersGrow, now' = now
  PROVE  Relies(f)'
  <1>1. WorkIsReal(f)'
    <2>1. \A i \in Intent : /\ Created(i) => Created(i)'
                            /\ intent[i].order # None => intent'[i].order # None
      BY DEF StoreTame, Lawful
    <2> QED
      BY <2>1 DEF Relies, WorkIsReal
  <1>2. HandIsReal(f)'
    <2>1. f.pc \in {"cancelMark", "send", "placed", "uncertain", "reject"} =>
            f.cur \in Intent /\ Created(f.cur)'
      BY DEF StoreTame, Lawful, Relies, HandIsReal
    <2>2. f.pc = "placed" =>
            f.ord \in OrderId /\ broker'[f.ord] # None /\ broker'[f.ord].intent = f.cur
      BY DEF OrdersGrow, Becomes, Relies, HandIsReal
    <2>3. f.pc \in {"fill", "report", "settle"} => order'[f.ord] # None
      BY DEF StoreTame, Relies, HandIsReal
    <2>4. f.pc = "cancelMark" => intent'[f.cur].order # None
      BY DEF StoreTame, Lawful, Relies, HandIsReal
    <2>5. f.pc \in {"save", "create"} =>
            f.arg \in Decision /\ \A i \in LegsOf(f.arg) : Leg[i].session >= Day(now')
      BY DEF Relies, HandIsReal
    <2> QED
      BY <2>1, <2>2, <2>3, <2>4, <2>5 DEF Relies, HandIsReal
  <1>3. SnapIsPast(f)'
    <2> SUFFICES ASSUME NEW o \in OrderId, f.snap[o] # None
                 PROVE  Becomes(f.snap[o], broker'[o])
      BY DEF SnapIsPast
    <2>1. f.snap[o] \in OrderRow
      BY DEF Frame
    <2>2. Becomes(f.snap[o], broker[o])
      BY DEF Relies, SnapIsPast
    <2>3. broker[o] \in OrderRow
      BY <2>2 DEF WorldOK, Becomes
    <2>4. Becomes(broker[o], broker'[o])
      BY <2>2 DEF OrdersGrow, Becomes
    <2>5. broker'[o] \in OrderRow
      BY <2>4 DEF OrdersGrow, Becomes
    <2> QED
      BY <2>1, <2>2, <2>3, <2>4, <2>5, BecomesTransitive
  <1>4. SameDay(f)'
    BY DEF Relies, SameDay
  <1>5. PastIsExpired(f)'
    <2>1. \A i \in Intent : Leg[i].session \in Int /\ Day(now) \in Int
      BY LegAssumption, ClockAssumption, BoundAssumption DEF LegType, WorldOK, Day
    <2>2. \A i \in Intent : intent'[i].status = "PENDING_SUBMIT" /\ Leg[i].session < Day(now)
                              => intent[i].status = "PENDING_SUBMIT"
      BY <2>1 DEF StoreTame, Lawful
    <2> QED
      BY <2>2 DEF Relies, PastIsExpired
  <1> QED
    BY <1>1, <1>2, <1>3, <1>4, <1>5 DEF Relies

\* One thread moves on and the others stay where they are.
LEMMA ThreadsGoOn ==
  ASSUME ThreadsOK, ThreadsRely, WorldOK, StoreTame, OrdersGrow, now' = now,
         NEW t \in Thread, NEW g \in Frame, SetFrame(t, g), Relies(g)'
  PROVE  /\ ThreadsOK' /\ ThreadsRely' /\ th'[t] = g
         /\ \A u \in Thread \ {t} : th'[u] = th[u]
  <1>1. th'[t] = g /\ \A u \in Thread \ {t} : th'[u] = th[u]
    BY DEF ThreadsOK, SetFrame
  <1>2. ThreadsOK'
    BY DEF ThreadsOK, SetFrame
  <1>3. ASSUME NEW u \in Thread
        PROVE  Relies(th[u])'
    <2>1. CASE u = t
      BY <2>1, <1>1
    <2>2. CASE u # t
      <3>1. PICK h \in Frame : h = th[u] /\ h = th'[u]
        BY <2>2, <1>1 DEF ThreadsOK
      <3>2. Relies(h)'
        BY <3>1, ReliesKept DEF ThreadsRely
      <3> QED
        BY <3>1, <3>2
    <2> QED
      BY <2>1, <2>2
  <1> QED
    BY <1>1, <1>2, <1>3 DEF ThreadsRely

\* The thread takes no other intent in hand.
KeepsHand(f, g) ==
  g.pc \in Held => f.pc \in Held /\ g.cur = f.cur /\ (g.pc \in Untold => f.pc \in Untold)

\* Nothing is sent, and no thread begins to send.
Quiet ==
  /\ \A o \in OrderId : broker[o] = None => broker'[o] = None
  /\ \A t \in Thread : KeepsHand(th[t], th'[t])

\* A filled order stays filled.
LEMMA FilledStays ==
  ASSUME OrdersGrow, NEW i, HasFilled(i)
  PROVE  HasFilled(i)'
  <1>1. PICK o \in OrdersOf(i) : broker[o].status = "FILLED_ALL"
    BY DEF HasFilled
  <1>2. o \in OrderId /\ broker[o] # None /\ broker[o].intent = i
    BY DEF OrdersOf
  <1>3. broker'[o] = broker[o]
    BY <1>1, <1>2 DEF OrdersGrow, Becomes, TerminalOrder
  <1> QED
    BY <1>1, <1>2, <1>3 DEF HasFilled, OrdersOf

\* The books of the store stay true when orders get on.
LEMMA BookedStays ==
  ASSUME WorldOK, StoreInv', StoreTame, OrdersGrow
  PROVE  BookedFillsExist'
  <1> SUFFICES ASSUME NEW o \in OrderId, order'[o] # None
               PROVE  /\ broker'[o] # None /\ broker'[o].intent = order'[o].intent
                      /\ order'[o].filled <= broker'[o].filled
    BY DEF BookedFillsExist
  <1>1. /\ broker[o] # None /\ broker[o].intent = order'[o].intent
        /\ order'[o].filled <= broker[o].filled
    BY DEF StoreTame
  <1>2. Becomes(broker[o], broker'[o])
    BY <1>1 DEF OrdersGrow
  <1>3. broker[o] \in OrderRow /\ broker'[o] \in OrderRow /\ order'[o] \in OrderRow
    BY <1>1, <1>2 DEF WorldOK, OrdersGrow, Becomes, StoreInv, StoreTypeOK
  <1>4. broker[o].filled \in Int /\ broker'[o].filled \in Int /\ order'[o].filled \in Int
    BY <1>3 DEF OrderRow
  <1> QED
    BY <1>1, <1>2, <1>4 DEF Becomes

\* A step that sends nothing leaves every intent with its orders, and what is
\* clean stays clean.
LEMMA QuietOrders ==
  ASSUME OrdersGrow, Quiet
  PROVE  \A i \in Intent : OrdersOf(i)' = OrdersOf(i) /\ (Clean(i) => Clean(i)')
  <1> SUFFICES ASSUME NEW i \in Intent
               PROVE  OrdersOf(i)' = OrdersOf(i) /\ (Clean(i) => Clean(i)')
    OBVIOUS
  <1>1. OrdersOf(i)' = OrdersOf(i)
    BY DEF OrdersOf, OrdersGrow, Becomes, Quiet
  <1>2. \A t \in Thread : Holds(t, i)' => Holds(t, i)
    BY DEF Quiet, KeepsHand, Holds
  <1> QED
    BY <1>1, <1>2 DEF Clean

\* Such a step keeps intents to one order each.
LEMMA QuietOneOrder ==
  ASSUME WorldOK, ThreadsRely, OneOrder, StoreTame, OrdersGrow, Quiet, now' = now
  PROVE  OneOrder'
  <1>1. SendersAlone'
    <2> SUFFICES ASSUME NEW t \in Thread, th'[t].pc \in Held, NEW i, i = th'[t].cur
                 PROVE  /\ th'[t].pc \in Untold => OrdersOf(i)' = {}
                        /\ \A u \in Thread : Holds(u, i)' => u = t
      BY DEF SendersAlone, OrdersOf, Holds
    <2>1. /\ th[t].pc \in Held /\ th[t].cur = i
          /\ th'[t].pc \in Untold => th[t].pc \in Untold
      BY DEF Quiet, KeepsHand
    <2>2. i \in Intent
      BY <2>1 DEF ThreadsRely, Relies, HandIsReal, Held
    <2>3. /\ th[t].pc \in Untold => OrdersOf(i) = {}
          /\ \A u \in Thread : Holds(u, i) => u = t
      BY <2>1 DEF OneOrder, SendersAlone
    <2>4. OrdersOf(i)' = OrdersOf(i)
      BY <2>2, QuietOrders
    <2>5. \A u \in Thread : Holds(u, i)' => Holds(u, i)
      BY DEF Quiet, KeepsHand, Holds
    <2> QED
      BY <2>1, <2>3, <2>4, <2>5
  <1>2. WithheldIsClean'
    <2> SUFFICES ASSUME NEW i \in Intent, intent'[i].status \in Withheld
                 PROVE  Clean(i)'
      BY DEF WithheldIsClean
    <2>1. intent[i].status \in Withheld \/ Leg[i].session > Day(now) \/ Refusing(i)
      BY DEF StoreTame, Lawful
    <2>2. Leg[i].session \in Nat /\ Day(now) \in Int
      BY LegAssumption, ClockAssumption, BoundAssumption DEF LegType, WorldOK, Day
    <2>3. CASE Clean(i)
      BY <2>3, QuietOrders
    <2>4. CASE Refusing(i)
      <3>1. PICK t \in Thread : th[t].pc = "reject" /\ th[t].cur = i /\ th'[t].pc \notin Held
        BY <2>4 DEF Refusing
      <3>2. OrdersOf(i) = {} /\ \A u \in Thread : Holds(u, i) => u = t
        BY <3>1 DEF OneOrder, SendersAlone, Held, Untold
      <3>3. OrdersOf(i)' = {}
        BY <3>2, QuietOrders
      <3>4. \A u \in Thread : ~Holds(u, i)'
        BY <3>1, <3>2 DEF Quiet, KeepsHand, Holds
      <3> QED
        BY <3>3, <3>4 DEF Clean
    <2> QED
      BY <2>1, <2>2, <2>3, <2>4 DEF OneOrder, WithheldIsClean, SentIsDue
  <1>3. SentIsDue'
    BY QuietOrders DEF OneOrder, SentIsDue
  <1>4. AtMostOneOrder'
    BY DEF OneOrder, AtMostOneOrder, OrdersGrow, Becomes, Quiet
  <1> QED
    BY <1>1, <1>2, <1>3, <1>4 DEF OneOrder

\* And it keeps dependent legs behind the fills they wait for.
LEMMA QuietFillsFirst ==
  ASSUME FillsFirst, StoreTame, OrdersGrow, Quiet
  PROVE  FillsFirst'
  <1>1. FilledIsFilled'
    <2> SUFFICES ASSUME NEW i \in Intent, intent'[i].status = "FILLED_ALL"
                 PROVE  HasFilled(i)'
      BY DEF FilledIsFilled
    <2>1. HasFilled(i)
      BY DEF FillsFirst, FilledIsFilled, StoreTame, Lawful
    <2> QED
      BY <2>1, FilledStays
  <1>2. QueuedAfterFill'
    <2> SUFFICES ASSUME NEW i \in Intent, Leg[i].dependency # None,
                        intent'[i].status = "PENDING_SUBMIT" \/ ~Clean(i)'
                 PROVE  HasFilled(Leg[i].dependency)'
      BY DEF QueuedAfterFill
    <2>1. CASE intent'[i].status = "PENDING_SUBMIT"
      <3>1. HasFilled(Leg[i].dependency)
        BY <2>1 DEF FillsFirst, QueuedAfterFill, StoreTame, Lawful
      <3> QED
        BY <3>1, FilledStays
    <2>2. CASE ~Clean(i)'
      <3>1. ~Clean(i)
        BY <2>2, QuietOrders
      <3>2. HasFilled(Leg[i].dependency)
        BY <3>1 DEF FillsFirst, QueuedAfterFill
      <3> QED
        BY <3>2, FilledStays
    <2> QED
      BY <2>1, <2>2
  <1> QED
    BY <1>1, <1>2 DEF FillsFirst

\* The settings, the clock and the counters.
SettingsOK ==
  /\ channel \in {"NONE", "OK", "BLOCKED"} /\ pausedAll \in BOOLEAN
  /\ up \in {"down", "starting", "serving"}
  /\ now \in 0 .. MaxTime /\ requests \in 0 .. MaxRequests /\ crashes \in 0 .. MaxCrashes

\* What the step may never do to what was refused or withdrawn, and to Futu.
RefusedStay ==
  \A i \in Intent : intent[i].status \in Refused => intent'[i].status = intent[i].status
SentToday ==
  \A o \in OrderId : broker[o] = None /\ broker'[o] # None =>
    Leg[broker'[o].intent].session = Day(now)

\* The step keeps the invariant, is a step of the store alone, and sends nothing
\* out of its session.
Kept == Inv' /\ [StoreNext]_storeVars /\ RefusedStay /\ SentToday

\* What every tame step comes to.
LEMMA TameStep ==
  ASSUME Inv, StoreTame, OrdersGrow, Quiet, SettingsOK', ThreadsOK', ThreadsRely', now' = now
  PROVE  Kept
  <1>1. StoreInv'
    BY StoreStep DEF Inv, StoreTame
  <1>2. BookedFillsExist'
    BY <1>1, BookedStays DEF Inv
  <1>3. OneOrder'
    BY QuietOneOrder DEF Inv
  <1>4. FillsFirst'
    BY QuietFillsFirst DEF Inv
  <1>5. WorldOK'
    BY DEF SettingsOK, OrdersGrow, WorldOK
  <1>6. RefusedStay /\ SentToday
    BY DEF StoreTame, Lawful, RefusedStay, Quiet, SentToday
  <1> QED
    BY <1>1, <1>2, <1>3, <1>4, <1>5, <1>6 DEF Kept, Inv, StoreTame

\* A thread goes on, where what it relies on next is true already,
LEMMA ThreadStep ==
  ASSUME Inv, StoreTame, OrdersGrow, SettingsOK', now' = now,
         \A o \in OrderId : broker[o] = None => broker'[o] = None,
         NEW t \in Thread, NEW g \in Frame, SetFrame(t, g), Relies(g), KeepsHand(th[t], g)
  PROVE  Kept
  <1>1. Relies(g)'
    BY ReliesKept DEF Inv
  <1>2. /\ ThreadsOK' /\ ThreadsRely' /\ th'[t] = g
        /\ \A u \in Thread \ {t} : th'[u] = th[u]
    BY <1>1, ThreadsGoOn DEF Inv
  <1>3. Quiet
    BY <1>2 DEF Quiet, KeepsHand
  <1> QED
    BY <1>2, <1>3, TameStep

\* where its step makes it true,
LEMMA ThreadStepNew ==
  ASSUME Inv, StoreTame, OrdersGrow, SettingsOK', now' = now,
         \A o \in OrderId : broker[o] = None => broker'[o] = None,
         NEW t \in Thread, NEW g \in Frame, SetFrame(t, g), Relies(g)', KeepsHand(th[t], g)
  PROVE  Kept
  <1>1. /\ ThreadsOK' /\ ThreadsRely' /\ th'[t] = g
        /\ \A u \in Thread \ {t} : th'[u] = th[u]
    BY ThreadsGoOn DEF Inv
  <1>2. Quiet
    BY <1>1 DEF Quiet, KeepsHand
  <1> QED
    BY <1>1, <1>2, TameStep

\* where its operation ends,
LEMMA EndStep ==
  ASSUME Inv, StoreTame, OrdersGrow, SettingsOK', now' = now,
         \A o \in OrderId : broker[o] = None => broker'[o] = None,
         NEW t \in Thread, SetFrame(t, Idle)
  PROVE  Kept
  <1>1. Idle \in Frame /\ Relies(Idle) /\ KeepsHand(th[t], Idle)
    BY IdleFrame DEF Idle, KeepsHand, Held
  <1> QED
    BY <1>1, ThreadStep

\* and where no thread moves.
LEMMA StillStep ==
  ASSUME Inv, StoreTame, OrdersGrow, SettingsOK', now' = now, UNCHANGED th,
         \A o \in OrderId : broker[o] = None => broker'[o] = None
  PROVE  Kept
  <1>1. ThreadsOK'
    BY DEF Inv, ThreadsOK
  <1>2. ASSUME NEW u \in Thread
        PROVE  Relies(th[u])'
    <2>1. PICK h \in Frame : h = th[u] /\ h = th'[u]
      BY DEF Inv, ThreadsOK
    <2>2. Relies(h)'
      BY <2>1, ReliesKept DEF Inv, ThreadsRely
    <2> QED
      BY <2>1, <2>2
  <1>3. Quiet
    BY DEF Quiet, KeepsHand
  <1> QED
    BY <1>1, <1>2, <1>3, TameStep DEF ThreadsRely

-----------------------------------------------------------------------------
(* The methods of the store, as the threads call them.                     *)

LEMMA NowIsNat ==
  ASSUME WorldOK
  PROVE  now \in Nat /\ Day(now) \in Int
  BY BoundAssumption, ClockAssumption DEF WorldOK, Day

\* An intent with an order row was sent.
LEMMA OrderedIsSent ==
  ASSUME BookedFillsExist, WithheldIsClean, NEW o \in OrderId, order[o] # None,
         NEW i \in Intent, order[o].intent = i
  PROVE  intent[i].status \notin Withheld /\ intent[i].status \notin Refused
  <1>1. o \in OrdersOf(i)
    BY DEF BookedFillsExist, OrdersOf
  <1> QED
    BY <1>1 DEF WithheldIsClean, Clean, Withheld

\* A method that leaves the orders alone books nothing.
LEMMA NothingBooked ==
  ASSUME BookedFillsExist, order' = order, [StoreNext]_storeVars,
         \A i \in Intent : Lawful(i)
  PROVE  StoreTame
  BY DEF StoreTame, BookedFillsExist

\* One that leaves the intents alone is lawful,
LEMMA SameIntentsLawful ==
  ASSUME \A i \in Intent :
           intent'[i].status = intent[i].status /\ intent'[i].order = intent[i].order
  PROVE  \A i \in Intent : Lawful(i)
  BY DEF Lawful, Created

\* and one that changes an intent is, if it does not put it back or close it
\* without reason.
LEMMA OneIntentLawful ==
  ASSUME NEW i \in Intent, \A j \in Intent \ {i} : intent'[j] = intent[j],
         intent'[i].status # "NONE", intent[i].status \notin Refused,
         intent[i].order # None => intent'[i].order # None,
         intent'[i].status \in Withheld =>
           intent[i].status \in Withheld \/ Leg[i].session > Day(now) \/ Refusing(i),
         intent'[i].status = "PENDING_SUBMIT" => Leg[i].session >= Day(now),
         Leg[i].dependency # None /\ intent'[i].status = "PENDING_SUBMIT" =>
           HasFilled(Leg[i].dependency),
         intent'[i].status = "FILLED_ALL" => HasFilled(i)
  PROVE  \A j \in Intent : Lawful(j)
  BY DEF Lawful, Created

LEMMA StoreStill ==
  ASSUME BookedFillsExist, UNCHANGED storeVars
  PROVE  StoreTame
  BY NothingBooked, SameIntentsLawful DEF storeVars

LEMMA HealthTame ==
  ASSUME BookedFillsExist, NEW a \in Account, NEW h \in {"OK", "BLOCKED"}, NEW e \in Error,
         SetHealth(a, h, e)
  PROVE  StoreTame
  <1>1. StoreNext
    BY DEF StoreNext, AccountStep
  <1>2. order' = order /\ intent' = intent
    BY DEF SetHealth
  <1> QED
    BY <1>1, <1>2, NothingBooked, SameIntentsLawful

LEMMA PausedTame ==
  ASSUME BookedFillsExist, NEW a \in Account, NEW p \in BOOLEAN, SetPaused(a, p)
  PROVE  StoreTame
  <1>1. StoreNext
    BY DEF StoreNext, AccountStep
  <1>2. order' = order /\ intent' = intent
    BY DEF SetPaused
  <1> QED
    BY <1>1, <1>2, NothingBooked, SameIntentsLawful

LEMMA StatusTame ==
  ASSUME StoreInv, BookedFillsExist, NEW i \in Intent, Created(i), intent[i].status \notin Refused,
         NEW s \in KnownOrder \cup {"SUBMISSION_UNCERTAIN"}, s # "FILLED_ALL", SetStatus(i, s)
  PROVE  StoreTame
  <1>1. StoreNext
    BY DEF StoreNext, IntentStep
  <1>2. intent[i] \in IntentRow /\ intent \in [Intent -> IntentRow]
    BY DEF StoreInv, StoreTypeOK
  <1>3. /\ order' = order /\ intent'[i].status = s /\ intent'[i].order = intent[i].order
        /\ \A j \in Intent \ {i} : intent'[j] = intent[j]
    BY <1>2 DEF SetStatus, IntentRow
  <1>4. s \notin Withheld
    BY DEF Withheld, Refused, Unsent, KnownOrder, TerminalOrder, ActiveOrder
  <1>5. \A j \in Intent : Lawful(j)
    BY <1>3, <1>4, OneIntentLawful DEF Withheld, Unsent
  <1> QED
    BY <1>1, <1>3, <1>5, NothingBooked

LEMMA ClaimTame ==
  ASSUME StoreInv, BookedFillsExist, NEW i \in Intent, Claim(i)
  PROVE  StoreTame /\ intent'[i].status = "SUBMITTING"
  <1>1. StoreNext
    BY DEF StoreNext, IntentStep
  <1>2. intent[i] \in IntentRow /\ intent \in [Intent -> IntentRow]
    BY DEF StoreInv, StoreTypeOK
  <1>3. /\ order' = order /\ intent'[i].status = "SUBMITTING"
        /\ intent[i].status = "PENDING_SUBMIT" /\ intent'[i].order = intent[i].order
        /\ \A j \in Intent \ {i} : intent'[j] = intent[j]
    BY <1>2 DEF Claim, SetStatus, IntentRow
  <1>4. \A j \in Intent : Lawful(j)
    BY <1>3, OneIntentLawful DEF Withheld, Unsent, Refused
  <1> QED
    BY <1>1, <1>3, <1>4, NothingBooked

LEMMA ActivateTame ==
  ASSUME StoreInv, BookedFillsExist, NEW i \in Intent, Activate(i),
         Leg[i].session >= Day(now), Leg[i].dependency # None => HasFilled(Leg[i].dependency)
  PROVE  StoreTame
  <1>1. StoreNext
    BY DEF StoreNext, IntentStep
  <1>2. intent[i] \in IntentRow /\ intent \in [Intent -> IntentRow]
    BY DEF StoreInv, StoreTypeOK
  <1>3. /\ order' = order /\ intent'[i].status = "PENDING_SUBMIT"
        /\ intent[i].status \in Withheld \ Refused /\ intent'[i].order = intent[i].order
        /\ \A j \in Intent \ {i} : intent'[j] = intent[j]
    BY <1>2 DEF Activate, SetStatus, IntentRow, Withheld, Unsent, Refused
  <1>4. \A j \in Intent : Lawful(j)
    BY <1>3, OneIntentLawful
  <1> QED
    BY <1>1, <1>3, <1>4, NothingBooked

LEMMA ReleaseTame ==
  ASSUME StoreInv, BookedFillsExist, NEW i \in Intent, NEW s \in TerminalIntent \ {"SUPERSEDED"},
         NEW why \in Reason, s \in Refused => Refusing(i), s = "FILLED_ALL" => HasFilled(i),
         Release(i, s, why)
  PROVE  StoreTame
  <1>1. StoreNext
    BY DEF StoreNext, IntentStep
  <1>2. order' = order
    BY DEF Release
  <1>3. \A j \in Intent : Lawful(j)
    <2>1. CASE IsOpen(i)
      <3> DEFINE row == Closed(i, s, why, intent[i])
      <3>1. intent[i] \in IntentRow /\ intent \in [Intent -> IntentRow]
        BY DEF StoreInv, StoreTypeOK
      <3>2. row.status = s /\ row.order = intent[i].order
        BY <3>1 DEF Closed, IntentRow
      <3>3. intent' = [intent EXCEPT ![i] = row]
        BY <2>1 DEF Release
      <3> HIDE DEF row
      <3>4. intent'[i].status = s /\ intent'[i].order = intent[i].order
            /\ \A j \in Intent \ {i} : intent'[j] = intent[j]
        BY <3>1, <3>2, <3>3
      <3>5. s \notin Unsent /\ intent[i].status \notin Refused
        BY <2>1 DEF Unsent, TerminalIntent, TerminalOrder, Refused, IsOpen
      <3>6. s \in Withheld => Refusing(i)
        BY <3>5 DEF Withheld
      <3> QED
        BY <3>4, <3>5, <3>6, OneIntentLawful DEF Unsent
    <2>2. CASE ~IsOpen(i)
      BY <2>2, SameIntentsLawful DEF Release
    <2> QED
      BY <2>1, <2>2
  <1> QED
    BY <1>1, <1>2, <1>3, NothingBooked

LEMMA RequeueTame ==
  ASSUME StoreInv, WorldOK, BookedFillsExist, NEW i \in Intent, Leg[i].session > Day(now), Requeue(i)
  PROVE  StoreTame
  <1>1. StoreNext
    BY DEF StoreNext, IntentStep
  <1> DEFINE row == Queued(i, intent[i])
  <1>2. intent[i] \in IntentRow /\ intent \in [Intent -> IntentRow]
    BY DEF StoreInv, StoreTypeOK
  <1>3. row.status = Requeued(i) /\ row.order = intent[i].order
    BY <1>2 DEF Queued, IntentRow
  <1>4. order' = order /\ intent' = [intent EXCEPT ![i] = row]
    BY DEF Requeue
  <1> HIDE DEF row
  <1>5. intent'[i].status = Requeued(i) /\ intent'[i].order = intent[i].order
        /\ \A j \in Intent \ {i} : intent'[j] = intent[j]
    BY <1>2, <1>3, <1>4
  <1>6. \A j \in Intent : Lawful(j)
    <2>1. intent[i].status = "EXPIRED"
      BY DEF Requeue, RequeueOK, Recoverable
    <2>2. Leg[i].session >= Day(now)
      BY LegAssumption, NowIsNat DEF LegType
    <2> QED
      BY <1>5, <2>1, <2>2, OneIntentLawful DEF Requeued, Refused
  <1> QED
    BY <1>1, <1>4, <1>6, NothingBooked

LEMMA ResolveTame ==
  ASSUME StoreInv, BookedFillsExist, NEW i \in Intent, Resolve(i)
  PROVE  StoreTame
  <1>1. StoreNext
    BY DEF StoreNext, IntentStep
  <1> DEFINE row == [intent[i] EXCEPT !.attention = FALSE, !.resolved = TRUE]
  <1>2. intent[i] \in IntentRow /\ intent \in [Intent -> IntentRow]
    BY DEF StoreInv, StoreTypeOK
  <1>3. row.status = intent[i].status /\ row.order = intent[i].order
    BY <1>2 DEF IntentRow
  <1>4. order' = order /\ intent' = [intent EXCEPT ![i] = row]
    BY DEF Resolve
  <1> HIDE DEF row
  <1>5. \A j \in Intent : intent'[j].status = intent[j].status /\ intent'[j].order = intent[j].order
    BY <1>2, <1>3, <1>4
  <1> QED
    BY <1>1, <1>4, <1>5, NothingBooked, SameIntentsLawful

LEMMA BackfillTame ==
  ASSUME StoreInv, BookedFillsExist, Backfill
  PROVE  StoreTame
  <1>1. StoreNext
    BY DEF StoreNext
  <1>2. intent \in [Intent -> IntentRow]
    BY DEF StoreInv, StoreTypeOK
  <1>3. order' = order
    BY DEF Backfill
  <1>4. ASSUME NEW i \in Intent
        PROVE  intent'[i].status = intent[i].status /\ intent'[i].order = intent[i].order
    BY <1>2 DEF Backfill, IntentRow
  <1> QED
    BY <1>1, <1>3, <1>4, NothingBooked, SameIntentsLawful

\* An order that Futu knows is tied to its intent.
LEMMA BindTame ==
  ASSUME StoreInv, WorldOK, BookedFillsExist, NEW i \in Intent, NEW o \in OrderId,
         NEW s \in KnownOrder, broker[o] # None, broker[o].intent = i,
         s = "FILLED_ALL" => HasFilled(i), Bind(i, o, s)
  PROVE  StoreTame /\ order'[o] # None
  <1>1. StoreNext
    BY DEF StoreNext, IntentStep
  <1>2. \A j \in Intent : Lawful(j)
    <2> DEFINE row == Bound(o, s, intent[i])
    <2>1. intent[i] \in IntentRow /\ intent \in [Intent -> IntentRow]
      BY DEF StoreInv, StoreTypeOK
    <2>2. row.status = s /\ row.order = o
      BY <2>1 DEF Bound, IntentRow
    <2>3. intent' = [intent EXCEPT ![i] = row]
      BY DEF Bind
    <2> HIDE DEF row
    <2>4. intent'[i].status = s /\ intent'[i].order = o /\ \A j \in Intent \ {i} : intent'[j] = intent[j]
      BY <2>1, <2>2, <2>3
    <2>5. s \notin Withheld /\ intent[i].status \notin Refused /\ o # None
      BY NoneAssumption DEF Bind, BindOK, Refused, Withheld, Unsent, KnownOrder, TerminalOrder, ActiveOrder
    <2> QED
      BY <2>4, <2>5, OneIntentLawful DEF Withheld, Unsent
  <1> DEFINE row == IF order[o] = None THEN [intent |-> i, status |-> s, filled |-> 0]
                                       ELSE [order[o] EXCEPT !.status = s]
  <1>3. order[o] \in OrderRow \cup {None} /\ order \in [OrderId -> OrderRow \cup {None}]
    BY DEF StoreInv, StoreTypeOK
  <1>4. broker[o] \in OrderRow
    BY DEF WorldOK
  <1>5. /\ row \in OrderRow /\ row.intent = i
        /\ row.filled = IF order[o] = None THEN 0 ELSE order[o].filled
    <2>1. CASE order[o] = None
      BY <2>1 DEF OrderRow
    <2>2. CASE order[o] # None
      BY <2>2, <1>3 DEF OrderRow, Bind, BindOK
    <2> QED
      BY <2>1, <2>2
  <1>6. order' = [order EXCEPT ![o] = row]
    BY DEF Bind
  <1> HIDE DEF row
  <1>7. order'[o] = row /\ \A p \in OrderId \ {o} : order'[p] = order[p]
    BY <1>3, <1>6
  <1>8. row # None
    BY <1>5, NoneAssumption
  <1>9. row.filled <= broker[o].filled
    <2>1. broker[o].filled \in Nat
      BY <1>4 DEF OrderRow
    <2> QED
      BY <2>1, <1>5 DEF BookedFillsExist
  <1> QED
    BY <1>1, <1>2, <1>5, <1>7, <1>8, <1>9 DEF StoreTame, BookedFillsExist

\* A fill that Futu holds is booked.
LEMMA FillTame ==
  ASSUME StoreInv, WorldOK, BookedFillsExist, NEW o \in OrderId, order[o] # None, NEW cum \in Nat,
         cum <= broker[o].filled, ApplyFill(o, cum)
  PROVE  StoreTame
  <1>1. order[o] \in OrderRow /\ order \in [OrderId -> OrderRow \cup {None}]
    BY DEF StoreInv, StoreTypeOK
  <1>2. order[o].intent \in Intent /\ order[o].filled \in Nat
    BY <1>1 DEF OrderRow
  <1>3. Leg[order[o].intent].quantity \in Nat
    BY <1>2, LegAssumption DEF LegType
  <1>4. CASE Increment(o, cum) = 0
    <2>1. UNCHANGED storeVars
      BY <1>4 DEF ApplyFill, storeVars
    <2> QED
      BY <2>1, StoreStill
  <1>5. CASE Increment(o, cum) # 0
    <2>1. Increment(o, cum) > 0 /\ cum <= Leg[order[o].intent].quantity
      BY <1>5 DEF ApplyFill, ApplyFillOK
    <2>2. cum \in 1 .. Leg[order[o].intent].quantity
      BY <2>1, <1>2, <1>3 DEF Increment
    <2>3. StoreNext
      BY <2>2 DEF StoreNext, OrderStep
    <2>4. intent' = intent /\ order' = [order EXCEPT ![o].filled = cum]
      BY <1>5 DEF ApplyFill
    <2>5. /\ order'[o] # None /\ order'[o].intent = order[o].intent /\ order'[o].filled = cum
          /\ \A p \in OrderId \ {o} : order'[p] = order[p]
      <3> DEFINE row == [order[o] EXCEPT !.filled = cum]
      <3>1. row \in OrderRow /\ row.intent = order[o].intent /\ row.filled = cum
        BY <1>1 DEF OrderRow
      <3>2. order' = [order EXCEPT ![o] = row]
        BY <2>4
      <3> HIDE DEF row
      <3>3. order'[o] = row /\ \A p \in OrderId \ {o} : order'[p] = order[p]
        BY <1>1, <3>2
      <3> QED
        BY <3>1, <3>3, NoneAssumption
    <2>6. \A i \in Intent : Lawful(i)
      BY <2>4, SameIntentsLawful
    <2> QED
      BY <2>3, <2>5, <2>6 DEF StoreTame, BookedFillsExist
  <1> QED
    BY <1>4, <1>5

\* A report changes statuses, and ends no intent.
LEMMA ReportTame ==
  ASSUME StoreInv, WorldOK, BookedFillsExist, WithheldIsClean, NEW o \in OrderId, NEW s \in KnownOrder,
         Report(o, s)
  PROVE  StoreTame
  <1>1. order[o] # None
    BY DEF Report
  <1>2. order[o] \in OrderRow /\ order \in [OrderId -> OrderRow \cup {None}]
    BY <1>1 DEF StoreInv, StoreTypeOK
  <1>3. StoreNext
    BY <1>1 DEF StoreNext, OrderStep
  <1>4. PICK i \in Intent : i = order[o].intent
    BY <1>2 DEF OrderRow
  <1>5. \A j \in Intent : Lawful(j)
    <2>1. CASE s \in TerminalOrder
      BY <2>1, SameIntentsLawful DEF Report
    <2>2. CASE s \notin TerminalOrder
      <3>1. intent[i] \in IntentRow /\ intent \in [Intent -> IntentRow]
        BY DEF StoreInv, StoreTypeOK
      <3>2. intent' = [intent EXCEPT ![i].status = s]
        BY <2>2, <1>4 DEF Report
      <3>3. intent'[i].status = s /\ intent'[i].order = intent[i].order
            /\ \A j \in Intent \ {i} : intent'[j] = intent[j]
        BY <3>1, <3>2 DEF IntentRow
      <3>4. s \notin Withheld /\ s # "FILLED_ALL"
        BY <2>2 DEF Withheld, Unsent, Refused, KnownOrder, TerminalOrder, ActiveOrder
      <3> QED
        BY <1>1, <1>4, <3>3, <3>4, OrderedIsSent, OneIntentLawful DEF Withheld, Unsent
    <2> QED
      BY <2>1, <2>2
  <1>6. /\ order'[o] # None /\ order'[o].intent = order[o].intent
        /\ order'[o].filled = order[o].filled
        /\ \A p \in OrderId \ {o} : order'[p] = order[p]
    <2> DEFINE row == [order[o] EXCEPT !.status = s]
    <2>1. row \in OrderRow /\ row.intent = order[o].intent /\ row.filled = order[o].filled
      BY <1>2 DEF OrderRow
    <2>2. order' = [order EXCEPT ![o] = row]
      BY DEF Report
    <2> HIDE DEF row
    <2>3. order'[o] = row /\ \A p \in OrderId \ {o} : order'[p] = order[p]
      BY <1>2, <2>2
    <2> QED
      BY <2>1, <2>3, NoneAssumption
  <1> QED
    BY <1>1, <1>3, <1>5, <1>6 DEF StoreTame, BookedFillsExist

LEMMA SaveTame ==
  ASSUME BookedFillsExist, NEW d \in Decision, SaveDecision(d)
  PROVE  StoreTame
  <1>1. StoreNext
    BY DEF StoreNext, DecisionStep
  <1>2. order' = order /\ intent' = intent
    BY DEF SaveDecision
  <1> QED
    BY <1>1, <1>2, NothingBooked, SameIntentsLawful

\* A new leg waits for its dependency, or for its turn.
LEMMA NewIsWithheld ==
  ASSUME NEW i \in Intent
  PROVE  /\ NewIntent(i).status \in Withheld \ {"NONE"}
         /\ NewIntent(i).status = "PENDING_SUBMIT" => Leg[i].dependency = None
         /\ NewIntent(i).status # "FILLED_ALL"
  BY DEF NewIntent, Withheld, Unsent

LEMMA CreateTame ==
  ASSUME StoreInv, BookedFillsExist, NEW d \in Decision,
         \A i \in LegsOf(d) : Leg[i].session >= Day(now), CreateIntents(d)
  PROVE  StoreTame
  <1>1. StoreNext
    BY DEF StoreNext, DecisionStep
  <1>2. order' = order
    BY DEF CreateIntents
  <1>3. CASE \A i \in LegsOf(d) : Created(i)
    <2>1. intent' = intent
      BY <1>3 DEF CreateIntents
    <2> QED
      BY <2>1, <1>1, <1>2, NothingBooked, SameIntentsLawful
  <1>4. CASE ~\A i \in LegsOf(d) : Created(i)
    <2>1. \A i \in LegsOf(d) : ~Created(i)
      BY <1>4 DEF CreateIntents, CreateOK
    <2>2. intent' = [i \in Intent |-> IF i \in LegsOf(d) THEN NewIntent(i) ELSE intent[i]]
      BY <1>4 DEF CreateIntents
    <2>3. ASSUME NEW i \in Intent
          PROVE  Lawful(i)
      <3>1. CASE i \in LegsOf(d)
        <4>1. intent[i].status = "NONE" /\ intent'[i] = NewIntent(i)
          BY <3>1, <2>1, <2>2 DEF Created
        <4> QED
          BY <3>1, <4>1, NewIsWithheld DEF Lawful, Created, Withheld, Unsent, Refused,
                                           StoreInv, BlankRows
      <3>2. CASE i \notin LegsOf(d)
        BY <3>2, <2>2 DEF Lawful, Created
      <3> QED
        BY <3>1, <3>2
    <2> QED
      BY <1>1, <1>2, <2>3, NothingBooked
  <1> QED
    BY <1>3, <1>4

\* Only what waits in the queue is withdrawn.
LEMMA SupersedeTame ==
  ASSUME StoreInv, BookedFillsExist,
         NEW old \in Decision, NEW d \in Decision, Supersede(old, d),
         \A i \in LegsOf(d) : Leg[i].session >= Day(now)
  PROVE  StoreTame
  <1>1. StoreNext
    BY DEF StoreNext, DecisionStep
  <1> DEFINE a == Plan[d].account
  <1>2. order' = order
    BY DEF Supersede
  <1>3. /\ \A i \in OpenIntents(a) : Replaceable(i, old)
        /\ \A i \in LegsOf(d) : ~Created(i)
    BY DEF Supersede, SupersedeOK
  <1> DEFINE I == IF account[a].paused THEN {} ELSE LegsOf(d)
  <1>4. /\ I \subseteq LegsOf(d)
        /\ intent' = [i \in Intent |->
                      CASE i \in I -> NewIntent(i)
                        [] i \in OpenIntents(a) -> Closed(i, "SUPERSEDED", "none", intent[i])
                        [] OTHER -> intent[i]]
    BY DEF Supersede
  <1> HIDE DEF I, a
  <1>5. \A i \in Intent : i \in OpenIntents(a) => Created(i)
    BY DEF OpenIntents, IsOpen, Created
  <1>6. ASSUME NEW i \in Intent
        PROVE  Lawful(i)
    <2>1. CASE i \in I
      <3>1. intent[i].status = "NONE" /\ i \notin OpenIntents(a)
        BY <2>1, <1>3, <1>4, <1>5 DEF Created
      <3>2. intent'[i] = NewIntent(i)
        BY <2>1, <3>1, <1>4
      <3> QED
        BY <1>4, <2>1, <3>1, <3>2, NewIsWithheld DEF Lawful, Created, Withheld, Unsent, Refused,
                                                StoreInv, BlankRows
    <2>2. CASE i \notin I /\ i \in OpenIntents(a)
      <3>1. intent'[i] = Closed(i, "SUPERSEDED", "none", intent[i])
        BY <2>2, <1>4
      <3>2. intent[i] \in IntentRow
        BY DEF StoreInv, StoreTypeOK
      <3>3. intent'[i].status = "SUPERSEDED" /\ intent'[i].order = intent[i].order
        BY <3>1, <3>2 DEF Closed, IntentRow
      <3>4. intent[i].status \in Withheld \ Refused
        BY <2>2, <1>3 DEF Replaceable, Withheld, Unsent, Refused
      <3> QED
        BY <3>3, <3>4 DEF Lawful, Created
    <2>3. CASE i \notin I /\ i \notin OpenIntents(a)
      <3>1. intent'[i] = intent[i]
        BY <2>3, <1>4
      <3> QED
        BY <3>1 DEF Lawful, Created
    <2> QED
      BY <2>1, <2>2, <2>3
  <1> QED
    BY <1>1, <1>2, <1>6, NothingBooked

-----------------------------------------------------------------------------
(* Kinds of steps of a thread.                                             *)

\* Where nothing but the store and the thread changes.
LEMMA StoreAlone ==
  ASSUME Inv, OnlyStore, up' \in {"down", "starting", "serving"}
  PROVE  /\ SettingsOK' /\ now' = now /\ OrdersGrow
         /\ \A o \in OrderId : broker[o] = None => broker'[o] = None
  <1>1. broker' = broker /\ WorldOK
    BY DEF OnlyStore, Inv
  <1>2. OrdersGrow
    <2>1. \A o \in OrderId : broker[o] # None => broker[o] \in OrderRow
      BY <1>1 DEF WorldOK
    <2> QED
      BY <1>1, <2>1, BecomesReflexive DEF WorldOK, OrdersGrow
  <1> QED
    BY <1>1, <1>2 DEF WorldOK, SettingsOK, OnlyStore, envVars

\* A method of the store, after which the thread goes on,
LEMMA StoreGoes ==
  ASSUME Inv, OnlyStore, UNCHANGED up, StoreTame,
         NEW t \in Thread, NEW g \in Frame, SetFrame(t, g), Relies(g), KeepsHand(th[t], g)
  PROVE  Kept
  <1>1. up' \in {"down", "starting", "serving"}
    BY DEF Inv, WorldOK
  <1> QED
    BY <1>1, StoreAlone, ThreadStep

\* or ends.
LEMMA StoreEnds ==
  ASSUME Inv, OnlyStore, StoreTame, NEW t \in Thread, Raise(t) \/ Finish(t)
  PROVE  Kept
  <1>1. up' \in {"down", "starting", "serving"} /\ SetFrame(t, Idle)
    BY DEF Inv, WorldOK, Raise, Finish
  <1> QED
    BY <1>1, StoreAlone, EndStep

\* A step that only looks.
LEMMA LookStep ==
  ASSUME Inv, OnlyThread
  PROVE  OnlyStore /\ StoreTame
  BY StoreStill DEF OnlyThread, OnlyStore, Inv

\* The thread goes to another point, for which it has all that it needs.
LEMMA GotoGoes ==
  ASSUME Inv, OnlyStore, StoreTame, NEW t \in Thread, NEW p \in PC, Goto(t, p),
         NEW f \in Frame, f = th[t], Relies(WithPc(f, p)), p \notin Held
  PROVE  Kept
  <1> DEFINE g == WithPc(f, p)
  <1>1. g \in Frame /\ g.pc = p
    BY PcFrame DEF IsPc
  <1>2. SetFrame(t, g) /\ UNCHANGED up
    BY DEF Goto, WithPc
  <1>3. Relies(g) /\ KeepsHand(th[t], g)
    BY <1>1 DEF KeepsHand
  <1> HIDE DEF g
  <1> QED
    BY <1>1, <1>2, <1>3, StoreGoes

\* Once a past session is expired, it stays so wherever the operation goes.
LEMMA PastStays ==
  ASSUME NEW f, PastIsExpired(f), f.pc \notin {"idle", "save", "create", "block"},
         f.pc # "expire" \/ f.todo = {}
  PROVE  \A g : PastIsExpired(g)
  BY DEF PastIsExpired, Loop

\* The thread blocks an account and goes back to its loop, or raises.
LEMMA BlockGoes ==
  ASSUME Inv, StoreTame, UNCHANGED broker, SettingsOK', now' = now,
         NEW t \in Thread, NEW f \in Frame, f = th[t], f.pc \notin {"idle", "save", "create", "expire", "block"},
         NEW x \in Intent \cup Account, NEW e \in Error, NEW p \in {"idle", "orders"},
         p = "orders" => f.pc \in InOrders,
         BlockThen(t, x, e, p)
  PROVE  Kept
  <1> DEFINE g == WithBlock(f, "block", x, e, p)
  <1>1. IsBlock(g, f, "block", x, p)
    <2>1. "block" \in PC /\ p \in PC /\ x \in Intent \cup Account \cup {None}
      BY DEF PC
    <2> QED
      BY <2>1, BlockFrame
  <1>2. SetFrame(t, g)
    BY DEF BlockThen, WithBlock
  <1> HIDE DEF g
  <1>3. Relies(f)
    BY DEF Inv, ThreadsRely
  <1>4. Relies(g)
    <2>1. PastIsExpired(g)
      BY <1>3, PastStays DEF Relies
    <2> QED
      BY <1>1, <1>3, <2>1 DEF IsBlock, Relies, WorkIsReal, HandIsReal, SnapIsPast, SameDay, Loop,
                              InOrders, InCancel, InRecover, InPending
  <1>5. OrdersGrow /\ \A o \in OrderId : broker[o] = None => broker'[o] = None
    <2>1. \A o \in OrderId : broker[o] # None => broker[o] \in OrderRow
      BY DEF Inv, WorldOK
    <2> QED
      BY <2>1, BecomesReflexive DEF Inv, WorldOK, OrdersGrow
  <1> QED
    BY <1>1, <1>2, <1>4, <1>5, ThreadStep DEF IsBlock, KeepsHand, Held

-----------------------------------------------------------------------------
(* The steps of a refresh.                                                 *)

\* Blocked accounts are accounts.
LEMMA OwnerIsAccount ==
  ASSUME NEW x \in Intent \cup Account
  PROVE  OwnerOf(x) \in Account
  BY LegAssumption DEF OwnerOf, LegType

LEMMA BlockStep ==
  ASSUME Inv, NEW t \in Thread, Block(t)
  PROVE  Kept
  <1>1. PICK f \in Frame : f = th[t]
    BY DEF Inv, ThreadsOK
  <1>2. Relies(f) /\ f.pc = "block"
    BY <1>1 DEF Inv, ThreadsRely, Block, At
  <1>3. OwnerOf(f.cur) \in Account /\ f.err \in Error /\ SetHealth(OwnerOf(f.cur), "BLOCKED", f.err)
    BY <1>1, <1>2, OwnerIsAccount DEF Relies, HandIsReal, Block, Frame
  <1>4. StoreTame /\ OnlyStore
    BY <1>3, HealthTame DEF Inv, Block
  <1>5. CASE f.next = "idle"
    <2>1. Raise(t)
      BY <1>1, <1>5 DEF Block
    <2> QED
      BY <2>1, <1>4, StoreEnds
  <1>6. CASE f.next # "idle"
    <2>0. PICK p \in PC : p = f.next
      BY DEF Frame
    <2> DEFINE g == WithBlock(f, p, None, "none", "idle")
    <2>1. IsBlock(g, f, p, None, "idle")
      <3>1. "idle" \in PC /\ "none" \in Error /\ None \in Intent \cup Account \cup {None}
        BY DEF PC, Error
      <3> QED
        BY <1>1, <2>0, <3>1, BlockFrame
    <2>2. SetFrame(t, g) /\ UNCHANGED up
      BY <1>1, <1>6, <2>0 DEF Block, WithBlock
    <2> HIDE DEF g
    <2>3. p = f.next /\ p \in {"expire", "orders", "activate", "pending"}
      BY <1>2, <1>6, <2>0 DEF Relies, HandIsReal
    <2>4. Relies(g)
      BY <1>2, <2>1, <2>3 DEF IsBlock, Relies, WorkIsReal, HandIsReal, SnapIsPast, SameDay, PastIsExpired, Loop,
                              InOrders, InCancel, InRecover, InPending
    <2>5. KeepsHand(th[t], g)
      BY <2>1, <2>3 DEF IsBlock, KeepsHand, Held
    <2> QED
      BY <1>4, <2>1, <2>2, <2>4, <2>5, StoreGoes DEF IsBlock
  <1> QED
    BY <1>5, <1>6

\* A frame that was just made relies on little.
FreshPC == {"expire", "resolve", "unpause", "save"}
LEMMA FreshRelies ==
  ASSUME NEW g \in Frame, g.pc \in FreshPC, g.snap = NoSnap, g.todo \subseteq Intent,
         g.job = "ack" \/ g.pc = "resolve" => g.arg \in Intent,
         g.pc = "save" =>
           g.arg \in Decision /\ \A i \in LegsOf(g.arg) : Leg[i].session >= Day(now),
         PastIsExpired(g),
         g.pc = "save" \/ Day(g.moment) = Day(now)
  PROVE  Relies(g)
  <1>1. WorkIsReal(g)
    <2>1. Loop(g) \in FreshPC
      BY DEF Loop, FreshPC
    <2> QED
      BY <2>1 DEF WorkIsReal, InOrders, InCancel, InRecover, InPending, FreshPC
  <1>2. HandIsReal(g)
    BY DEF HandIsReal, FreshPC, Held
  <1>3. SnapIsPast(g)
    BY DEF NoSnap, SnapIsPast
  <1>4. SameDay(g)
    BY DEF SameDay
  <1> QED
    BY <1>1, <1>2, <1>3, <1>4 DEF Relies

\* A scan of the queue finds everything of past sessions.
LEMMA StaleHasPast ==
  ASSUME NEW g, g.pc = "expire", g.todo = Stale(now)
  PROVE  PastIsExpired(g)
  BY DEF PastIsExpired, Loop, Stale, WithStatus

LEMMA BeginStep ==
  ASSUME Inv, UNCHANGED <<storeVars, broker>>, SettingsOK', now' = now,
         NEW t \in Thread, NEW j, NEW x \in Intent \cup {None}, j = "ack" => x \in Intent,
         Begin(t, j, x)
  PROVE  Kept
  <1>1. StoreTame
    BY StoreStill DEF Inv
  <1>2. OrdersGrow /\ \A o \in OrderId : broker[o] = None => broker'[o] = None
    <2>1. \A o \in OrderId : broker[o] # None => broker[o] \in OrderRow
      BY DEF Inv, WorldOK
    <2> QED
      BY <2>1, BecomesReflexive DEF Inv, WorldOK, OrdersGrow
  <1> DEFINE g == WithBegin(Idle, "expire", j, x, now, Stale(now))
  <1>3. SetFrame(t, g)
    BY DEF Begin, WithBegin
  <1>4. IsBegin(g, Idle, "expire", j, x, now, Stale(now))
    <2>1. j \in Job \cup {"none"}
      BY JobAssumption DEF Begin
    <2>2. now \in Nat
      BY NowIsNat DEF Inv
    <2>3. Stale(now) \in SUBSET (Intent \cup OrderId \cup Account)
      BY DEF Stale, WithStatus
    <2>4. "expire" \in PC /\ x \in Intent \cup Decision \cup {None}
      BY DEF PC
    <2> QED
      BY <2>1, <2>2, <2>3, <2>4, IdleFrame, BeginFrame
  <1> HIDE DEF g
  <1>5. g \in Frame /\ g.pc = "expire"
    BY <1>4 DEF IsBegin
  <1>6. Relies(g)
    <2>1. g.todo \subseteq Intent
      BY <1>4 DEF IsBegin, Stale, WithStatus
    <2>2. Idle.snap = NoSnap
      BY DEF Idle
    <2> QED
      BY <1>4, <1>5, <2>1, <2>2, StaleHasPast, FreshRelies DEF IsBegin, FreshPC
  <1> QED
    BY <1>1, <1>2, <1>3, <1>5, <1>6, ThreadStep DEF KeepsHand, Held

LEMMA StartFastStep ==
  ASSUME Inv, NEW t \in Thread, StartFast(t)
  PROVE  Kept
  <1>1. SettingsOK' /\ now' = now /\ UNCHANGED <<storeVars, broker>>
    BY DEF StartFast, OnlyThread, Inv, WorldOK, SettingsOK, Begin, envVars
  <1>2. Begin(t, "fast", None)
    BY DEF StartFast
  <1> QED
    BY <1>1, <1>2, BeginStep

LEMMA StartRequestStep ==
  ASSUME Inv, NEW t \in Thread, StartRequest(t)
  PROVE  Kept
  <1>1. SettingsOK' /\ now' = now /\ UNCHANGED <<storeVars, broker>>
    <2>1. requests' \in 0 .. MaxRequests
      BY BoundAssumption DEF StartRequest, Request, Inv, WorldOK
    <2> QED
      BY <2>1 DEF StartRequest, Request, Inv, WorldOK, SettingsOK, Begin
  <1>2. CASE Begin(t, "resume", None)
    BY <1>1, <1>2, BeginStep
  <1>3. ASSUME NEW i \in Intent, Begin(t, "ack", i)
        PROVE  Kept
    BY <1>1, <1>3, BeginStep
  <1> QED
    BY <1>2, <1>3 DEF StartRequest

LEMMA RefreshDoneStep ==
  ASSUME Inv, NEW t \in Thread, RefreshDone(t)
  PROVE  Kept
  <1>1. PICK f \in Frame : f = th[t]
    BY DEF Inv, ThreadsOK
  <1>2. Relies(f) /\ f.pc = "recover"
    BY <1>1 DEF Inv, ThreadsRely, RefreshDone, At
  <1>3. PICK p \in {"expire", "resolve", "unpause"} :
          p = CASE f.job = "fast" -> "expire" [] f.job = "ack" -> "resolve" [] OTHER -> "unpause"
    OBVIOUS
  <1>4. PICK T \in SUBSET Intent : T = IF f.job = "fast" THEN Stale(now) ELSE {}
    BY DEF Stale, WithStatus
  <1> DEFINE g == WithSecond(Idle, f.job, f.arg, now, "submit", T, p)
  <1>5. SetFrame(t, g) /\ UNCHANGED up
    BY <1>1, <1>3, <1>4 DEF RefreshDone, WithSecond
  <1>6. IsSecond(g, Idle, f.job, f.arg, now, T, p)
    <2>1. f.job \in Job \cup {"none"} /\ f.arg \in Intent \cup Decision \cup {None}
      BY DEF Frame
    <2>2. now \in Nat
      BY NowIsNat DEF Inv
    <2>3. p \in PC /\ T \in SUBSET (Intent \cup OrderId \cup Account)
      BY <1>3, <1>4 DEF PC
    <2> QED
      BY <2>1, <2>2, <2>3, IdleFrame, SecondFrame
  <1> HIDE DEF g
  <1>7. g \in Frame /\ g.pc = p
    BY <1>6 DEF IsSecond
  <1>8. Relies(g)
    <2>1. f.job = "ack" \/ p = "resolve" => f.arg \in Intent
      BY <1>2, <1>3 DEF Relies, HandIsReal
    <2>2. Idle.snap = NoSnap
      BY DEF Idle
    <2>3. PastIsExpired(g)
      BY <1>2, PastStays DEF Relies
    <2> QED
      BY <1>3, <1>6, <1>7, <2>1, <2>2, <2>3, FreshRelies DEF IsSecond, FreshPC
  <1>9. OnlyStore /\ StoreTame
    BY LookStep DEF RefreshDone
  <1> QED
    BY <1>3, <1>5, <1>9, <1>8, <1>7, StoreGoes DEF KeepsHand, Held

\* What is released is not in the queue.
LEMMA ReleasedIsOut ==
  ASSUME StoreInv, NEW i \in Intent, NEW s \in TerminalIntent, NEW why, Release(i, s, why)
  PROVE  intent'[i].status # "PENDING_SUBMIT"
  <1>1. "PENDING_SUBMIT" \notin TerminalIntent \cup {"NONE"}
    BY DEF TerminalIntent, TerminalOrder
  <1>2. CASE IsOpen(i)
    <2> DEFINE row == Closed(i, s, why, intent[i])
    <2>1. intent[i] \in IntentRow /\ intent \in [Intent -> IntentRow]
      BY DEF StoreInv, StoreTypeOK
    <2>2. row.status = s
      BY <2>1 DEF Closed, IntentRow
    <2>3. intent' = [intent EXCEPT ![i] = row]
      BY <1>2 DEF Release
    <2> HIDE DEF row
    <2> QED
      BY <1>1, <2>1, <2>2, <2>3
  <1>3. CASE ~IsOpen(i)
    BY <1>1, <1>3 DEF Release, IsOpen
  <1> QED
    BY <1>2, <1>3

\* An intent that cannot go on is released, and its account blocked.
LEMMA DropGoes ==
  ASSUME Inv, OnlyStore, StoreTame, UNCHANGED up, NEW t \in Thread, NEW f \in Frame, f = th[t],
         NEW p \in {"expire", "activate"}, f.pc = p, NEW i \in f.todo,
         intent'[i].status # "PENDING_SUBMIT",
         SetFrame(t, WithDrop(f, "block", i, "gap", p, f.todo \ {i}))
  PROVE  Kept
  <1> DEFINE g == WithDrop(f, "block", i, "gap", p, f.todo \ {i})
  <1>1. Relies(f) /\ f.todo \subseteq Intent
    BY DEF Inv, ThreadsRely, Relies, WorkIsReal, Loop
  <1>2. IsDrop(g, f, "block", i, p, f.todo \ {i})
    <2>1. /\ "block" \in PC /\ p \in PC /\ i \in Intent \cup Account \cup {None} /\ "gap" \in Error
          /\ f.todo \ {i} \in SUBSET (Intent \cup OrderId \cup Account)
      BY <1>1 DEF PC, Error
    <2> QED
      BY <2>1, DropFrame
  <1>3. SetFrame(t, g)
    OBVIOUS
  <1> HIDE DEF g
  <1>4. /\ SettingsOK' /\ now' = now /\ OrdersGrow
        /\ \A o \in OrderId : broker[o] = None => broker'[o] = None
    BY StoreAlone DEF Inv, WorldOK
  <1>5. Relies(f)'
    BY <1>1, <1>4, ReliesKept DEF Inv
  <1>6. PastIsExpired(g)'
    BY <1>2, <1>5 DEF IsDrop, Relies, PastIsExpired, Loop
  <1>7. Relies(g)'
    BY <1>1, <1>2, <1>5, <1>6 DEF IsDrop, Relies, WorkIsReal, HandIsReal, SnapIsPast, SameDay, Loop,
                                  InOrders, InCancel, InRecover, InPending
  <1> QED
    BY <1>2, <1>3, <1>4, <1>7, ThreadStepNew DEF IsDrop, KeepsHand, Held

LEMMA ExpireStep ==
  ASSUME Inv, NEW t \in Thread, Expire(t)
  PROVE  Kept
  <1>1. PICK f \in Frame : f = th[t]
    BY DEF Inv, ThreadsOK
  <1>2. f.pc = "expire" /\ f.todo \subseteq Intent /\ OnlyStore
    BY <1>1 DEF Inv, ThreadsRely, Relies, WorkIsReal, Loop, Expire, At
  <1>3. PICK i \in f.todo :
          IF ReleaseOK(i)
          THEN /\ \E why \in {"gap", "deadline"} : Release(i, "EXPIRED", why)
               /\ SetFrame(t, WithDrop(f, "block", i, "gap", "expire", f.todo \ {i}))
               /\ UNCHANGED up
          ELSE UNCHANGED storeVars /\ Raise(t)
    BY <1>1 DEF Expire, WithDrop
  <1>4. CASE ReleaseOK(i)
    <2>1. StoreTame
      <3>1. PICK why \in {"gap", "deadline"} : Release(i, "EXPIRED", why)
        BY <1>3, <1>4
      <3> QED
        BY <1>2, <3>1, ReleaseTame DEF Inv, TerminalIntent, Reason, Refused
    <2>2. intent'[i].status # "PENDING_SUBMIT"
      BY <1>2, <1>3, <1>4, ReleasedIsOut DEF Inv, TerminalIntent
    <2> QED
      BY <1>1, <1>2, <1>3, <1>4, <2>1, <2>2, DropGoes
  <1>5. CASE ~ReleaseOK(i)
    <2>1. StoreTame
      BY <1>3, <1>5, StoreStill DEF Inv
    <2> QED
      BY <1>2, <1>3, <1>5, <2>1, StoreEnds
  <1> QED
    BY <1>4, <1>5

\* What a snapshot shows is true of the orders.
LEMMA SnapshotIsPast ==
  ASSUME WorldOK, NEW S
  PROVE  /\ OrderSnapshot(S) \in [OrderId -> OrderRow \cup {None}]
         /\ \A o \in OrderId : OrderSnapshot(S)[o] # None => Becomes(OrderSnapshot(S)[o], broker[o])
  <1>1. OrderSnapshot(S) \in [OrderId -> OrderRow \cup {None}]
    BY DEF WorldOK, OrderSnapshot
  <1>2. ASSUME NEW o \in OrderId, OrderSnapshot(S)[o] # None
        PROVE  Becomes(OrderSnapshot(S)[o], broker[o])
    <2>1. OrderSnapshot(S)[o] = broker[o] /\ broker[o] # None
      BY <1>2 DEF OrderSnapshot
    <2>2. broker[o] \in OrderRow
      BY <2>1 DEF WorldOK
    <2> QED
      BY <2>1, <2>2, BecomesReflexive
  <1> QED
    BY <1>1, <1>2

LEMMA SnapshotStep ==
  ASSUME Inv, NEW t \in Thread, Snapshot(t)
  PROVE  Kept
  <1>1. PICK f \in Frame : f = th[t]
    BY DEF Inv, ThreadsOK
  <1>2. Relies(f) /\ f.pc = "expire" /\ f.todo = {}
    BY <1>1 DEF Inv, ThreadsRely, Snapshot, At
  <1>3. PICK S \in [OrderId -> OrderRow \cup {None}] :
          /\ S = OrderSnapshot({Day(now)})
          /\ \A o \in OrderId : S[o] # None => Becomes(S[o], broker[o])
    BY SnapshotIsPast DEF Inv
  <1> DEFINE g == WithSnap(f, "history", S)
  <1>4. IsSnap(g, f, "history", S)
    BY <1>1, <1>3, SnapFrame DEF PC
  <1>5. SetFrame(t, g) /\ UNCHANGED up
    BY <1>1, <1>3 DEF Snapshot, WithSnap
  <1> HIDE DEF g
  <1>6. Relies(g)
    <2>1. PastIsExpired(g)
      BY <1>2, PastStays DEF Relies
    <2> QED
      BY <1>2, <1>3, <1>4, <2>1 DEF IsSnap, Relies, WorkIsReal, HandIsReal, SnapIsPast, SameDay, Loop,
                                    InOrders, InCancel, InRecover, InPending
  <1>7. OnlyStore /\ StoreTame
    BY LookStep DEF Snapshot
  <1> QED
    BY <1>4, <1>5, <1>6, <1>7, StoreGoes DEF IsSnap, KeepsHand, Held

LEMMA HistoryStep ==
  ASSUME Inv, NEW t \in Thread, History(t)
  PROVE  Kept
  <1>1. PICK f \in Frame : f = th[t]
    BY DEF Inv, ThreadsOK
  <1>2. Relies(f) /\ f.pc = "history"
    BY <1>1 DEF Inv, ThreadsRely, History, At
  <1> DEFINE since == {s \in 0 .. Day(now) : \E i \in Tracked : Leg[i].session <= s}
             all == [o \in OrderId |-> IF f.snap[o] = None THEN OrderSnapshot(since)[o]
                                                           ELSE f.snap[o]]
  <1>3. PICK S \in [OrderId -> OrderRow \cup {None}] :
          /\ S = all
          /\ \A o \in OrderId : S[o] # None => Becomes(S[o], broker[o])
    <2>1. f.snap \in [OrderId -> OrderRow \cup {None}]
      BY <1>1 DEF Frame
    <2>2. /\ OrderSnapshot(since) \in [OrderId -> OrderRow \cup {None}]
          /\ \A o \in OrderId : OrderSnapshot(since)[o] # None
                                  => Becomes(OrderSnapshot(since)[o], broker[o])
      BY SnapshotIsPast DEF Inv
    <2> HIDE DEF since
    <2>3. all \in [OrderId -> OrderRow \cup {None}]
      BY <2>1, <2>2
    <2>4. \A o \in OrderId : all[o] # None => Becomes(all[o], broker[o])
      BY <1>2, <2>2 DEF Relies, SnapIsPast
    <2> QED
      BY <2>3, <2>4
  <1>4. PICK T \in SUBSET OrderId : T = {o \in OrderId : S[o] # None}
    OBVIOUS
  <1>5. SetFrame(t, WithOrders(f, "orders", S, T)) /\ UNCHANGED up
    BY <1>1, <1>3, <1>4 DEF History, WithOrders
  <1> HIDE DEF since, all
  <1> DEFINE g == WithOrders(f, "orders", S, T)
  <1>6. IsOrders(g, f, "orders", S, T)
    <2>1. "orders" \in PC /\ T \in SUBSET (Intent \cup OrderId \cup Account)
      BY DEF PC
    <2> QED
      BY <2>1, OrdersFrame
  <1>7. SetFrame(t, g)
    BY <1>5
  <1> HIDE DEF g
  <1>8. Relies(g)
    <2>1. PastIsExpired(g)
      BY <1>2, PastStays DEF Relies
    <2> QED
      BY <1>2, <1>3, <1>4, <1>6, <2>1 DEF IsOrders, Relies, WorkIsReal, HandIsReal, SnapIsPast, SameDay,
                                          Loop, InOrders, InCancel, InRecover, InPending
  <1>9. OnlyStore /\ StoreTame
    BY LookStep DEF History
  <1> QED
    BY <1>5, <1>6, <1>7, <1>8, <1>9, StoreGoes DEF IsOrders, KeepsHand, Held

LEMMA LookUpStep ==
  ASSUME Inv, NEW t \in Thread, LookUp(t)
  PROVE  Kept
  <1>1. PICK f \in Frame : f = th[t]
    BY DEF Inv, ThreadsOK
  <1>2. Relies(f) /\ f.pc = "orders"
    BY <1>1 DEF Inv, ThreadsRely, LookUp, At
  <1>3. PICK o \in f.todo :
          SetFrame(t, WithLook(f, IF order[o] = None THEN "bind" ELSE "fill", o, f.todo \ {o},
                               IF order[o] = None THEN "NONE" ELSE order[o].status))
    BY <1>1 DEF LookUp, WithLook
  <1>4. o \in OrderId /\ f.snap[o] # None
    BY <1>2 DEF Relies, WorkIsReal, Loop, InOrders
  <1>5. PICK p \in {"bind", "fill"} : p = IF order[o] = None THEN "bind" ELSE "fill"
    OBVIOUS
  <1>6. PICK v \in IntentStatus : v = IF order[o] = None THEN "NONE" ELSE order[o].status
    BY <1>4 DEF Inv, StoreInv, StoreTypeOK, OrderRow, IntentStatus, Unsent
  <1> DEFINE g == WithLook(f, p, o, f.todo \ {o}, v)
  <1>7. IsLook(g, f, p, o, f.todo \ {o}, v)
    <2>1. /\ p \in PC /\ o \in OrderId \cup {None}
          /\ f.todo \ {o} \in SUBSET (Intent \cup OrderId \cup Account)
      BY <1>4 DEF PC, Frame
    <2> QED
      BY <2>1, LookFrame
  <1>8. SetFrame(t, g)
    BY <1>3, <1>5, <1>6
  <1> HIDE DEF g
  <1>9. Relies(g)
    BY <1>2, <1>4, <1>5, <1>7 DEF IsLook, Relies, WorkIsReal, HandIsReal, SnapIsPast, SameDay, PastIsExpired,
                                  Loop, InOrders, InCancel, InRecover, InPending
  <1>10. OnlyStore /\ StoreTame /\ UNCHANGED up
    BY LookStep DEF LookUp
  <1> QED
    BY <1>2, <1>7, <1>8, <1>9, <1>10, StoreGoes DEF IsLook, KeepsHand, Held

\* What the thread sees of an order is true of it.
LEMMA SeenIsTrue ==
  ASSUME Inv, NEW f \in Frame, Relies(f), NEW o \in OrderId, f.snap[o] # None
  PROVE  /\ f.snap[o] \in OrderRow /\ broker[o] # None /\ broker[o].intent = f.snap[o].intent
         /\ f.snap[o].filled <= broker[o].filled
         /\ f.snap[o].status = "FILLED_ALL" => HasFilled(f.snap[o].intent)
  <1>1. f.snap[o] \in OrderRow
    BY DEF Frame
  <1>2. Becomes(f.snap[o], broker[o])
    BY DEF Relies, SnapIsPast
  <1>3. ASSUME f.snap[o].status = "FILLED_ALL"
        PROVE  HasFilled(f.snap[o].intent)
    BY <1>2, <1>3 DEF Becomes, TerminalOrder, HasFilled, OrdersOf
  <1> QED
    BY <1>1, <1>2, <1>3 DEF Becomes

LEMMA BindFoundStep ==
  ASSUME Inv, NEW t \in Thread, BindFound(t)
  PROVE  Kept
  <1>1. PICK f \in Frame : f = th[t]
    BY DEF Inv, ThreadsOK
  <1>2. Relies(f) /\ f.pc = "bind"
    BY <1>1 DEF Inv, ThreadsRely, BindFound, At
  <1>3. PICK o \in OrderId : o = f.ord /\ f.snap[o] # None
    BY <1>2 DEF Relies, HandIsReal
  <1>4. /\ f.snap[o] \in OrderRow /\ broker[o] # None /\ broker[o].intent = f.snap[o].intent
        /\ f.snap[o].status = "FILLED_ALL" => HasFilled(f.snap[o].intent)
    BY <1>2, <1>3, SeenIsTrue
  <1>5. PICK i \in Intent : i = f.snap[o].intent
    BY <1>4 DEF OrderRow
  <1>6. PICK s \in KnownOrder : s = f.snap[o].status
    BY <1>4 DEF OrderRow
  <1>7. OnlyStore /\ IF BindOK(i, o) THEN Bind(i, o, s) /\ Goto(t, "fill")
                                     ELSE UNCHANGED storeVars /\ Raise(t)
    BY <1>1, <1>3, <1>5, <1>6 DEF BindFound, Seen
  <1>8. CASE BindOK(i, o)
    <2>1. StoreTame /\ order'[o] # None
      BY <1>4, <1>5, <1>6, <1>7, <1>8, BindTame DEF Inv
    <2> DEFINE g == WithPc(f, "fill")
    <2>2. IsPc(g, f, "fill")
      BY PcFrame DEF PC
    <2>3. SetFrame(t, g) /\ UNCHANGED up
      BY <1>1, <1>7, <1>8 DEF Goto, WithPc
    <2> HIDE DEF g
    <2>4. up' \in {"down", "starting", "serving"}
      BY <2>3 DEF Inv, WorldOK
    <2>5. /\ SettingsOK' /\ now' = now /\ OrdersGrow
          /\ \A p \in OrderId : broker[p] = None => broker'[p] = None
      BY <1>7, <2>4, StoreAlone
    <2>6. Relies(f)'
      BY <1>2, <2>1, <2>5, ReliesKept DEF Inv
    <2>7. Relies(g)'
      BY <1>2, <1>3, <2>1, <2>2, <2>6 DEF IsPc, Relies, WorkIsReal, HandIsReal, SnapIsPast,
                                          SameDay, PastIsExpired, Loop, InOrders, InCancel,
                                          InRecover, InPending
    <2> QED
      BY <2>1, <2>2, <2>3, <2>5, <2>7, ThreadStepNew DEF IsPc, KeepsHand, Held
  <1>9. CASE ~BindOK(i, o)
    <2>1. StoreTame
      BY <1>7, <1>9, StoreStill DEF Inv
    <2> QED
      BY <1>7, <1>9, <2>1, StoreEnds
  <1> QED
    BY <1>8, <1>9

\* From one order to the next step for it, or to the next order.
LEMMA OrderGoes ==
  ASSUME Inv, OnlyStore, StoreTame, NEW t \in Thread, NEW f \in Frame, f = th[t],
         f.pc \in {"fill", "report", "settle"}, NEW p \in {"report", "settle", "orders"},
         p = "settle" => f.snap[f.ord].status \in TerminalOrder, Goto(t, p)
  PROVE  Kept
  <1>1. Relies(f)
    BY DEF Inv, ThreadsRely
  <1>2. p \in PC /\ p \notin Held
    BY DEF PC, Held
  <1>3. IsPc(WithPc(f, p), f, p)
    BY <1>2, PcFrame
  <1>4. Relies(WithPc(f, p))
    BY <1>1, <1>3 DEF IsPc, Relies, WorkIsReal, HandIsReal, SnapIsPast, SameDay, PastIsExpired, Loop,
                      InOrders, InCancel, InRecover, InPending
  <1> QED
    BY <1>2, <1>4, GotoGoes

LEMMA FillFoundStep ==
  ASSUME Inv, NEW t \in Thread, FillFound(t)
  PROVE  Kept
  <1>1. PICK f \in Frame : f = th[t]
    BY DEF Inv, ThreadsOK
  <1>2. Relies(f) /\ f.pc = "fill"
    BY <1>1 DEF Inv, ThreadsRely, FillFound, At
  <1>3. PICK o \in OrderId : o = f.ord /\ f.snap[o] # None /\ order[o] # None
    BY <1>2 DEF Relies, HandIsReal
  <1>4. f.snap[o] \in OrderRow /\ f.snap[o].filled <= broker[o].filled
    BY <1>2, <1>3, SeenIsTrue
  <1>5. PICK n \in Nat : n = f.snap[o].filled
    BY <1>4 DEF OrderRow
  <1>6. OnlyStore /\ IF ApplyFillOK(o, n) THEN ApplyFill(o, n) /\ Goto(t, "report")
                                          ELSE UNCHANGED storeVars /\ Raise(t)
    BY <1>1, <1>3, <1>5 DEF FillFound, Seen
  <1>7. CASE ApplyFillOK(o, n)
    <2>1. StoreTame
      BY <1>3, <1>4, <1>5, <1>6, <1>7, FillTame DEF Inv
    <2> QED
      BY <1>1, <1>2, <1>6, <1>7, <2>1, OrderGoes
  <1>8. CASE ~ApplyFillOK(o, n)
    <2>1. StoreTame
      BY <1>6, <1>8, StoreStill DEF Inv
    <2> QED
      BY <1>6, <1>8, <2>1, StoreEnds
  <1> QED
    BY <1>7, <1>8

\* After a report the thread blocks the account, or looks at the next order.
LEMMA AfterReportGoes ==
  ASSUME Inv, OnlyStore, StoreTame, NEW t \in Thread, NEW f \in Frame, f = th[t],
         f.pc \in {"report", "settle"}, NEW i \in Intent, i = f.snap[f.ord].intent,
         AfterReport(t)
  PROVE  Kept
  <1>1. \/ \E e \in {"transient", "gap"} : BlockThen(t, i, e, "orders")
        \/ Goto(t, "orders")
    <2> DEFINE s == f.snap[f.ord].status
    <2>1. CASE s = "TIMEOUT"
      BY <2>1 DEF AfterReport, Seen, TerminalOrder
    <2>2. CASE s # "TIMEOUT" /\ s \in TerminalOrder \ {"FILLED_ALL"} /\ f.prev \notin TerminalOrder
      BY <2>2 DEF AfterReport, Seen
    <2>3. CASE /\ s # "TIMEOUT"
               /\ ~(s \in TerminalOrder \ {"FILLED_ALL"} /\ f.prev \notin TerminalOrder)
      BY <2>3 DEF AfterReport, Seen
    <2> QED
      BY <2>1, <2>2, <2>3
  <1>2. CASE Goto(t, "orders")
    BY <1>2, OrderGoes
  <1>3. ASSUME NEW e \in {"transient", "gap"}, BlockThen(t, i, e, "orders")
        PROVE  Kept
    <2>1. e \in Error /\ i \in Intent \cup Account /\ f.pc \in InOrders
      BY DEF Error, InOrders
    <2>2. up' \in {"down", "starting", "serving"}
      BY <1>3 DEF BlockThen, Inv, WorldOK
    <2>3. SettingsOK' /\ now' = now /\ UNCHANGED broker
      BY <2>2, StoreAlone DEF OnlyStore
    <2> QED
      BY <1>3, <2>1, <2>3, BlockGoes
  <1> QED
    BY <1>1, <1>2, <1>3

LEMMA ReportFoundStep ==
  ASSUME Inv, NEW t \in Thread, ReportFound(t)
  PROVE  Kept
  <1>1. PICK f \in Frame : f = th[t]
    BY DEF Inv, ThreadsOK
  <1>2. Relies(f) /\ f.pc = "report"
    BY <1>1 DEF Inv, ThreadsRely, ReportFound, At
  <1>3. PICK o \in OrderId : o = f.ord /\ f.snap[o] # None /\ order[o] # None
    BY <1>2 DEF Relies, HandIsReal
  <1>4. f.snap[o] \in OrderRow
    BY <1>2, <1>3, SeenIsTrue
  <1>5. PICK s \in KnownOrder : s = f.snap[o].status
    BY <1>4 DEF OrderRow
  <1>6. PICK i \in Intent : i = f.snap[o].intent
    BY <1>4 DEF OrderRow
  <1>7. /\ OnlyStore /\ Report(o, s)
        /\ IF s \in TerminalOrder /\ IsOpen(i) THEN Goto(t, "settle") ELSE AfterReport(t)
    BY <1>1, <1>3, <1>5, <1>6 DEF ReportFound, Seen
  <1>8. StoreTame
    BY <1>7, ReportTame DEF Inv, OneOrder
  <1>9. CASE s \in TerminalOrder /\ IsOpen(i)
    BY <1>1, <1>2, <1>3, <1>5, <1>7, <1>8, <1>9, OrderGoes
  <1>10. CASE ~(s \in TerminalOrder /\ IsOpen(i))
    BY <1>1, <1>2, <1>3, <1>6, <1>7, <1>8, <1>10, AfterReportGoes
  <1> QED
    BY <1>9, <1>10

LEMMA SettleFoundStep ==
  ASSUME Inv, NEW t \in Thread, SettleFound(t)
  PROVE  Kept
  <1>1. PICK f \in Frame : f = th[t]
    BY DEF Inv, ThreadsOK
  <1>2. Relies(f) /\ f.pc = "settle"
    BY <1>1 DEF Inv, ThreadsRely, SettleFound, At
  <1>3. PICK o \in OrderId : o = f.ord /\ f.snap[o] # None /\ f.snap[o].status \in TerminalOrder
    BY <1>2 DEF Relies, HandIsReal
  <1>4. /\ f.snap[o] \in OrderRow
        /\ f.snap[o].status = "FILLED_ALL" => HasFilled(f.snap[o].intent)
    BY <1>2, <1>3, SeenIsTrue
  <1>5. PICK s \in TerminalOrder : s = f.snap[o].status
    BY <1>3
  <1>6. PICK i \in Intent : i = f.snap[o].intent
    BY <1>4 DEF OrderRow
  <1>7. OnlyStore /\ IF ReleaseOK(i) THEN Release(i, s, "gap") /\ AfterReport(t)
                                     ELSE UNCHANGED storeVars /\ Raise(t)
    BY <1>1, <1>3, <1>5, <1>6 DEF SettleFound, Seen
  <1>8. CASE ReleaseOK(i)
    <2>1. s \in TerminalIntent \ {"SUPERSEDED"} /\ s \notin Refused /\ "gap" \in Reason
      BY DEF TerminalIntent, TerminalOrder, Refused, Reason
    <2>2. StoreTame
      BY <1>4, <1>5, <1>6, <1>7, <1>8, <2>1, ReleaseTame DEF Inv
    <2> QED
      BY <1>1, <1>2, <1>3, <1>6, <1>7, <1>8, <2>2, AfterReportGoes
  <1>9. CASE ~ReleaseOK(i)
    <2>1. StoreTame
      BY <1>7, <1>9, StoreStill DEF Inv
    <2> QED
      BY <1>7, <1>9, <2>1, StoreEnds
  <1> QED
    BY <1>8, <1>9

\* A working order at Futu gets on.
SetOrder(o, r) == broker' = [broker EXCEPT ![o] = r]
LEMMA OrderGetsOn ==
  ASSUME WorldOK, NEW o \in Working, NEW r \in OrderRow, r.intent = broker[o].intent,
         broker[o].filled <= r.filled, SetOrder(o, r)
  PROVE  OrdersGrow /\ \A p \in OrderId : broker[p] = None => broker'[p] = None
  <1>1. o \in OrderId /\ broker[o] # None /\ broker[o].status \notin TerminalOrder
    BY DEF Working
  <1>2. broker'[o] = r /\ \A p \in OrderId \ {o} : broker'[p] = broker[p]
    BY <1>1 DEF WorldOK, SetOrder
  <1>3. broker' \in [OrderId -> OrderRow \cup {None}]
    BY DEF WorldOK, SetOrder
  <1>4. Becomes(broker[o], r)
    BY <1>1, NoneAssumption DEF Becomes
  <1>5. ASSUME NEW p \in OrderId, broker[p] # None
        PROVE  Becomes(broker[p], broker'[p])
    <2>1. CASE p = o
      BY <2>1, <1>2, <1>4
    <2>2. CASE p # o
      <3>1. broker[p] \in OrderRow
        BY <1>5 DEF WorldOK
      <3> QED
        BY <2>2, <3>1, <1>2, BecomesReflexive
    <2> QED
      BY <2>1, <2>2
  <1> QED
    BY <1>1, <1>2, <1>3, <1>5 DEF OrdersGrow

LEMMA CancelGetsOn ==
  ASSUME WorldOK, NEW o \in Working, CancelRequested(o)
  PROVE  OrdersGrow /\ \A p \in OrderId : broker[p] = None => broker'[p] = None
  <1>1. broker[o] \in OrderRow
    BY DEF WorldOK, Working
  <1>2. PICK s \in KnownOrder :
          s = IF broker[o].filled = 0 THEN "CANCELLING_ALL" ELSE "CANCELLING_PART"
    BY DEF KnownOrder, ActiveOrder
  <1> DEFINE r == [broker[o] EXCEPT !.status = s]
  <1>3. r \in OrderRow /\ r.intent = broker[o].intent /\ broker[o].filled <= r.filled
    BY <1>1 DEF OrderRow
  <1>4. SetOrder(o, r)
    BY <1>2 DEF CancelRequested, SetOrder
  <1> HIDE DEF r
  <1> QED
    BY <1>3, <1>4, OrderGetsOn

LEMMA CancelScanStep ==
  ASSUME Inv, NEW t \in Thread, CancelScan(t)
  PROVE  Kept
  <1>1. PICK f \in Frame : f = th[t]
    BY DEF Inv, ThreadsOK
  <1>2. Relies(f) /\ f.pc = "orders"
    BY <1>1 DEF Inv, ThreadsRely, CancelScan, At
  <1>3. PICK T \in SUBSET {i \in Intent : Created(i) /\ intent[i].order # None} :
          T = {i \in Intent : /\ Leg[i].session = Day(now) /\ Missed(i, now)
                              /\ intent[i].status \in Cancellable
                              /\ intent[i].order # None}
    BY DEF Created, Cancellable
  <1> DEFINE g == WithScan(f, "cancel", None, "NONE", T)
  <1>4. IsScan(g, f, "cancel", None, "NONE", T)
    <2>1. /\ "cancel" \in PC /\ None \in OrderId \cup {None} /\ "NONE" \in IntentStatus
          /\ T \in SUBSET (Intent \cup OrderId \cup Account)
      BY <1>3 DEF PC, IntentStatus, Unsent
    <2> QED
      BY <2>1, ScanFrame
  <1>5. SetFrame(t, g) /\ UNCHANGED up
    BY <1>1, <1>3 DEF CancelScan, WithScan
  <1> HIDE DEF g
  <1>6. Relies(g)
    BY <1>2, <1>3, <1>4 DEF IsScan, Relies, WorkIsReal, HandIsReal, SnapIsPast, SameDay, PastIsExpired, Loop,
                            InOrders, InCancel, InRecover, InPending
  <1>7. OnlyStore /\ StoreTame
    BY LookStep DEF CancelScan
  <1> QED
    BY <1>4, <1>5, <1>6, <1>7, StoreGoes DEF IsScan, KeepsHand, Held

LEMMA CancelSendStep ==
  ASSUME Inv, NEW t \in Thread, CancelSend(t)
  PROVE  Kept
  <1>1. PICK f \in Frame : f = th[t]
    BY DEF Inv, ThreadsOK
  <1>2. Relies(f) /\ f.pc = "cancel"
    BY <1>1 DEF Inv, ThreadsRely, CancelSend, At
  <1>3. PICK i \in f.todo :
          \/ /\ intent[i].order \in Working /\ CancelRequested(intent[i].order)
             /\ SetFrame(t, WithCancel(f, "cancelMark", i, f.todo \ {i})) /\ UNCHANGED up
          \/ UNCHANGED broker /\ BlockThen(t, i, "cancel", "idle")
    BY <1>1 DEF CancelSend, WithCancel
  <1>4. /\ i \in Intent /\ Created(i) /\ intent[i].order # None
        /\ \A j \in f.todo : j \in Intent /\ Created(j) /\ intent[j].order # None
    BY <1>2 DEF Relies, WorkIsReal, Loop, InCancel
  <1>5. StoreTame
    BY StoreStill DEF CancelSend, Inv
  <1>6. SettingsOK' /\ now' = now
    BY <1>3 DEF CancelSend, Inv, WorldOK, SettingsOK, envVars, BlockThen
  <1>7. ASSUME intent[i].order \in Working, CancelRequested(intent[i].order),
               SetFrame(t, WithCancel(f, "cancelMark", i, f.todo \ {i}))
        PROVE  Kept
    <2> DEFINE g == WithCancel(f, "cancelMark", i, f.todo \ {i})
    <2>1. IsCancel(g, f, "cancelMark", i, f.todo \ {i})
      <3>1. /\ "cancelMark" \in PC /\ i \in Intent \cup Account \cup {None}
            /\ f.todo \ {i} \in SUBSET (Intent \cup OrderId \cup Account)
        BY <1>4 DEF PC, Frame
      <3> QED
        BY <3>1, CancelFrame
    <2>2. SetFrame(t, g)
      BY <1>7
    <2> HIDE DEF g
    <2>3. OrdersGrow /\ \A p \in OrderId : broker[p] = None => broker'[p] = None
      BY <1>7, CancelGetsOn DEF Inv
    <2>4. Relies(g)
      BY <1>2, <1>4, <2>1 DEF IsCancel, Relies, WorkIsReal, HandIsReal, SnapIsPast, SameDay, PastIsExpired, Loop,
                              InOrders, InCancel, InRecover, InPending
    <2> QED
      BY <1>5, <1>6, <2>1, <2>2, <2>3, <2>4, ThreadStep DEF IsCancel, KeepsHand, Held
  <1>8. ASSUME UNCHANGED broker, BlockThen(t, i, "cancel", "idle")
        PROVE  Kept
    BY <1>1, <1>2, <1>4, <1>5, <1>6, <1>8, BlockGoes DEF Error
  <1> QED
    BY <1>3, <1>7, <1>8

LEMMA CancelMarkStep ==
  ASSUME Inv, NEW t \in Thread, CancelMark(t)
  PROVE  Kept
  <1>1. PICK f \in Frame : f = th[t]
    BY DEF Inv, ThreadsOK
  <1>2. Relies(f) /\ f.pc = "cancelMark"
    BY <1>1 DEF Inv, ThreadsRely, CancelMark, At
  <1>3. PICK i \in Intent : i = f.cur /\ Created(i) /\ intent[i].order # None
    BY <1>2 DEF Relies, HandIsReal
  <1>4. OnlyStore /\ SetStatus(i, "CANCELLING_ALL") /\ Goto(t, "cancel")
    BY <1>1, <1>3 DEF CancelMark
  <1>5. StoreTame
    <2>1. PICK o \in OrderId : order[o] # None /\ order[o].intent = i
      BY <1>3 DEF Inv, StoreInv, StoreTypeOK, IntentRow, OrdersBelongToOneIntent
    <2>2. intent[i].status \notin Refused
      BY <2>1, OrderedIsSent DEF Inv, OneOrder
    <2> QED
      BY <1>3, <1>4, <2>2, StatusTame DEF Inv, KnownOrder, ActiveOrder
  <1>6. IsPc(WithPc(f, "cancel"), f, "cancel") /\ "cancel" \in PC /\ "cancel" \notin Held
    BY PcFrame DEF PC, Held
  <1>7. Relies(WithPc(f, "cancel"))
    BY <1>2, <1>6 DEF IsPc, Relies, WorkIsReal, HandIsReal, SnapIsPast, SameDay, PastIsExpired, Loop,
                      InOrders, InCancel, InRecover, InPending
  <1> QED
    BY <1>1, <1>4, <1>5, <1>6, <1>7, GotoGoes

LEMMA MissingCheckStep ==
  ASSUME Inv, NEW t \in Thread, MissingCheck(t)
  PROVE  Kept
  <1>1. PICK f \in Frame : f = th[t]
    BY DEF Inv, ThreadsOK
  <1>2. Relies(f) /\ f.pc = "cancel"
    BY <1>1 DEF Inv, ThreadsRely, MissingCheck, At
  <1> DEFINE missing == {i \in Intent : IsOpen(i) /\ intent[i].status \notin Unsent
                                        /\ i \notin Reported(t)}
  <1>3. StoreTame /\ UNCHANGED broker
    BY StoreStill DEF MissingCheck, Inv
  <1>4. CASE missing = {}
    <2>1. Goto(t, "positions") /\ OnlyStore
      BY <1>4 DEF MissingCheck, OnlyStore
    <2>2. IsPc(WithPc(f, "positions"), f, "positions") /\ "positions" \in PC /\ "positions" \notin Held
      BY PcFrame DEF PC, Held
    <2>3. Relies(WithPc(f, "positions"))
      BY <1>2, <2>2 DEF IsPc, Relies, WorkIsReal, HandIsReal, SnapIsPast, SameDay, PastIsExpired, Loop,
                        InOrders, InCancel, InRecover, InPending
    <2> QED
      BY <1>1, <1>3, <2>1, <2>2, <2>3, GotoGoes
  <1>5. CASE missing # {}
    <2>1. PICK i \in Intent : channel' = "BLOCKED" /\ BlockThen(t, i, "missing", "idle")
      BY <1>5 DEF MissingCheck
    <2>2. SettingsOK' /\ now' = now
      BY <2>1 DEF MissingCheck, Inv, WorldOK, SettingsOK, envVars, BlockThen
    <2> QED
      BY <1>1, <1>2, <1>3, <2>1, <2>2, BlockGoes DEF Error
  <1> QED
    BY <1>4, <1>5

\* The orders of a table come to a number of lots.
LEMMA LotsInt ==
  ASSUME NEW table \in [OrderId -> OrderRow \cup {None}], NEW I \in SUBSET Intent
  PROVE  Lots(table, I) \in Int
  <1> DEFINE f == [o \in OrderId |-> Signed(table[o].intent, table[o].filled)]
             S == {o \in OrderId : table[o] # None /\ table[o].intent \in I}
  <1>1. IsFiniteSet(S)
    BY FiniteAssumption, FS_Subset
  <1>2. \A o \in S : f[o] \in Int
    BY DEF Signed, OrderRow
  <1> HIDE DEF f, S
  <1>3. SumFunctionOnSet(f, S) \in Int
    BY <1>1, <1>2, SumInt
  <1> QED
    BY <1>3 DEF Lots, f, S

\* Futu reports a number of lots.
LEMMA BrokerQuantityInt ==
  ASSUME Inv
  PROVE  BrokerQuantity \in Int
  <1>1. Lots(broker, Intent) \in Int
    BY LotsInt DEF Inv, WorldOK
  <1>2. InitialQuantity * Cardinality(Account) \in Int
    <2>1. Cardinality(Account) \in Nat
      BY FiniteAssumption, FS_CardinalityType
    <2>2. \A m, n \in Nat : m * n \in Int
      OBVIOUS
    <2> QED
      BY <2>1, <2>2, InitialAssumption
  <1> QED
    BY <1>1, <1>2 DEF BrokerQuantity

LEMMA PositionsStep ==
  ASSUME Inv, NEW t \in Thread, Positions(t)
  PROVE  Kept
  <1>1. PICK f \in Frame : f = th[t]
    BY DEF Inv, ThreadsOK
  <1>2. Relies(f) /\ f.pc = "positions"
    BY <1>1 DEF Inv, ThreadsRely, Positions, At
  <1>3. PICK n \in Int : n = BrokerQuantity
    BY BrokerQuantityInt
  <1> DEFINE g == WithHeld(f, "compare", n)
  <1>4. IsHeld(g, f, "compare")
    BY HeldFrame DEF PC
  <1>5. SetFrame(t, g) /\ UNCHANGED up
    BY <1>1, <1>3 DEF Positions, WithHeld
  <1> HIDE DEF g
  <1>6. Relies(g)
    BY <1>2, <1>4 DEF IsHeld, Relies, WorkIsReal, HandIsReal, SnapIsPast, SameDay, PastIsExpired, Loop,
                      InOrders, InCancel, InRecover, InPending
  <1>7. OnlyStore /\ StoreTame
    BY LookStep DEF Positions
  <1> QED
    BY <1>4, <1>5, <1>6, <1>7, StoreGoes DEF IsHeld, KeepsHand, Held

\* Where the channel may change too.
LEMMA ChannelAlone ==
  ASSUME Inv, UNCHANGED <<broker, pausedAll, envVars>>, channel' \in {"NONE", "OK", "BLOCKED"},
         up' \in {"down", "starting", "serving"}
  PROVE  /\ SettingsOK' /\ now' = now /\ OrdersGrow
         /\ \A o \in OrderId : broker[o] = None => broker'[o] = None
  <1>1. broker' = broker /\ WorldOK
    BY DEF Inv
  <1>2. OrdersGrow
    <2>1. \A o \in OrderId : broker[o] # None => broker[o] \in OrderRow
      BY <1>1 DEF WorldOK
    <2> QED
      BY <1>1, <2>1, BecomesReflexive DEF WorldOK, OrdersGrow
  <1> QED
    BY <1>1, <1>2 DEF WorldOK, SettingsOK, envVars

\* The accounts of what a snapshot shows are accounts.
LEMMA ReportedAccounts ==
  ASSUME NEW t \in Thread, NEW f \in Frame, f = th[t]
  PROVE  {Leg[i].account : i \in Reported(t)} \in SUBSET Account
  <1>1. Reported(t) \subseteq Intent
    BY DEF Reported, Frame, OrderRow
  <1>2. \A i \in Intent : Leg[i].account \in Account
    BY LegAssumption DEF LegType
  <1> QED
    BY <1>1, <1>2

LEMMA CompareStep ==
  ASSUME Inv, NEW t \in Thread, Compare(t)
  PROVE  Kept
  <1>1. PICK f \in Frame : f = th[t]
    BY DEF Inv, ThreadsOK
  <1>2. Relies(f) /\ f.pc = "compare"
    BY <1>1 DEF Inv, ThreadsRely, Compare, At
  <1>3. UNCHANGED <<broker, pausedAll, envVars>>
    BY DEF Compare
  <1>4. ASSUME channel' = "BLOCKED", Raise(t), StoreTame
        PROVE  Kept
    <2>1. up' \in {"down", "starting", "serving"} /\ SetFrame(t, Idle)
      BY <1>4 DEF Inv, WorldOK, Raise
    <2>2. /\ SettingsOK' /\ now' = now /\ OrdersGrow
          /\ \A o \in OrderId : broker[o] = None => broker'[o] = None
      BY <1>3, <1>4, <2>1, ChannelAlone
    <2> QED
      BY <1>4, <2>1, <2>2, EndStep
  <1>5. CASE f.held # LogicalQuantity
    <2>1. channel' = "BLOCKED" /\ UNCHANGED storeVars /\ Raise(t)
      BY <1>1, <1>5 DEF Compare
    <2> QED
      BY <1>4, <2>1, StoreStill DEF Inv
  <1>6. CASE f.held = LogicalQuantity /\ \E a \in Account : LedgerViolated(a)
    <2>1. /\ channel' = "BLOCKED" /\ Raise(t)
          /\ \E a \in Account : LedgerViolated(a) /\ SetHealth(a, "BLOCKED", "ledger")
      BY <1>1, <1>6 DEF Compare
    <2>2. StoreTame
      BY <2>1, HealthTame DEF Inv, Error
    <2> QED
      BY <1>4, <2>1, <2>2
  <1>7. CASE f.held = LogicalQuantity /\ ~\E a \in Account : LedgerViolated(a)
    <2>1. PICK T \in SUBSET Account : T = {Leg[i].account : i \in Reported(t)}
      BY <1>1, ReportedAccounts
    <2>2. /\ channel' = "OK" /\ UNCHANGED <<storeVars, up>>
          /\ SetFrame(t, WithRecover(f, "recover", NoSnap, 0, T))
      BY <1>1, <1>7, <2>1 DEF Compare, WithRecover
    <2> DEFINE g == WithRecover(f, "recover", NoSnap, 0, T)
    <2>3. IsRecover(g, f, "recover", NoSnap, T)
      <3>1. /\ "recover" \in PC /\ NoSnap \in [OrderId -> OrderRow \cup {None}] /\ 0 \in Int
            /\ T \in SUBSET (Intent \cup OrderId \cup Account)
        BY <2>1 DEF PC, NoSnap
      <3> QED
        BY <3>1, RecoverFrame
    <2>4. SetFrame(t, g)
      BY <2>2
    <2> HIDE DEF g
    <2>5. Relies(g)
      BY <1>2, <2>1, <2>3 DEF IsRecover, Relies, WorkIsReal, HandIsReal, SnapIsPast, SameDay, PastIsExpired, Loop,
                              InOrders, InCancel, InRecover, InPending, NoSnap
    <2>6. /\ SettingsOK' /\ now' = now /\ OrdersGrow
          /\ \A o \in OrderId : broker[o] = None => broker'[o] = None
      <3>1. up' \in {"down", "starting", "serving"}
        BY <2>2 DEF Inv, WorldOK
      <3> QED
        BY <1>3, <2>2, <3>1, ChannelAlone
    <2>7. StoreTame
      BY <2>2, StoreStill DEF Inv
    <2> QED
      BY <2>3, <2>4, <2>5, <2>6, <2>7, ThreadStep DEF IsRecover, KeepsHand, Held
  <1> QED
    BY <1>5, <1>6, <1>7

LEMMA RecoverStep ==
  ASSUME Inv, NEW t \in Thread, Recover(t)
  PROVE  Kept
  <1>1. PICK f \in Frame : f = th[t]
    BY DEF Inv, ThreadsOK
  <1>2. Relies(f) /\ f.pc = "recover"
    BY <1>1 DEF Inv, ThreadsRely, Recover, At
  <1>3. PICK a \in f.todo :
          SetFrame(t, WithTake(f, f.todo \ {a}, IF Transient(a) THEN "recoverSet" ELSE "recover",
                               IF Transient(a) THEN a ELSE None))
    BY <1>1 DEF Recover, WithTake
  <1>4. f.todo \subseteq Account
    BY <1>2 DEF Relies, WorkIsReal, Loop, InRecover
  <1>5. PICK p \in {"recoverSet", "recover"} : p = IF Transient(a) THEN "recoverSet" ELSE "recover"
    OBVIOUS
  <1>6. PICK c \in Account \cup {None} :
          c = IF Transient(a) THEN a ELSE None
    BY <1>4
  <1>7. p = "recoverSet" => c \in Account
    BY <1>4, <1>5, <1>6
  <1> DEFINE g == WithTake(f, f.todo \ {a}, p, c)
  <1>8. IsTake(g, f, f.todo \ {a}, p, c)
    <2>1. /\ p \in PC /\ c \in Intent \cup Account \cup {None}
          /\ f.todo \ {a} \in SUBSET (Intent \cup OrderId \cup Account)
      BY <1>4, <1>5, <1>6 DEF PC
    <2> QED
      BY <2>1, TakeFrame
  <1>9. SetFrame(t, g) /\ UNCHANGED up
    BY <1>3, <1>5, <1>6 DEF Recover
  <1> HIDE DEF g
  <1>10. Relies(g)
    BY <1>2, <1>4, <1>5, <1>7, <1>8 DEF IsTake, Relies, WorkIsReal, HandIsReal, SnapIsPast, SameDay, PastIsExpired,
                                        Loop, InOrders, InCancel, InRecover, InPending
  <1>11. OnlyStore /\ StoreTame
    BY LookStep DEF Recover
  <1> QED
    BY <1>5, <1>8, <1>9, <1>10, <1>11, StoreGoes DEF IsTake, KeepsHand, Held

LEMMA RecoverSetStep ==
  ASSUME Inv, NEW t \in Thread, RecoverSet(t)
  PROVE  Kept
  <1>1. PICK f \in Frame : f = th[t]
    BY DEF Inv, ThreadsOK
  <1>2. Relies(f) /\ f.pc = "recoverSet"
    BY <1>1 DEF Inv, ThreadsRely, RecoverSet, At
  <1>3. PICK a \in Account : a = f.cur
    BY <1>2 DEF Relies, HandIsReal
  <1>4. OnlyStore /\ SetHealth(a, "OK", "none") /\ Goto(t, "recover")
    BY <1>1, <1>3 DEF RecoverSet
  <1>5. StoreTame
    BY <1>4, HealthTame DEF Inv, Error
  <1>6. IsPc(WithPc(f, "recover"), f, "recover") /\ "recover" \in PC /\ "recover" \notin Held
    BY PcFrame DEF PC, Held
  <1>7. Relies(WithPc(f, "recover"))
    BY <1>2, <1>6 DEF IsPc, Relies, WorkIsReal, HandIsReal, SnapIsPast, SameDay, PastIsExpired, Loop,
                      InOrders, InCancel, InRecover, InPending
  <1> QED
    BY <1>1, <1>4, <1>5, <1>6, <1>7, GotoGoes

-----------------------------------------------------------------------------
(* The steps of a submission.                                              *)

LEMMA GateStep ==
  ASSUME Inv, NEW t \in Thread, Gate(t)
  PROVE  Kept
  <1>1. PICK f \in Frame : f = th[t]
    BY DEF Inv, ThreadsOK
  <1>2. Relies(f) /\ f.pc = "expire" /\ f.todo = {}
    BY <1>1 DEF Inv, ThreadsRely, Gate, At
  <1>3. OnlyStore /\ StoreTame
    BY LookStep DEF Gate
  <1>4. CASE pausedAll
    <2>1. Finish(t)
      BY <1>4 DEF Gate
    <2> QED
      BY <1>3, <2>1, StoreEnds
  <1>5. CASE ~pausedAll /\ channel = "BLOCKED"
    <2>1. Raise(t)
      BY <1>5 DEF Gate
    <2> QED
      BY <1>3, <2>1, StoreEnds
  <1>6. CASE ~pausedAll /\ channel # "BLOCKED"
    <2>1. PICK T \in SUBSET {i \in Intent : Leg[i].session > Day(f.moment)} :
            T = {i \in Intent : Recoverable(i) /\ Leg[i].session > Day(f.moment)}
      OBVIOUS
    <2> DEFINE g == WithLoop(f, "requeue", T)
    <2>2. SetFrame(t, g) /\ UNCHANGED up
      BY <1>1, <1>6, <2>1 DEF Gate, WithLoop
    <2>3. IsLoop(g, f, "requeue", T)
      <3>1. "requeue" \in PC /\ T \in SUBSET (Intent \cup OrderId \cup Account)
        BY <2>1 DEF PC
      <3> QED
        BY <3>1, LoopFrame
    <2> HIDE DEF g
    <2>4. PastIsExpired(g)
      BY <1>2, PastStays DEF Relies
    <2>5. Relies(g)
      BY <1>2, <2>1, <2>3, <2>4 DEF IsLoop, Relies, WorkIsReal, HandIsReal, SnapIsPast, SameDay, Loop,
                                    InOrders, InCancel, InRecover, InPending
    <2> QED
      BY <1>3, <2>2, <2>3, <2>5, StoreGoes DEF IsLoop, KeepsHand, Held
  <1> QED
    BY <1>4, <1>5, <1>6

\* An intent of a later session waits in the queue again.
LEMMA RequeueNextStep ==
  ASSUME Inv, NEW t \in Thread, RequeueNext(t)
  PROVE  Kept
  <1>1. PICK f \in Frame : f = th[t]
    BY DEF Inv, ThreadsOK
  <1>2. Relies(f) /\ f.pc = "requeue"
    BY <1>1 DEF Inv, ThreadsRely, RequeueNext, At
  <1>3. PICK i \in f.todo :
          IF RequeueOK(i)
          THEN /\ Requeue(i) /\ UNCHANGED up
               /\ SetFrame(t, WithRequeue(f, f.todo \ {i}, f.touched \cup {Leg[i].account}))
          ELSE UNCHANGED storeVars /\ Raise(t)
    BY <1>1 DEF RequeueNext, WithRequeue
  <1>4. i \in Intent /\ Leg[i].session > Day(f.moment) /\ Day(f.moment) = Day(now)
        /\ \A j \in f.todo : j \in Intent
    BY <1>2, <1>3 DEF Relies, WorkIsReal, SameDay, PastIsExpired, Loop
  <1>5. OnlyStore
    BY DEF RequeueNext
  <1>6. CASE RequeueOK(i)
    <2>1. StoreTame
      BY <1>3, <1>4, <1>6, RequeueTame DEF Inv
    <2> DEFINE A == f.touched \cup {Leg[i].account}
               g == WithRequeue(f, f.todo \ {i}, A)
    <2>2. SetFrame(t, g) /\ UNCHANGED up
      BY <1>3, <1>6
    <2>3. A \in SUBSET Account
      BY <1>4, LegAssumption DEF Frame, LegType
    <2> HIDE DEF A
    <2>4. IsRequeue(g, f, f.todo \ {i})
      <3>1. f.todo \ {i} \in SUBSET (Intent \cup OrderId \cup Account)
        BY <1>4
      <3> QED
        BY <2>3, <3>1, RequeueFrame
    <2> HIDE DEF g
    <2>5. Relies(g)
      BY <1>2, <1>4, <2>4 DEF IsRequeue, Relies, WorkIsReal, HandIsReal, SnapIsPast, SameDay, PastIsExpired, Loop,
                              InOrders, InCancel, InRecover, InPending
    <2> QED
      BY <1>2, <1>5, <2>1, <2>2, <2>4, <2>5, StoreGoes DEF IsRequeue, KeepsHand, Held
  <1>7. CASE ~RequeueOK(i)
    <2>1. StoreTame
      BY <1>3, <1>7, StoreStill DEF Inv
    <2> QED
      BY <1>3, <1>5, <1>7, <2>1, StoreEnds
  <1> QED
    BY <1>6, <1>7

LEMMA RequeueHealthStep ==
  ASSUME Inv, NEW t \in Thread, RequeueHealth(t)
  PROVE  Kept
  <1>1. PICK f \in Frame : f = th[t]
    BY DEF Inv, ThreadsOK
  <1>2. Relies(f) /\ f.pc = "requeue"
    BY <1>1 DEF Inv, ThreadsRely, RequeueHealth, At
  <1>3. PICK a \in f.touched :
          /\ SetFrame(t, WithTouched(f, f.touched \ {a}))
          /\ IF AttentionIntents(a) = {} THEN SetHealth(a, "OK", "none") ELSE UNCHANGED storeVars
    BY <1>1 DEF RequeueHealth, WithTouched
  <1>4. a \in Account /\ f.touched \ {a} \in SUBSET Account
    BY <1>3 DEF Frame
  <1>5. OnlyStore /\ UNCHANGED up
    BY DEF RequeueHealth
  <1>6. StoreTame
    <2>1. CASE AttentionIntents(a) = {}
      BY <1>3, <1>4, <2>1, HealthTame DEF Inv, Error
    <2>2. CASE AttentionIntents(a) # {}
      BY <1>3, <2>2, StoreStill DEF Inv
    <2> QED
      BY <2>1, <2>2
  <1> DEFINE g == WithTouched(f, f.touched \ {a})
  <1>7. IsTouched(g, f) /\ SetFrame(t, g)
    BY <1>3, <1>4, TouchedFrame
  <1> HIDE DEF g
  <1>8. Relies(g)
    BY <1>2, <1>7 DEF IsTouched, Relies, WorkIsReal, HandIsReal, SnapIsPast, SameDay, PastIsExpired, Loop,
                      InOrders, InCancel, InRecover, InPending
  <1> QED
    BY <1>2, <1>5, <1>6, <1>7, <1>8, StoreGoes DEF IsTouched, KeepsHand, Held

\* The thread begins a loop over intents of the queue.
LEMMA ScanGoes ==
  ASSUME Inv, OnlyThread, UNCHANGED up, NEW t \in Thread, NEW f \in Frame, f = th[t],
         f.pc \in {"requeue", "activate"}, NEW p \in {"activate", "pending"},
         NEW T \in SUBSET Intent, SetFrame(t, WithLoop(f, p, T))
  PROVE  Kept
  <1>1. Relies(f)
    BY DEF Inv, ThreadsRely
  <1> DEFINE g == WithLoop(f, p, T)
  <1>2. IsLoop(g, f, p, T)
    <2>1. p \in PC /\ T \in SUBSET (Intent \cup OrderId \cup Account)
      BY DEF PC
    <2> QED
      BY <2>1, LoopFrame
  <1>3. SetFrame(t, g)
    OBVIOUS
  <1> HIDE DEF g
  <1>4. Relies(g)
    BY <1>1, <1>2 DEF IsLoop, Relies, WorkIsReal, HandIsReal, SnapIsPast, SameDay, PastIsExpired, Loop,
                      InOrders, InCancel, InRecover, InPending
  <1>5. OnlyStore /\ StoreTame
    BY LookStep
  <1> QED
    BY <1>2, <1>3, <1>4, <1>5, StoreGoes DEF IsLoop, KeepsHand, Held

LEMMA ActivateScanStep ==
  ASSUME Inv, NEW t \in Thread, ActivateScan(t)
  PROVE  Kept
  <1>1. PICK f \in Frame : f = th[t]
    BY DEF Inv, ThreadsOK
  <1>2. PICK T \in SUBSET Intent : T = WithStatus("WAITING_DEPENDENCY")
    BY DEF WithStatus
  <1> QED
    BY <1>1, <1>2, ScanGoes DEF ActivateScan, At, WithLoop

LEMMA PendingScanStep ==
  ASSUME Inv, NEW t \in Thread, PendingScan(t)
  PROVE  Kept
  <1>1. PICK f \in Frame : f = th[t]
    BY DEF Inv, ThreadsOK
  <1>2. PICK T \in SUBSET Intent : T = WithStatus("PENDING_SUBMIT")
    BY DEF WithStatus
  <1> QED
    BY <1>1, <1>2, ScanGoes DEF PendingScan, At, WithLoop

\* A leg that is ready runs after its dependency was filled.
LEMMA ReadyIsFilled ==
  ASSUME Inv, NEW i \in Intent, NEW m, Ready(i, m), Leg[i].dependency # None
  PROVE  HasFilled(Leg[i].dependency)
  <1>1. Leg[i].dependency \in Intent
    BY LegAssumption DEF LegType
  <1> QED
    BY <1>1 DEF Ready, DependencyStatus, Inv, FillsFirst, FilledIsFilled

LEMMA ActivateNextStep ==
  ASSUME Inv, NEW t \in Thread, ActivateNext(t)
  PROVE  Kept
  <1>1. PICK f \in Frame : f = th[t]
    BY DEF Inv, ThreadsOK
  <1>2. Relies(f) /\ f.pc = "activate"
    BY <1>1 DEF Inv, ThreadsRely, ActivateNext, At
  <1>3. PICK i \in f.todo :
          \/ /\ Ready(i, f.moment)
             /\ IF intent[i].status = "WAITING_DEPENDENCY" THEN Activate(i) ELSE UNCHANGED storeVars
             /\ SetFrame(t, WithTodo(f, f.todo \ {i})) /\ UNCHANGED up
          \/ /\ Release(i, "EXPIRED", "gap") /\ UNCHANGED up
             /\ SetFrame(t, WithDrop(f, "block", i, "gap", "activate", f.todo \ {i}))
          \/ UNCHANGED storeVars /\ Raise(t)
          \/ /\ SetFrame(t, WithTodo(f, f.todo \ {i})) /\ UNCHANGED <<up, storeVars>>
    BY <1>1 DEF ActivateNext, WithTodo, WithDrop
  <1>4. i \in Intent /\ f.todo \subseteq Intent
    BY <1>2, <1>3 DEF Relies, WorkIsReal, Loop
  <1>5. OnlyStore
    BY DEF ActivateNext
  <1>6. ASSUME StoreTame, UNCHANGED up, SetFrame(t, WithTodo(f, f.todo \ {i}))
        PROVE  Kept
    <2> DEFINE g == WithTodo(f, f.todo \ {i})
    <2>1. IsTodo(g, f, f.todo \ {i})
      <3>1. f.todo \ {i} \in SUBSET (Intent \cup OrderId \cup Account)
        BY <1>4
      <3> QED
        BY <3>1, TodoFrame
    <2>2. SetFrame(t, g)
      BY <1>6
    <2> HIDE DEF g
    <2>3. Relies(g)
      BY <1>2, <1>4, <2>1 DEF IsTodo, Relies, WorkIsReal, HandIsReal, SnapIsPast, SameDay, PastIsExpired, Loop,
                              InOrders, InCancel, InRecover, InPending
    <2> QED
      BY <1>2, <1>5, <1>6, <2>1, <2>2, <2>3, StoreGoes DEF IsTodo, KeepsHand, Held
  <1>7. ASSUME Ready(i, f.moment),
               IF intent[i].status = "WAITING_DEPENDENCY" THEN Activate(i) ELSE UNCHANGED storeVars
        PROVE  StoreTame
    <2>1. CASE intent[i].status = "WAITING_DEPENDENCY"
      <3>1. Leg[i].session >= Day(now)
        BY <1>2, <1>4, <1>7, LegAssumption DEF Relies, SameDay, Ready, LegType
      <3> QED
        BY <1>4, <1>7, <2>1, <3>1, ReadyIsFilled, ActivateTame DEF Inv
    <2>2. CASE intent[i].status # "WAITING_DEPENDENCY"
      BY <1>7, <2>2, StoreStill DEF Inv
    <2> QED
      BY <2>1, <2>2
  <1>8. ASSUME Release(i, "EXPIRED", "gap"), UNCHANGED up,
               SetFrame(t, WithDrop(f, "block", i, "gap", "activate", f.todo \ {i}))
        PROVE  Kept
    <2>1. StoreTame
      BY <1>4, <1>8, ReleaseTame DEF Inv, TerminalIntent, Reason, Refused
    <2>2. intent'[i].status # "PENDING_SUBMIT"
      BY <1>4, <1>8, ReleasedIsOut DEF Inv, TerminalIntent
    <2> QED
      BY <1>1, <1>2, <1>3, <1>5, <1>8, <2>1, <2>2, DropGoes
  <1>9. ASSUME UNCHANGED storeVars
        PROVE  StoreTame
    BY <1>9, StoreStill DEF Inv
  <1>10. ASSUME UNCHANGED storeVars, Raise(t)
         PROVE  Kept
    BY <1>5, <1>9, <1>10, StoreEnds
  <1> QED
    BY <1>3, <1>6, <1>7, <1>8, <1>9, <1>10

LEMMA ConsiderStep ==
  ASSUME Inv, NEW t \in Thread, Consider(t)
  PROVE  Kept
  <1>1. PICK f \in Frame : f = th[t]
    BY DEF Inv, ThreadsOK
  <1>2. Relies(f) /\ f.pc = "pending"
    BY <1>1 DEF Inv, ThreadsRely, Consider, At
  <1>3. PICK i \in f.todo :
          SetFrame(t, WithTake(f, f.todo \ {i},
            IF MayTrade(Leg[i].account) /\ Due(i, f.moment) THEN "claim" ELSE "pending",
            IF MayTrade(Leg[i].account) /\ Due(i, f.moment) THEN i ELSE None))
    BY <1>1 DEF Consider, WithTake
  <1>4. f.todo \subseteq Intent /\ i \in Intent
    BY <1>2, <1>3 DEF Relies, WorkIsReal, Loop, InPending
  <1>5. PICK p \in {"claim", "pending"} :
          p = IF MayTrade(Leg[i].account) /\ Due(i, f.moment) THEN "claim" ELSE "pending"
    OBVIOUS
  <1>6. PICK c \in Intent \cup {None} :
          c = IF MayTrade(Leg[i].account) /\ Due(i, f.moment) THEN i ELSE None
    BY <1>4
  <1>7. p = "claim" => c \in Intent /\ Leg[c].session <= Day(f.moment)
    BY <1>4, <1>5, <1>6 DEF Due
  <1> DEFINE g == WithTake(f, f.todo \ {i}, p, c)
  <1>8. IsTake(g, f, f.todo \ {i}, p, c)
    <2>1. /\ p \in PC /\ c \in Intent \cup Account \cup {None}
          /\ f.todo \ {i} \in SUBSET (Intent \cup OrderId \cup Account)
      BY <1>4, <1>5, <1>6 DEF PC
    <2> QED
      BY <2>1, TakeFrame
  <1>9. SetFrame(t, g) /\ UNCHANGED up
    BY <1>3, <1>5, <1>6 DEF Consider
  <1> HIDE DEF g
  <1>10. Relies(g)
    BY <1>2, <1>4, <1>5, <1>7, <1>8 DEF IsTake, Relies, WorkIsReal, HandIsReal, SnapIsPast, SameDay, PastIsExpired,
                                        Loop, InOrders, InCancel, InRecover, InPending
  <1>11. OnlyStore /\ StoreTame
    BY LookStep DEF Consider
  <1> QED
    BY <1>5, <1>8, <1>9, <1>10, <1>11, StoreGoes DEF IsTake, KeepsHand, Held

\* The thread goes on to the next intent.
LEMMA NextGoes ==
  ASSUME Inv, OnlyStore, StoreTame, NEW t \in Thread, NEW f \in Frame, f = th[t],
         f.pc \in {"claim", "placed"}, NextPending(t)
  PROVE  Kept
  <1>1. Relies(f)
    BY DEF Inv, ThreadsRely
  <1> DEFINE g == WithNext(f, "pending", None, None)
  <1>2. IsNext(g, f, "pending", None, None)
    BY NextFrame DEF PC
  <1>3. SetFrame(t, g) /\ UNCHANGED up
    BY DEF NextPending, WithNext
  <1> HIDE DEF g
  <1>4. Relies(g)
    BY <1>1, <1>2 DEF IsNext, Relies, WorkIsReal, HandIsReal, SnapIsPast, SameDay, PastIsExpired, Loop,
                      InOrders, InCancel, InRecover, InPending
  <1> QED
    BY <1>2, <1>3, <1>4, StoreGoes DEF IsNext, KeepsHand, Held

\* An intent that is due and whose dependency was filled leaves the queue, or
\* reaches Futu; the others stay where they are.
LEMMA OneGoesOut ==
  ASSUME Inv, StoreTame, OrdersGrow, now' = now, NEW i \in Intent,
         intent'[i].status \notin Withheld, Leg[i].session <= Day(now),
         \A j \in Intent : ~Refusing(j),
         Leg[i].dependency # None => HasFilled(Leg[i].dependency),
         \A j \in Intent \ {i} :
           OrdersOf(j)' = OrdersOf(j) /\ \A u \in Thread : Holds(u, j)' => Holds(u, j)
  PROVE  WithheldIsClean' /\ SentIsDue' /\ FillsFirst'
  <1>1. \A j \in Intent \ {i} : Clean(j) => Clean(j)'
    BY DEF Clean
  <1>2. WithheldIsClean'
    <2> SUFFICES ASSUME NEW j \in Intent, intent'[j].status \in Withheld
                 PROVE  Clean(j)'
      BY DEF WithheldIsClean
    <2>1. j # i /\ (intent[j].status \in Withheld \/ Leg[j].session > Day(now))
      BY DEF StoreTame, Lawful
    <2>2. Leg[j].session \in Nat /\ Day(now) \in Int
      BY LegAssumption, NowIsNat DEF LegType, Inv
    <2>3. Clean(j)
      BY <2>1, <2>2 DEF Inv, OneOrder, WithheldIsClean, SentIsDue
    <2> QED
      BY <1>1, <2>1, <2>3
  <1>3. SentIsDue'
    <2> SUFFICES ASSUME NEW j \in Intent
                 PROVE  Clean(j)' \/ Leg[j].session <= Day(now)
      BY DEF SentIsDue
    <2>1. CASE j = i
      BY <2>1
    <2>2. CASE j # i
      BY <1>1, <2>2 DEF Inv, OneOrder, SentIsDue
    <2> QED
      BY <2>1, <2>2
  <1>4. FilledIsFilled'
    <2> SUFFICES ASSUME NEW j \in Intent, intent'[j].status = "FILLED_ALL"
                 PROVE  HasFilled(j)'
      BY DEF FilledIsFilled
    <2>1. HasFilled(j)
      BY DEF Inv, FillsFirst, FilledIsFilled, StoreTame, Lawful
    <2> QED
      BY <2>1, FilledStays
  <1>5. QueuedAfterFill'
    <2> SUFFICES ASSUME NEW j \in Intent, Leg[j].dependency # None,
                        intent'[j].status = "PENDING_SUBMIT" \/ ~Clean(j)'
                 PROVE  HasFilled(Leg[j].dependency)'
      BY DEF QueuedAfterFill
    <2>1. HasFilled(Leg[j].dependency)
      <3>1. CASE j = i
        BY <3>1
      <3>2. CASE j # i /\ intent'[j].status = "PENDING_SUBMIT"
        BY <3>2 DEF Inv, FillsFirst, QueuedAfterFill, StoreTame, Lawful
      <3>3. CASE j # i /\ ~Clean(j)'
        BY <1>1, <3>3 DEF Inv, FillsFirst, QueuedAfterFill
      <3> QED
        BY <3>1, <3>2, <3>3
    <2> QED
      BY <2>1, FilledStays
  <1> QED
    BY <1>2, <1>3, <1>4, <1>5 DEF FillsFirst

\* What such a step comes to.
LEMMA GoneOutStep ==
  ASSUME Inv, StoreTame, OrdersGrow, SettingsOK', ThreadsOK', ThreadsRely',
         SendersAlone', WithheldIsClean', SentIsDue', AtMostOneOrder', FillsFirst', SentToday
  PROVE  Kept
  <1>1. StoreInv'
    BY StoreStep DEF Inv, StoreTame
  <1>2. BookedFillsExist'
    BY <1>1, BookedStays DEF Inv
  <1>3. WorldOK'
    BY DEF SettingsOK, OrdersGrow, WorldOK
  <1>4. OneOrder'
    BY DEF OneOrder
  <1>5. RefusedStay
    BY DEF StoreTame, Lawful, RefusedStay
  <1> QED
    BY <1>1, <1>2, <1>3, <1>4, <1>5 DEF Kept, Inv, StoreTame

\* A thread that comes from another step than a refusal refuses nothing.
LEMMA NothingRefused ==
  ASSUME NEW t \in Thread, th[t].pc # "reject", \A u \in Thread \ {t} : th'[u] = th[u]
  PROVE  \A j \in Intent : ~Refusing(j)
  BY DEF Refusing, Held

\* The claim: the thread is the only one that will send the intent.
LEMMA ClaimGoes ==
  ASSUME Inv, OnlyStore, NEW t \in Thread, NEW f \in Frame, f = th[t], f.pc = "claim",
         NEW i \in Intent, i = f.cur, Claim(i), Goto(t, "send")
  PROVE  Kept
  <1>1. Relies(f) /\ Leg[i].session = Day(now)
    <2>1. Relies(f) /\ Leg[i].session <= Day(now)
      BY DEF Inv, ThreadsRely, Relies, HandIsReal, SameDay
    <2>2. ~(Leg[i].session < Day(now))
      BY <2>1 DEF Relies, PastIsExpired, Loop, Claim
    <2>3. Leg[i].session \in Nat /\ Day(now) \in Int
      BY LegAssumption, NowIsNat DEF LegType, Inv
    <2> QED
      BY <2>1, <2>2, <2>3
  <1>2. StoreTame /\ intent'[i].status = "SUBMITTING"
    BY ClaimTame DEF Inv
  <1>3. up' \in {"down", "starting", "serving"} /\ UNCHANGED broker
    BY DEF Inv, WorldOK, Goto, OnlyStore
  <1>4. SettingsOK' /\ now' = now /\ OrdersGrow
    BY <1>3, StoreAlone
  <1> DEFINE g == WithPc(f, "send")
  <1>5. IsPc(g, f, "send") /\ SetFrame(t, g)
    BY PcFrame DEF PC, Goto, WithPc
  <1> HIDE DEF g
  <1>6. g \in Frame /\ g.pc = "send" /\ g.cur = i
    BY <1>5 DEF IsPc
  <1>7. Relies(g)'
    <2>1. Relies(f)'
      BY <1>1, <1>2, <1>4, ReliesKept DEF Inv
    <2>2. Leg[i].session = Day(f.moment)
      BY <1>1 DEF Relies, SameDay
    <2> QED
      BY <1>2, <1>5, <2>1, <2>2 DEF IsPc, Relies, WorkIsReal, HandIsReal, SnapIsPast, SameDay, PastIsExpired, Loop,
                              InOrders, InCancel, InRecover, InPending, Created
  <1>8. /\ ThreadsOK' /\ ThreadsRely' /\ th'[t] = g
        /\ \A u \in Thread \ {t} : th'[u] = th[u]
    BY <1>2, <1>4, <1>5, <1>6, <1>7, ThreadsGoOn DEF Inv
  <1>9. \A j : OrdersOf(j)' = OrdersOf(j)
    BY <1>3 DEF OrdersOf
  <1>10. \A u \in Thread, j \in Intent : Holds(u, j)' => Holds(u, j) \/ (u = t /\ j = i)
    BY <1>6, <1>8 DEF Holds, Held
  <1>11. Clean(i)
    BY DEF Claim, Inv, OneOrder, WithheldIsClean, Withheld, Unsent
  <1>12. SendersAlone'
    <2> SUFFICES ASSUME NEW u \in Thread, th'[u].pc \in Held, NEW j, j = th'[u].cur
                 PROVE  /\ th'[u].pc \in Untold => OrdersOf(j)' = {}
                        /\ \A w \in Thread : Holds(w, j)' => w = u
      BY DEF SendersAlone, OrdersOf, Holds
    <2>1. j \in Intent
      BY <1>8 DEF ThreadsRely, Relies, HandIsReal, Held
    <2>2. CASE u = t
      <3>1. j = i
        BY <1>6, <1>8, <2>2
      <3> QED
        BY <1>9, <1>10, <1>11, <2>2, <3>1 DEF Clean
    <2>3. CASE u # t
      <3>1. th'[u].pc = th[u].pc /\ th[u].pc \in Held /\ th[u].cur = j /\ Holds(u, j)
        BY <1>8, <2>3 DEF Holds
      <3>2. j # i
        BY <1>11, <3>1 DEF Clean
      <3>3. /\ th[u].pc \in Untold => OrdersOf(j) = {}
            /\ \A w \in Thread : Holds(w, j) => w = u
        BY <3>1 DEF Inv, OneOrder, SendersAlone
      <3> QED
        BY <1>9, <1>10, <2>1, <3>1, <3>2, <3>3
    <2> QED
      BY <2>2, <2>3
  <1>13. AtMostOneOrder'
    BY <1>3 DEF Inv, OneOrder, AtMostOneOrder
  <1>14. WithheldIsClean' /\ SentIsDue' /\ FillsFirst'
    <2>1. intent'[i].status \notin Withheld
      BY <1>2 DEF Withheld, Unsent, Refused
    <2>2. Leg[i].dependency # None => HasFilled(Leg[i].dependency)
      BY DEF Claim, Inv, FillsFirst, QueuedAfterFill
    <2>3. \A j \in Intent : ~Refusing(j)
      BY <1>8, NothingRefused
    <2>4. Leg[i].session <= Day(now)
      BY <1>1, NowIsNat DEF Inv
    <2> QED
      BY <1>2, <1>4, <1>9, <1>10, <2>1, <2>2, <2>3, <2>4, OneGoesOut
  <1>15. SentToday
    BY <1>3 DEF SentToday
  <1> QED
    BY <1>2, <1>4, <1>8, <1>12, <1>13, <1>14, <1>15, GoneOutStep

LEMMA ClaimNextStep ==
  ASSUME Inv, NEW t \in Thread, ClaimNext(t)
  PROVE  Kept
  <1>1. PICK f \in Frame : f = th[t]
    BY DEF Inv, ThreadsOK
  <1>2. Relies(f) /\ f.pc = "claim"
    BY <1>1 DEF Inv, ThreadsRely, ClaimNext, At
  <1>3. PICK i \in Intent : i = f.cur
    BY <1>2 DEF Relies, HandIsReal
  <1>4. OnlyStore /\ IF intent[i].status = "PENDING_SUBMIT"
                     THEN Claim(i) /\ Goto(t, "send")
                     ELSE UNCHANGED storeVars /\ NextPending(t)
    BY <1>1, <1>3 DEF ClaimNext
  <1>5. CASE intent[i].status = "PENDING_SUBMIT"
    BY <1>1, <1>2, <1>3, <1>4, <1>5, ClaimGoes
  <1>6. CASE intent[i].status # "PENDING_SUBMIT"
    <2>1. StoreTame
      BY <1>4, <1>6, StoreStill DEF Inv
    <2> QED
      BY <1>1, <1>2, <1>4, <1>6, <2>1, NextGoes
  <1> QED
    BY <1>5, <1>6

\* Futu takes a new order.
LEMMA NewOrderGrows ==
  ASSUME WorldOK, NEW o \in OrderId, broker[o] = None, NEW r \in OrderRow, SetOrder(o, r)
  PROVE  /\ OrdersGrow /\ broker'[o] = r /\ r # None
         /\ \A p \in OrderId \ {o} : broker'[p] = broker[p]
  <1>1. broker'[o] = r /\ \A p \in OrderId \ {o} : broker'[p] = broker[p]
    BY DEF WorldOK, SetOrder
  <1>2. broker' \in [OrderId -> OrderRow \cup {None}]
    BY DEF WorldOK, SetOrder
  <1>3. ASSUME NEW p \in OrderId, broker[p] # None
        PROVE  Becomes(broker[p], broker'[p])
    <2>1. p # o /\ broker[p] \in OrderRow
      BY <1>3 DEF WorldOK
    <2> QED
      BY <1>1, <2>1, BecomesReflexive
  <1> QED
    BY <1>1, <1>2, <1>3, NoneAssumption DEF OrdersGrow

\* The order of the intent that is sent reaches Futu, with or without an answer.
LEMMA SendGoes ==
  ASSUME Inv, NEW t \in Thread, NEW f \in Frame, f = th[t], f.pc = "send",
         UNCHANGED <<storeVars, channel, pausedAll, up, envVars>>,
         NEW i \in Intent, i = f.cur, NEW o \in OrderId, broker[o] = None, NEW r \in OrderRow,
         r.intent = i, SetOrder(o, r),
         NEW a \in {"accepted", "lost"},
         SetFrame(t, WithSent(f, IF a = "accepted" THEN o ELSE None,
                                 IF a = "accepted" THEN "placed" ELSE "uncertain"))
  PROVE  Kept
  <1>1. Relies(f) /\ Created(i) /\ Leg[i].session = Day(now)
    BY DEF Inv, ThreadsRely, Relies, HandIsReal, SameDay
  <1>2. StoreTame /\ intent' = intent
    BY StoreStill DEF Inv, storeVars
  <1>3. /\ OrdersGrow /\ broker'[o] = r /\ r # None
        /\ \A p \in OrderId \ {o} : broker'[p] = broker[p]
    BY NewOrderGrows DEF Inv
  <1>4. SettingsOK' /\ now' = now
    BY DEF Inv, WorldOK, SettingsOK, envVars
  <1>5. PICK p \in {"placed", "uncertain"}, q \in OrderId \cup {None} :
          /\ p = IF a = "accepted" THEN "placed" ELSE "uncertain"
          /\ q = IF a = "accepted" THEN o ELSE None
    OBVIOUS
  <1>6. p = "placed" => q = o
    BY <1>5
  <1> DEFINE g == WithSent(f, q, p)
  <1>7. IsSent(g, f, q, p)
    <2>1. p \in PC /\ q \in OrderId \cup {None}
      BY <1>5 DEF PC
    <2> QED
      BY <2>1, SentFrame
  <1>8. SetFrame(t, g)
    BY <1>5
  <1> HIDE DEF g
  <1>9. Relies(g)'
    <2>1. Relies(f)'
      BY <1>1, <1>2, <1>3, <1>4, ReliesKept DEF Inv
    <2> QED
      BY <1>3, <1>5, <1>6, <1>7, <2>1 DEF IsSent, Relies, WorkIsReal, HandIsReal, SnapIsPast,
                              SameDay, PastIsExpired, Loop, InOrders, InCancel, InRecover, InPending
  <1>10. /\ ThreadsOK' /\ ThreadsRely' /\ th'[t] = g
         /\ \A u \in Thread \ {t} : th'[u] = th[u]
    BY <1>2, <1>3, <1>4, <1>7, <1>8, <1>9, ThreadsGoOn DEF Inv, IsSent
  <1>11. \A u \in Thread, j \in Intent : Holds(u, j)' => Holds(u, j)
    BY <1>5, <1>7, <1>10 DEF Holds, Held, IsSent
  <1>12. \A j \in Intent \ {i} : OrdersOf(j)' = OrdersOf(j)
    BY <1>3 DEF OrdersOf
  <1>13. OrdersOf(i) = {} /\ \A u \in Thread : Holds(u, i) => u = t
    BY DEF Inv, OneOrder, SendersAlone, Held, Untold
  <1>14. ~Clean(i)
    BY DEF Clean, Holds, Held
  <1>15. SendersAlone'
    <2> SUFFICES ASSUME NEW u \in Thread, th'[u].pc \in Held, NEW j, j = th'[u].cur
                 PROVE  /\ th'[u].pc \in Untold => OrdersOf(j)' = {}
                        /\ \A w \in Thread : Holds(w, j)' => w = u
      BY DEF SendersAlone, OrdersOf, Holds
    <2>1. j \in Intent /\ Holds(u, j)'
      BY <1>10 DEF ThreadsRely, Relies, HandIsReal, Holds, Held
    <2>2. Holds(u, j)
      BY <1>11, <2>1
    <2>3. /\ th[u].pc \in Untold => OrdersOf(j) = {}
          /\ \A w \in Thread : Holds(w, j) => w = u
      BY <2>2 DEF Inv, OneOrder, SendersAlone, Holds
    <2>4. th'[u].pc \in Untold => u # t /\ j # i /\ th[u].pc \in Untold
      <3>1. CASE u = t
        BY <1>5, <1>7, <1>10, <3>1 DEF IsSent, Untold
      <3>2. CASE u # t
        BY <1>10, <1>13, <2>2, <3>2
      <3> QED
        BY <3>1, <3>2
    <2> QED
      BY <1>11, <1>12, <2>1, <2>3, <2>4
  <1>16. AtMostOneOrder'
    <2> SUFFICES ASSUME NEW x \in OrderId, NEW y \in OrderId, broker'[x] # None,
                        broker'[y] # None, broker'[x].intent = broker'[y].intent
                 PROVE  x = y
      BY DEF AtMostOneOrder
    <2>1. CASE x # o /\ y # o
      BY <1>3, <2>1 DEF Inv, OneOrder, AtMostOneOrder
    <2>2. CASE x = o /\ y # o
      BY <1>3, <1>13, <2>2 DEF OrdersOf
    <2>3. CASE x # o /\ y = o
      BY <1>3, <1>13, <2>3 DEF OrdersOf
    <2> QED
      BY <2>1, <2>2, <2>3
  <1>17. WithheldIsClean' /\ SentIsDue' /\ FillsFirst'
    <2>1. intent'[i].status \notin Withheld /\ Leg[i].session <= Day(now)
      BY <1>2, <1>14 DEF Inv, OneOrder, WithheldIsClean, SentIsDue
    <2>3. \A j \in Intent : ~Refusing(j)
      BY <1>10, NothingRefused
    <2>2. Leg[i].dependency # None => HasFilled(Leg[i].dependency)
      BY <1>14 DEF Inv, FillsFirst, QueuedAfterFill
    <2> QED
      BY <1>2, <1>3, <1>4, <1>11, <1>12, <2>1, <2>2, <2>3, OneGoesOut
  <1>18. SentToday
    BY <1>1, <1>3 DEF SentToday
  <1> QED
    BY <1>2, <1>3, <1>4, <1>10, <1>15, <1>16, <1>17, <1>18, GoneOutStep

LEMMA SendStep ==
  ASSUME Inv, NEW t \in Thread, Send(t)
  PROVE  Kept
  <1>1. PICK f \in Frame : f = th[t]
    BY DEF Inv, ThreadsOK
  <1>2. Relies(f) /\ f.pc = "send"
    BY <1>1 DEF Inv, ThreadsRely, Send, At
  <1>3. PICK i \in Intent : i = f.cur /\ Created(i)
    BY <1>2 DEF Relies, HandIsReal
  <1>4. UNCHANGED <<storeVars, channel, pausedAll, up, envVars>>
    BY DEF Send
  <1>5. PICK out \in Outcome :
          CASE out \in {"accepted", "lost"} ->
                 \E o \in OrderId :
                   /\ broker[o] = None
                   /\ SetOrder(o, NewOrder(i))
                   /\ SetFrame(t, WithSent(f, IF out = "accepted" THEN o ELSE None,
                                              IF out = "accepted" THEN "placed" ELSE "uncertain"))
            [] out = "never" ->
                 SetFrame(t, WithPc(f, "uncertain")) /\ UNCHANGED broker
            [] OTHER ->
                 SetFrame(t, WithRefused(f, "reject", out)) /\ UNCHANGED broker
    BY <1>1, <1>3, OutcomeAssumption DEF Send, SetOrder, WithSent, WithPc, WithRefused
  <1>6. CASE out \in {"accepted", "lost"}
    <2>1. PICK o \in OrderId :
            /\ broker[o] = None
            /\ SetOrder(o, NewOrder(i))
            /\ SetFrame(t, WithSent(f, IF out = "accepted" THEN o ELSE None,
                                       IF out = "accepted" THEN "placed" ELSE "uncertain"))
      BY <1>5, <1>6
    <2>2. NewOrder(i) \in OrderRow /\ NewOrder(i).intent = i
      BY DEF NewOrder, OrderRow, KnownOrder, ActiveOrder
    <2> QED
      BY <1>1, <1>2, <1>3, <1>4, <1>6, <2>1, <2>2, SendGoes
  <1>7. CASE out \notin {"accepted", "lost"}
    <2>1. PICK g \in Frame :
            /\ SetFrame(t, g) /\ UNCHANGED broker
            /\ KeepsHand(f, g) /\ Relies(g)
      <3>1. CASE out = "never"
        <4>1. IsPc(WithPc(f, "uncertain"), f, "uncertain")
          BY PcFrame DEF PC
        <4>2. Relies(WithPc(f, "uncertain"))
          BY <1>2, <4>1 DEF IsPc, Relies, WorkIsReal, HandIsReal, SnapIsPast, SameDay, PastIsExpired, Loop,
                            InOrders, InCancel, InRecover, InPending
        <4>3. SetFrame(t, WithPc(f, "uncertain")) /\ UNCHANGED broker
          BY <1>5, <3>1
        <4> QED
          BY <1>2, <4>1, <4>2, <4>3 DEF IsPc, KeepsHand, Held, Untold
      <3>2. CASE out # "never"
        <4>1. out \in {"REJECTED", "SUBMISSION_FAILED"}
          BY <1>7, <3>2 DEF Outcome
        <4>2. IsRefused(WithRefused(f, "reject", out), f, "reject", out)
          <5>1. "reject" \in PC /\ out \in IntentStatus
            BY <4>1 DEF PC, IntentStatus, TerminalIntent
          <5> QED
            BY <5>1, RefusedFrame
        <4>3. Relies(WithRefused(f, "reject", out))
          BY <1>2, <4>1, <4>2 DEF IsRefused, Relies, WorkIsReal, HandIsReal, SnapIsPast, SameDay, PastIsExpired,
                                  Loop, InOrders, InCancel, InRecover, InPending
        <4>4. SetFrame(t, WithRefused(f, "reject", out)) /\ UNCHANGED broker
          BY <1>5, <1>7, <3>2
        <4> QED
          BY <1>2, <4>2, <4>3, <4>4 DEF IsRefused, KeepsHand, Held, Untold
      <3> QED
        BY <3>1, <3>2
    <2>2. OnlyStore /\ UNCHANGED up /\ StoreTame
      BY <1>4, <2>1, StoreStill DEF OnlyStore, Inv
    <2> QED
      BY <1>1, <2>1, <2>2, StoreGoes
  <1> QED
    BY <1>6, <1>7

\* The account is blocked, or the order is tied to its intent.
LEMMA PlacedStep ==
  ASSUME Inv, NEW t \in Thread, Placed(t)
  PROVE  Kept
  <1>1. PICK f \in Frame : f = th[t]
    BY DEF Inv, ThreadsOK
  <1>2. Relies(f) /\ f.pc = "placed"
    BY <1>1 DEF Inv, ThreadsRely, Placed, At
  <1>3. PICK i \in Intent : i = f.cur
    BY <1>2 DEF Relies, HandIsReal
  <1>4. PICK o \in OrderId : o = f.ord /\ broker[o] # None /\ broker[o].intent = i
    BY <1>2, <1>3 DEF Relies, HandIsReal
  <1>5. OnlyStore /\ IF BindOK(i, o)
                     THEN (\E s \in Answers(o) : Bind(i, o, s)) /\ NextPending(t)
                     ELSE UNCHANGED storeVars /\ Goto(t, "uncertain")
    BY <1>1, <1>3, <1>4 DEF Placed
  <1>6. CASE BindOK(i, o)
    <2>1. PICK s \in Answers(o) : Bind(i, o, s)
      BY <1>5, <1>6
    <2>2. s \in KnownOrder
      <3>1. broker[o].status \in KnownOrder
        BY <1>4 DEF Inv, WorldOK, OrderRow
      <3> QED
        BY <2>1, <3>1 DEF Answers, KnownOrder, ActiveOrder
    <2>3. s = "FILLED_ALL" => HasFilled(i)
      BY <1>4, <2>1 DEF Answers, HasFilled, OrdersOf
    <2>4. StoreTame
      BY <1>4, <2>1, <2>2, <2>3, BindTame DEF Inv
    <2> QED
      BY <1>1, <1>2, <1>5, <1>6, <2>4, NextGoes
  <1>7. CASE ~BindOK(i, o)
    <2>1. StoreTame
      BY <1>5, <1>7, StoreStill DEF Inv
    <2> DEFINE g == WithPc(f, "uncertain")
    <2>2. IsPc(g, f, "uncertain")
      BY PcFrame DEF PC
    <2>3. SetFrame(t, g) /\ UNCHANGED up
      BY <1>1, <1>5, <1>7 DEF Goto, WithPc
    <2> HIDE DEF g
    <2>4. Relies(g)
      BY <1>2, <2>2 DEF IsPc, Relies, WorkIsReal, HandIsReal, SnapIsPast, SameDay, PastIsExpired, Loop,
                        InOrders, InCancel, InRecover, InPending
    <2>5. KeepsHand(f, g)
      BY <1>2, <2>2 DEF IsPc, KeepsHand, Held, Untold
    <2> QED
      BY <1>1, <1>2, <1>5, <2>1, <2>2, <2>3, <2>4, <2>5, StoreGoes DEF IsPc
  <1> QED
    BY <1>6, <1>7

LEMMA UncertainStep ==
  ASSUME Inv, NEW t \in Thread, Uncertain(t)
  PROVE  Kept
  <1>1. PICK f \in Frame : f = th[t]
    BY DEF Inv, ThreadsOK
  <1>2. Relies(f) /\ f.pc = "uncertain"
    BY <1>1 DEF Inv, ThreadsRely, Uncertain, At
  <1>3. PICK i \in Intent : i = f.cur /\ Created(i)
    BY <1>2 DEF Relies, HandIsReal
  <1>4. /\ OnlyStore /\ SetStatus(i, "SUBMISSION_UNCERTAIN")
        /\ BlockThen(t, i, "transient", "idle")
    BY <1>1, <1>3 DEF Uncertain
  <1>5. StoreTame
    <2>1. ~Clean(i)
      BY <1>1, <1>2, <1>3 DEF Clean, Holds, Held
    <2>2. intent[i].status \notin Refused
      BY <2>1 DEF Inv, OneOrder, WithheldIsClean, Withheld
    <2> QED
      BY <1>3, <1>4, <2>2, StatusTame DEF Inv
  <1>6. up' \in {"down", "starting", "serving"} /\ UNCHANGED broker
    BY <1>4 DEF BlockThen, Inv, WorldOK, OnlyStore
  <1>7. SettingsOK' /\ now' = now
    BY <1>4, <1>6, StoreAlone
  <1> QED
    BY <1>1, <1>2, <1>4, <1>5, <1>6, <1>7, BlockGoes DEF Error

LEMMA RejectStep ==
  ASSUME Inv, NEW t \in Thread, Reject(t)
  PROVE  Kept
  <1>1. PICK f \in Frame : f = th[t]
    BY DEF Inv, ThreadsOK
  <1>2. Relies(f) /\ f.pc = "reject"
    BY <1>1 DEF Inv, ThreadsRely, Reject, At
  <1>3. PICK i \in Intent : i = f.cur /\ Created(i)
    BY <1>2 DEF Relies, HandIsReal
  <1>4. PICK s \in {"REJECTED", "SUBMISSION_FAILED"} : s = f.prev
    BY <1>2 DEF Relies, HandIsReal
  <1>5. OnlyStore /\ IF ReleaseOK(i)
                     THEN /\ Release(i, s, "gap") /\ UNCHANGED up
                          /\ SetFrame(t, WithReject(f, "block", "gap", "pending", TRUE))
                     ELSE UNCHANGED storeVars /\ Raise(t)
    BY <1>1, <1>3, <1>4 DEF Reject, WithReject
  <1>6. CASE ReleaseOK(i)
    <2> DEFINE g == WithReject(f, "block", "gap", "pending", TRUE)
    <2>2. IsReject(g, f, "block", "pending")
      BY RejectFrame DEF PC, Error
    <2>3. SetFrame(t, g) /\ UNCHANGED up
      BY <1>5, <1>6
    <2> HIDE DEF g
    <2>1. StoreTame
      <3>1. th'[t] = g
        BY <1>1, <2>3 DEF SetFrame, Inv, ThreadsOK
      <3>2. Refusing(i)
        BY <1>1, <1>2, <1>3, <2>2, <3>1 DEF Refusing, IsReject, Held
      <3> QED
        BY <1>5, <1>6, <3>2, ReleaseTame DEF Inv, TerminalIntent, Reason
    <2>4. Relies(g)
      BY <1>2, <1>3, <2>2 DEF IsReject, Relies, WorkIsReal, HandIsReal, SnapIsPast, SameDay, PastIsExpired, Loop,
                              InOrders, InCancel, InRecover, InPending
    <2> QED
      BY <1>5, <2>1, <2>2, <2>3, <2>4, StoreGoes DEF IsReject, KeepsHand, Held
  <1>7. CASE ~ReleaseOK(i)
    <2>1. StoreTame
      BY <1>5, <1>7, StoreStill DEF Inv
    <2> QED
      BY <1>5, <1>7, <2>1, StoreEnds
  <1> QED
    BY <1>6, <1>7

LEMMA SubmitDoneStep ==
  ASSUME Inv, NEW t \in Thread, SubmitDone(t)
  PROVE  Kept
  BY LookStep, StoreEnds DEF SubmitDone

-----------------------------------------------------------------------------
(* The steps of the operator.                                              *)

\* From one step of the operation to the next.
LEMMA OperateGoes ==
  ASSUME Inv, OnlyStore, StoreTame, NEW t \in Thread, NEW f \in Frame, f = th[t],
         NEW p \in {"ackCheck", "ackSet", "create"},
         p \in {"ackCheck", "ackSet"} => f.pc \in {"resolve", "ackCheck"},
         p = "create" => f.pc = "save", Goto(t, p)
  PROVE  Kept
  <1>1. Relies(f)
    BY DEF Inv, ThreadsRely
  <1>2. p \in PC /\ p \notin Held
    BY DEF PC, Held
  <1>3. IsPc(WithPc(f, p), f, p)
    BY <1>2, PcFrame
  <1>4. Relies(WithPc(f, p))
    BY <1>1, <1>3 DEF IsPc, Relies, WorkIsReal, HandIsReal, SnapIsPast, SameDay, PastIsExpired, Loop,
                      InOrders, InCancel, InRecover, InPending
  <1> QED
    BY <1>2, <1>4, GotoGoes

LEMMA ResolveGapStep ==
  ASSUME Inv, NEW t \in Thread, ResolveGap(t)
  PROVE  Kept
  <1>1. PICK f \in Frame : f = th[t]
    BY DEF Inv, ThreadsOK
  <1>2. Relies(f) /\ f.pc = "resolve"
    BY <1>1 DEF Inv, ThreadsRely, ResolveGap, At
  <1>3. PICK i \in Intent : i = f.arg
    BY <1>2 DEF Relies, HandIsReal
  <1>4. OnlyStore /\ IF ResolveOK(i) THEN Resolve(i) /\ Goto(t, "ackCheck")
                                     ELSE UNCHANGED storeVars /\ Raise(t)
    BY <1>1, <1>3 DEF ResolveGap
  <1>5. CASE ResolveOK(i)
    <2>1. StoreTame
      BY <1>4, <1>5, ResolveTame DEF Inv
    <2> QED
      BY <1>1, <1>2, <1>4, <1>5, <2>1, OperateGoes
  <1>6. CASE ~ResolveOK(i)
    <2>1. StoreTame
      BY <1>4, <1>6, StoreStill DEF Inv
    <2> QED
      BY <1>4, <1>6, <2>1, StoreEnds
  <1> QED
    BY <1>5, <1>6

LEMMA AckCheckStep ==
  ASSUME Inv, NEW t \in Thread, AckCheck(t)
  PROVE  Kept
  <1>1. PICK f \in Frame : f = th[t]
    BY DEF Inv, ThreadsOK
  <1>2. f.pc = "ackCheck" /\ OnlyStore /\ StoreTame
    BY <1>1, LookStep DEF AckCheck, At
  <1>3. CASE Goto(t, "ackSet")
    BY <1>1, <1>2, <1>3, OperateGoes
  <1>4. CASE Finish(t)
    BY <1>2, <1>4, StoreEnds
  <1> QED
    BY <1>3, <1>4 DEF AckCheck

LEMMA AckSetStep ==
  ASSUME Inv, NEW t \in Thread, AckSet(t)
  PROVE  Kept
  <1>1. PICK f \in Frame : f = th[t]
    BY DEF Inv, ThreadsOK
  <1>2. Relies(f) /\ f.pc = "ackSet"
    BY <1>1 DEF Inv, ThreadsRely, AckSet, At
  <1>3. PICK i \in Intent : i = f.arg
    BY <1>2 DEF Relies, HandIsReal
  <1>4. PICK a \in Account : a = Leg[i].account
    BY LegAssumption DEF LegType
  <1>5. SetHealth(a, "OK", "none") /\ Finish(t) /\ OnlyStore
    BY <1>1, <1>3, <1>4 DEF AckSet
  <1>6. StoreTame
    BY <1>5, HealthTame DEF Inv, Error
  <1> QED
    BY <1>5, <1>6, StoreEnds

LEMMA UnpauseStep ==
  ASSUME Inv, NEW t \in Thread, Unpause(t)
  PROVE  Kept
  <1>1. SetFrame(t, Idle) /\ up' \in {"down", "starting", "serving"}
    BY DEF Unpause, Finish, Inv, WorldOK
  <1>2. StoreTame
    BY StoreStill DEF Unpause, Inv
  <1>3. SettingsOK' /\ now' = now
    BY <1>1 DEF Unpause, SettingsOK, Inv, WorldOK, envVars
  <1>4. OrdersGrow /\ \A o \in OrderId : broker[o] = None => broker'[o] = None
    <2>1. \A o \in OrderId : broker[o] # None => broker[o] \in OrderRow
      BY DEF Inv, WorldOK
    <2> QED
      BY <2>1, BecomesReflexive DEF Unpause, Inv, WorldOK, OrdersGrow
  <1> QED
    BY <1>1, <1>2, <1>3, <1>4, EndStep

LEMMA SaveNextStep ==
  ASSUME Inv, NEW t \in Thread, SaveNext(t)
  PROVE  Kept
  <1>1. PICK f \in Frame : f = th[t]
    BY DEF Inv, ThreadsOK
  <1>2. Relies(f) /\ f.pc = "save"
    BY <1>1 DEF Inv, ThreadsRely, SaveNext, At
  <1>3. PICK d \in Decision : d = f.arg
    BY <1>2 DEF Relies, HandIsReal
  <1>4. OnlyStore /\ IF ~SaveDecisionOK(d)
                     THEN UNCHANGED storeVars /\ Raise(t)
                     ELSE /\ SaveDecision(d)
                          /\ IF f.failed THEN Finish(t) ELSE Goto(t, "create")
    BY <1>1, <1>3 DEF SaveNext
  <1>5. CASE SaveDecisionOK(d)
    <2>1. StoreTame
      BY <1>4, <1>5, SaveTame DEF Inv
    <2>2. CASE f.failed
      BY <1>4, <1>5, <2>1, <2>2, StoreEnds
    <2>3. CASE ~f.failed
      BY <1>1, <1>2, <1>4, <1>5, <2>1, <2>3, OperateGoes
    <2> QED
      BY <2>2, <2>3
  <1>6. CASE ~SaveDecisionOK(d)
    <2>1. StoreTame
      BY <1>4, <1>6, StoreStill DEF Inv
    <2> QED
      BY <1>4, <1>6, <2>1, StoreEnds
  <1> QED
    BY <1>5, <1>6

LEMMA CreateNextStep ==
  ASSUME Inv, NEW t \in Thread, CreateNext(t)
  PROVE  Kept
  <1>1. PICK f \in Frame : f = th[t]
    BY DEF Inv, ThreadsOK
  <1>2. Relies(f) /\ f.pc = "create"
    BY <1>1 DEF Inv, ThreadsRely, CreateNext, At
  <1>3. PICK d \in Decision : d = f.arg /\ \A i \in LegsOf(d) : Leg[i].session >= Day(now)
    BY <1>2 DEF Relies, HandIsReal
  <1>4. OnlyStore /\ IF CreateOK(d) THEN CreateIntents(d) /\ Finish(t)
                                    ELSE UNCHANGED storeVars /\ Raise(t)
    BY <1>1, <1>3 DEF CreateNext
  <1>5. StoreTame
    <2>1. CASE CreateOK(d)
      BY <1>3, <1>4, <2>1, CreateTame DEF Inv
    <2>2. CASE ~CreateOK(d)
      BY <1>4, <2>2, StoreStill DEF Inv
    <2> QED
      BY <2>1, <2>2
  <1> QED
    BY <1>4, <1>5, StoreEnds

\* A request leaves the orders at Futu and the clock alone.
LEMMA RequestAlone ==
  ASSUME Inv, Request, UNCHANGED <<channel, up, now, crashes>>, pausedAll' \in BOOLEAN
  PROVE  SettingsOK' /\ now' = now
  <1>1. requests' \in 0 .. MaxRequests
    BY BoundAssumption DEF Request, Inv, WorldOK
  <1> QED
    BY <1>1 DEF Inv, WorldOK, SettingsOK

LEMMA SameOrdersGrow ==
  ASSUME Inv, UNCHANGED broker
  PROVE  OrdersGrow /\ \A o \in OrderId : broker[o] = None => broker'[o] = None
  <1>1. \A o \in OrderId : broker[o] # None => broker[o] \in OrderRow
    BY DEF Inv, WorldOK
  <1> QED
    BY <1>1, BecomesReflexive DEF Inv, WorldOK, OrdersGrow

LEMMA PauseStep ==
  ASSUME Inv, NEW t \in Thread, Pause(t)
  PROVE  Kept
  <1>1. pausedAll' \in BOOLEAN /\ UNCHANGED <<broker, th>>
    BY DEF Pause, Inv, WorldOK
  <1>2. SettingsOK' /\ now' = now
    BY <1>1, RequestAlone DEF Pause
  <1>3. StoreTame
    <2>1. CASE UNCHANGED account
      BY <2>1, StoreStill DEF Pause, Inv, storeVars
    <2>2. ASSUME NEW a \in Account, account' = [account EXCEPT ![a].paused = ~@]
          PROVE  StoreTame
      <3>1. PICK p \in BOOLEAN : p = ~account[a].paused
        BY DEF Inv, StoreInv, StoreTypeOK, AccountRow
      <3>2. SetPaused(a, p)
        BY <2>2, <3>1 DEF Pause, SetPaused
      <3> QED
        BY <3>2, PausedTame DEF Inv
    <2> QED
      BY <2>1, <2>2 DEF Pause
  <1> QED
    BY <1>1, <1>2, <1>3, SameOrdersGrow, StillStep

LEMMA CancelOrderStep ==
  ASSUME Inv, NEW t \in Thread, CancelOrder(t)
  PROVE  Kept
  <1>1. PICK o \in Working : CancelRequested(o)
    BY DEF CancelOrder
  <1>2. OrdersGrow /\ \A p \in OrderId : broker[p] = None => broker'[p] = None
    BY <1>1, CancelGetsOn DEF Inv
  <1>3. SettingsOK' /\ now' = now
    BY RequestAlone DEF CancelOrder, Inv, WorldOK
  <1>4. StoreTame /\ UNCHANGED th
    BY StoreStill DEF CancelOrder, Inv
  <1> QED
    BY <1>2, <1>3, <1>4, StillStep

LEMMA DriveStep ==
  ASSUME Inv, NEW t \in Thread, Drive(t)
  PROVE  Kept
  <1>1. /\ SettingsOK' /\ now' = now /\ OrdersGrow
        /\ \A o \in OrderId : broker[o] = None => broker'[o] = None
    BY RequestAlone, SameOrdersGrow DEF Drive, Inv, WorldOK
  <1>2. PICK d \in Decision, a \in Account, old \in Decision \cup {None}, b \in BOOLEAN :
          /\ a = Plan[d].account /\ old = account[a].lastDecision /\ b = account[a].paused
          /\ \A i \in LegsOf(d) : Leg[i].session >= Day(now)
          /\ \/ old # None /\ Supersede(old, d) /\ UNCHANGED th
             \/ /\ SetFrame(t, WithDrive(Idle, "save", "drive", d, b))
                /\ UNCHANGED storeVars
    <2>1. PICK d \in Decision :
            LET a == Plan[d].account
                old == account[a].lastDecision
                replaces == old \notin {None, d} /\ (Plan[old] = Plan[d] \/ OpenIntents(a) # {})
            IN  /\ \A i \in LegsOf(d) : Leg[i].session >= Day(now)
                /\ IF replaces
                   THEN Supersede(old, d) /\ UNCHANGED th
                   ELSE /\ SetFrame(t, WithDrive(Idle, "save", "drive", d, account[a].paused))
                        /\ UNCHANGED storeVars
      BY DEF Drive, WithDrive
    <2>2. PICK a \in Account : a = Plan[d].account
      BY PlanAssumption
    <2>3. account[a].lastDecision \in Decision \cup {None} /\ account[a].paused \in BOOLEAN
      BY DEF Inv, StoreInv, StoreTypeOK, AccountRow
    <2> QED
      BY <2>1, <2>2, <2>3
  <1>3. CASE old # None /\ Supersede(old, d) /\ UNCHANGED th
    <2>1. StoreTame
      BY <1>2, <1>3, SupersedeTame DEF Inv
    <2> QED
      BY <1>1, <1>3, <2>1, StillStep
  <1>4. CASE SetFrame(t, WithDrive(Idle, "save", "drive", d, b)) /\ UNCHANGED storeVars
    <2> DEFINE g == WithDrive(Idle, "save", "drive", d, b)
    <2>1. IsDrive(g, Idle, "save", "drive", d)
      BY <1>2, IdleFrame, DriveFrame DEF PC, Job
    <2>2. SetFrame(t, g)
      BY <1>4
    <2> HIDE DEF g
    <2>3. Relies(g)
      <3>1. Idle.snap = NoSnap /\ Idle.todo = {}
        BY DEF Idle
      <3> QED
        BY <1>2, <2>1, <3>1, FreshRelies DEF IsDrive, FreshPC, PastIsExpired
    <2>4. StoreTame
      BY <1>4, StoreStill DEF Inv
    <2> QED
      BY <1>1, <2>1, <2>2, <2>3, <2>4, ThreadStep DEF IsDrive, KeepsHand, Held
  <1> QED
    BY <1>2, <1>3, <1>4

-----------------------------------------------------------------------------
(* Futu, the clock and the process.                                        *)

\* What Futu does to an order: it works on, or ends.
LEMMA FutuSets ==
  ASSUME Inv, NEW o \in OrderId, Futu(o)
  PROVE  /\ o \in Working
         /\ \E s \in KnownOrder, n \in Nat : broker[o].filled <= n /\ BrokerSet(o, s, n)
  <1>1. o \in Working
    BY DEF Futu, BrokerFill, BrokerCancel, BrokerFail, BrokerTimeout
  <1>2. PICK n \in Nat : n = broker[o].filled
    BY <1>1 DEF Inv, WorldOK, Working, OrderRow
  <1>3. CASE BrokerFill(o)
    <2>1. PICK s \in KnownOrder : BrokerSet(o, s, n + 1)
      BY <1>2, <1>3 DEF BrokerFill, KnownOrder, ActiveOrder, TerminalOrder
    <2> QED
      BY <1>1, <1>2, <2>1
  <1>4. CASE BrokerCancel(o)
    <2>1. PICK s \in KnownOrder : BrokerSet(o, s, n)
      BY <1>2, <1>4 DEF BrokerCancel, KnownOrder, TerminalOrder
    <2> QED
      BY <1>1, <1>2, <2>1
  <1>5. CASE BrokerFail(o)
    BY <1>1, <1>2, <1>5 DEF BrokerFail, KnownOrder, TerminalOrder
  <1>6. CASE BrokerTimeout(o)
    BY <1>1, <1>2, <1>6 DEF BrokerTimeout, KnownOrder, ActiveOrder
  <1> QED
    BY <1>3, <1>4, <1>5, <1>6 DEF Futu

LEMMA BrokerSetGrows ==
  ASSUME Inv, NEW o \in Working, NEW s \in KnownOrder, NEW n \in Nat, broker[o].filled <= n,
         BrokerSet(o, s, n)
  PROVE  OrdersGrow /\ \A p \in OrderId : broker[p] = None => broker'[p] = None
  <1>1. broker[o] \in OrderRow /\ o \in OrderId
    BY DEF Inv, WorldOK, Working
  <1> DEFINE q == [broker[o] EXCEPT !.status = s]
             r == [q EXCEPT !.filled = n]
  <1>2. q \in OrderRow /\ q.intent = broker[o].intent
    BY <1>1 DEF OrderRow
  <1>3. SetOrder(o, r)
    BY <1>1 DEF BrokerSet, SetOrder, Inv, WorldOK
  <1> HIDE DEF q
  <1>4. r \in OrderRow /\ r.intent = broker[o].intent /\ r.filled = n
    BY <1>2 DEF OrderRow
  <1> HIDE DEF r
  <1> QED
    BY <1>3, <1>4, OrderGetsOn DEF Inv

LEMMA FutuStep ==
  ASSUME Inv, NEW o \in OrderId, Futu(o)
  PROVE  Kept
  <1>1. PICK s \in KnownOrder, n \in Nat : broker[o].filled <= n /\ BrokerSet(o, s, n)
    BY FutuSets
  <1>2. OrdersGrow /\ \A p \in OrderId : broker[p] = None => broker'[p] = None
    BY <1>1, FutuSets, BrokerSetGrows
  <1>3. SettingsOK' /\ now' = now /\ UNCHANGED th
    BY <1>1 DEF BrokerSet, Inv, WorldOK, SettingsOK, envVars
  <1>4. StoreTame
    BY <1>1, StoreStill DEF BrokerSet, Inv
  <1> QED
    BY <1>2, <1>3, <1>4, StillStep

\* Days do not go back.
LEMMA DayGrows == WorldOK => Day(now) \in Int /\ Day(now + 1) \in Int /\ Day(now) <= Day(now + 1)
  <1>1. \A m \in Nat, n \in Nat \ {0} :
          m \div n \in Int /\ (m + 1) \div n \in Int /\ m \div n <= (m + 1) \div n
    BY Z3
  <1> QED
    BY <1>1, NowIsNat, ClockAssumption DEF Day

LEMMA TickStep ==
  ASSUME Inv, Tick
  PROVE  Kept
  <1>1. UNCHANGED <<storeVars, broker, channel, pausedAll, up, th, requests, crashes>>
    BY DEF Tick
  <1>2. StoreInv'
    BY <1>1, StoreStep DEF Inv
  <1>3. WorldOK' /\ ThreadsOK'
    BY <1>1, BoundAssumption DEF Tick, Inv, WorldOK, ThreadsOK
  <1>4. ASSUME NEW t \in Thread
        PROVE  Relies(th[t])'
    <2>1. PICK f \in Frame : f = th[t] /\ f = th'[t]
      BY <1>1 DEF Inv, ThreadsOK
    <2>2. Relies(f)
      BY <2>1 DEF Inv, ThreadsRely
    <2>3. f.pc = "idle" \/ Day(now') = Day(now)
      BY <2>1 DEF Tick
    <2>4. WorkIsReal(f)' /\ SnapIsPast(f)'
      BY <1>1, <2>2 DEF Relies, WorkIsReal, SnapIsPast, Created, storeVars
    <2>5. HandIsReal(f)'
      <3>1. CASE f.pc = "idle"
        BY <1>1, <2>2, <3>1 DEF Relies, HandIsReal, Created, storeVars
      <3>2. CASE Day(now') = Day(now)
        BY <1>1, <2>2, <3>2 DEF Relies, HandIsReal, Created, storeVars, Day
      <3> QED
        BY <2>3, <3>1, <3>2
    <2>6. SameDay(f)' /\ PastIsExpired(f)'
      BY <1>1, <2>2, <2>3 DEF Relies, SameDay, PastIsExpired, Day, storeVars
    <2>7. Relies(f)'
      BY <2>4, <2>5, <2>6 DEF Relies
    <2> QED
      BY <2>1, <2>7
  <1>5. BookedFillsExist'
    BY <1>1 DEF Inv, BookedFillsExist, storeVars
  <1>6. \A i \in Intent : OrdersOf(i)' = OrdersOf(i) /\ (Clean(i)' <=> Clean(i))
    BY <1>1 DEF OrdersOf, Clean, Holds
  <1>7. SendersAlone' /\ AtMostOneOrder'
    BY <1>1 DEF Inv, OneOrder, SendersAlone, AtMostOneOrder, OrdersOf, Holds
  <1>8. WithheldIsClean'
    BY <1>1, <1>6 DEF Inv, OneOrder, WithheldIsClean, storeVars
  <1>9. SentIsDue'
    <2> SUFFICES ASSUME NEW i \in Intent, ~Clean(i)'
                 PROVE  Leg[i].session <= Day(now')
      BY DEF SentIsDue, Day
    <2>1. Leg[i].session <= Day(now)
      BY <1>6 DEF Inv, OneOrder, SentIsDue
    <2>2. Leg[i].session \in Nat /\ now' = now + 1
      BY LegAssumption DEF LegType, Tick
    <2> QED
      BY <2>1, <2>2, DayGrows DEF Inv
  <1>10. FillsFirst'
    <2>1. \A i : HasFilled(i)' <=> HasFilled(i)
      BY <1>1 DEF HasFilled, OrdersOf
    <2> QED
      BY <1>1, <1>6, <2>1 DEF Inv, FillsFirst, FilledIsFilled, QueuedAfterFill, storeVars
  <1>11. RefusedStay /\ SentToday
    BY <1>1 DEF RefusedStay, SentToday, storeVars
  <1> QED
    BY <1>1, <1>2, <1>3, <1>4, <1>5, <1>7, <1>8, <1>9, <1>10, <1>11
    DEF Kept, Inv, ThreadsRely, OneOrder

LEMMA CrashStep ==
  ASSUME Inv, Crash
  PROVE  Kept
  <1>1. UNCHANGED <<storeVars, broker, channel, pausedAll, now, requests>> /\ up' = "down"
    BY DEF Crash
  <1>2. StoreTame /\ OrdersGrow /\ \A o \in OrderId : broker[o] = None => broker'[o] = None
    BY <1>1, StoreStill, SameOrdersGrow DEF Inv
  <1>3. SettingsOK' /\ now' = now
    BY <1>1, BoundAssumption DEF Crash, Inv, WorldOK, SettingsOK
  <1>4. \A t \in Thread : th'[t] = Idle
    BY DEF Crash
  <1>5. Relies(Idle)'
    BY <1>2, <1>3, IdleFrame, ReliesKept DEF Inv
  <1>6. ThreadsOK'
    BY IdleFrame DEF Crash, ThreadsOK
  <1>7. ThreadsRely'
    BY <1>4, <1>5 DEF ThreadsRely
  <1>8. Quiet
    BY <1>2, <1>4 DEF Quiet, KeepsHand, Held, Idle
  <1> QED
    BY <1>2, <1>3, <1>6, <1>7, <1>8, TameStep

LEMMA OpenStep ==
  ASSUME Inv, Open
  PROVE  Kept
  <1>1. UNCHANGED <<broker, channel, pausedAll, th, envVars>> /\ up' = "starting" /\ Backfill
    BY DEF Open
  <1>2. StoreTame
    BY <1>1, BackfillTame DEF Inv
  <1>3. SettingsOK' /\ now' = now
    BY <1>1 DEF Inv, WorldOK, SettingsOK, envVars
  <1> QED
    BY <1>1, <1>2, <1>3, SameOrdersGrow, StillStep

-----------------------------------------------------------------------------
(* The invariant holds.                                                    *)

LEMMA InitInv ==
  ASSUME Init
  PROVE  Inv
  <1>1. StoreInv
    BY StoreInitInv DEF Init
  <1>2. WorldOK
    <2>1. broker \in [OrderId -> OrderRow \cup {None}]
      BY DEF Init
    <2>2. 0 \in 0 .. MaxTime /\ 0 \in 0 .. MaxRequests /\ 0 \in 0 .. MaxCrashes
      BY BoundAssumption
    <2> QED
      BY <2>1, <2>2 DEF Init, WorldOK
  <1>3. ThreadsOK /\ \A t \in Thread : th[t] = Idle
    BY IdleFrame DEF Init, ThreadsOK
  <1>4. ThreadsRely
    BY <1>3, IdleFrame DEF ThreadsRely
  <1>5. \A o \in OrderId : order[o] = None /\ broker[o] = None
    BY DEF Init, StoreInit
  <1>6. \A i \in Intent : intent[i].status \in {"NONE", "EXPIRED"}
    BY DEF Init, StoreInit, LegacyIntent, NoIntent
  <1>7. BookedFillsExist
    BY <1>5 DEF BookedFillsExist
  <1>8. \A i \in Intent : Clean(i)
    BY <1>3, <1>5 DEF Clean, OrdersOf, Holds, Held, Idle
  <1>9. SendersAlone
    BY <1>3 DEF SendersAlone, Held, Idle
  <1>10. WithheldIsClean /\ SentIsDue
    BY <1>8 DEF WithheldIsClean, SentIsDue
  <1>11. AtMostOneOrder
    BY <1>5 DEF AtMostOneOrder
  <1>12. FillsFirst
    BY <1>6, <1>8 DEF FillsFirst, FilledIsFilled, QueuedAfterFill
  <1> QED
    BY <1>1, <1>2, <1>3, <1>4, <1>7, <1>9, <1>10, <1>11, <1>12 DEF Inv, OneOrder

LEMMA RunningStep ==
  ASSUME Inv, NEW t \in Thread, Running(t)
  PROVE  Kept
  <1>1. CASE Refresh(t)
    BY <1>1, ExpireStep, BlockStep, SnapshotStep, HistoryStep, LookUpStep, BindFoundStep,
       FillFoundStep, ReportFoundStep, SettleFoundStep, CancelScanStep, CancelSendStep,
       CancelMarkStep, MissingCheckStep, PositionsStep, CompareStep, RecoverStep, RecoverSetStep,
       RefreshDoneStep DEF Refresh
  <1>2. CASE Submit(t)
    BY <1>2, GateStep, RequeueNextStep, RequeueHealthStep, ActivateScanStep, ActivateNextStep,
       PendingScanStep, ConsiderStep, ClaimNextStep, SendStep, PlacedStep, UncertainStep,
       RejectStep, SubmitDoneStep DEF Submit
  <1>3. CASE Operate(t)
    BY <1>3, ResolveGapStep, AckCheckStep, AckSetStep, UnpauseStep, SaveNextStep, CreateNextStep
    DEF Operate
  <1> QED
    BY <1>1, <1>2, <1>3 DEF Running

\* Every step keeps the invariant, and is a step of the store or leaves it alone.
LEMMA NextStep ==
  ASSUME Inv, [Next]_vars
  PROVE  Kept
  <1>1. CASE UNCHANGED vars
    <2>1. StoreTame
      BY <1>1, StoreStill DEF vars, Inv
    <2>2. SettingsOK' /\ now' = now
      BY <1>1 DEF vars, envVars, SettingsOK, Inv, WorldOK
    <2>3. UNCHANGED <<broker, th>>
      BY <1>1 DEF vars
    <2> QED
      BY <2>1, <2>2, <2>3, SameOrdersGrow, StillStep
  <1>2. ASSUME NEW t \in Thread, StartFast(t) \/ Running(t) \/ Web(t)
        PROVE  Kept
    BY <1>2, StartFastStep, RunningStep, StartRequestStep, PauseStep, CancelOrderStep, DriveStep
    DEF Web
  <1>3. CASE \E o \in OrderId : Futu(o)
    BY <1>3, FutuStep
  <1>4. CASE Tick
    BY <1>4, TickStep
  <1>5. CASE Crash
    BY <1>5, CrashStep
  <1>6. CASE Open
    BY <1>6, OpenStep
  <1> QED
    BY <1>1, <1>2, <1>3, <1>4, <1>5, <1>6 DEF Next

\* What the store, Futu and the threads keep together, whatever the threads
\* interleave and wherever the process crashes.
THEOREM FutuInvariant == Spec => []Inv
  <1>1. Init => Inv
    BY InitInv
  <1>2. Inv /\ [Next]_vars => Inv'
    BY NextStep DEF Kept
  <1> QED
    BY <1>1, <1>2, PTL DEF Spec

-----------------------------------------------------------------------------
(* What follows.                                                           *)

\* The threads use the store only as the store allows: everything they do to
\* it, one method after another, is a behaviour of the store alone, so that
\* all that holds of the store alone holds here.
THEOREM ThreadsUseTheStore == Spec => StoreSpec
  <1>1. Init => StoreInit
    BY DEF Init
  <1>2. Inv /\ [Next]_vars => [StoreNext]_storeVars
    BY NextStep DEF Kept
  <1> QED
    BY <1>1, <1>2, FutuInvariant, PTL DEF Spec, StoreSpec

\* No balance goes negative, with any number of threads, crashes and lost
\* responses: no thread can spend what another has reserved in the meantime.
THEOREM ThreadsNeverOverdraw == Spec => []BalancesNonNegative
  BY NoOverdraft, ThreadsUseTheStore, PTL

\* Between any two steps of the threads and after a crash, the ledger explains
\* position and cash to the tick, and frozen cash but for the rounding of the
\* batches that were stored.
THEOREM ThreadsKeepTheLedger == Spec => []LedgerDrift
  BY LedgerExplained, ThreadsUseTheStore, PTL

\* Every variable keeps to the values its columns, settings and frames allow.
THEOREM FutuTypes == Spec => []TypeOK
  <1>1. Inv => TypeOK
    BY DEF Inv, StoreInv, WorldOK, ThreadsOK, TypeOK
  <1> QED
    BY <1>1, FutuInvariant, PTL

\* An intent never becomes two orders at Futu: not when the response to
\* place_order is lost, not when two threads submit, not after a crash.  The
\* compare-and-set of the claim makes one thread the sender of an intent
\* nothing was sent for, and nothing puts a sent intent back into the queue
\* (its session has come, and only intents of a later one are queued again).
THEOREM NeverTwoOrders == Spec => []AtMostOneOrder
  <1>1. Inv => AtMostOneOrder
    BY DEF Inv, OneOrder
  <1> QED
    BY <1>1, FutuInvariant, PTL

\* Withdrawn work is never executed: what a new decision supersedes was still
\* in the queue, and no thread can claim it any more.
THEOREM WithdrawnIsNeverSent == Spec => []SupersededNeverSent
  <1>1. Inv => SupersededNeverSent
    BY DEF Inv, OneOrder, WithheldIsClean, Withheld, Refused, Clean, SupersededNeverSent, WithStatus
  <1> QED
    BY <1>1, FutuInvariant, PTL

\* The store books a fill only if Futu holds it, and under the intent the
\* order was placed for, however old the snapshot is that a thread books from.
THEOREM BooksAreTrue == Spec => []BookedFillsExist
  <1>1. Inv => BookedFillsExist
    BY DEF Inv
  <1> QED
    BY <1>1, FutuInvariant, PTL

\* A dependent leg has an order at Futu only if the order of its dependency
\* was filled completely there.
THEOREM LegsInOrder == Spec => []DependencyFilledFirst
  <1>1. Inv => DependencyFilledFirst
    BY DEF Inv, FillsFirst, QueuedAfterFill, Clean, HasFilled, DependencyFilledFirst
  <1> QED
    BY <1>1, FutuInvariant, PTL

\* What Futu or the store refused, or a new decision withdrew, stays so: no
\* thread is on its way to send it, and an order row that a report or a cancel
\* mark could follow exists only for what was sent.
THEOREM RefusalsStand == Spec => RefusedStaysRefused
  <1>1. Inv /\ [Next]_vars => RefusedStay
    BY NextStep DEF Kept
  <1>2. RefusedStay =>
          \A i \in Intent : intent[i].status \in {"REJECTED", "SUBMISSION_FAILED", "SUPERSEDED"} =>
            intent'[i].status = intent[i].status
    BY DEF RefusedStay, Refused
  <1> QED
    BY <1>1, <1>2, FutuInvariant, PTL DEF Spec, RefusedStaysRefused

\* An order reaches Futu in the session of its intent only: what an outage left
\* in the queue was expired before the submission that could claim it, and no
\* operation spans the night between its claim and place_order.
THEOREM SentInSession == Spec => OrdersInSession
  <1>1. Inv /\ [Next]_vars => SentToday
    BY NextStep DEF Kept
  <1>2. SentToday =>
          \A o \in OrderId : broker[o] = None /\ broker'[o] # None =>
            Leg[broker'[o].intent].session = Day(now)
    BY DEF SentToday
  <1> QED
    BY <1>1, <1>2, FutuInvariant, PTL DEF Spec, OrdersInSession

-----------------------------------------------------------------------------
(* The position is what the booked orders filled.                          *)

\* What an order adds to the position of an account.
LotsOf(a, table) ==
  [o \in OrderId |-> IF table[o] # None /\ Leg[table[o].intent].account = a
                     THEN Signed(table[o].intent, table[o].filled) ELSE 0]
Owned(a) == {i \in Intent : Leg[i].account = a}

LEMMA LotsOfInt ==
  ASSUME NEW a \in Account, NEW table \in [OrderId -> OrderRow \cup {None}]
  PROVE  \A o \in OrderId : LotsOf(a, table)[o] \in Int
  BY DEF LotsOf, Signed, OrderRow

LEMMA LotsAreSum ==
  ASSUME NEW a \in Account, NEW table \in [OrderId -> OrderRow \cup {None}]
  PROVE  Lots(table, Owned(a)) = SumFunctionOnSet(LotsOf(a, table), OrderId)
  <1> DEFINE f == LotsOf(a, table)
             g == [o \in OrderId |-> Signed(table[o].intent, table[o].filled)]
             U == {o \in OrderId : table[o] # None /\ table[o].intent \in Owned(a)}
  <1>1. IsFiniteSet(OrderId) /\ U \in SUBSET OrderId /\ IsFiniteSet(U)
    BY FiniteAssumption, FS_Subset
  <1>2. \A o \in OrderId : f[o] \in Int
    BY LotsOfInt
  <1>3. \A o \in OrderId \ U : f[o] = 0
    BY DEF LotsOf, Owned, OrderRow
  <1>4. \A o \in U : f[o] = g[o]
    BY DEF LotsOf, Owned
  <1>5. Lots(table, Owned(a)) = SumFunctionOnSet(g, U)
    BY DEF Lots
  <1> HIDE DEF f, g, U
  <1>6. SumFunctionOnSet(f, OrderId) = SumFunctionOnSet(f, U)
    BY <1>1, <1>2, <1>3, SumZeros
  <1>7. SumFunctionOnSet(f, U) = SumFunctionOnSet(g, U)
    BY <1>1, <1>4, SumSame
  <1> QED
    BY <1>5, <1>6, <1>7 DEF f

\* A step of the store keeps position and fills together.
LEMMA PositionStep ==
  ASSUME StoreInv, StoreInv', PositionIsFills, [StoreNext]_storeVars
  PROVE  PositionIsFills'
  <1> SUFFICES ASSUME NEW a \in Account
               PROVE  account'[a].quantity = InitialQuantity + Lots(order', Owned(a))
    BY DEF PositionIsFills, Owned
  <1> DEFINE f == LotsOf(a, order)
             g == LotsOf(a, order')
             F == SumFunctionOnSet(f, OrderId)
             G == SumFunctionOnSet(g, OrderId)
  <1>1. /\ order \in [OrderId -> OrderRow \cup {None}] /\ order' \in [OrderId -> OrderRow \cup {None}]
        /\ account \in [Account -> AccountRow] /\ IsFiniteSet(OrderId)
    BY FiniteAssumption DEF StoreInv, StoreTypeOK
  <1>2. (\A p \in OrderId : f[p] \in Int) /\ (\A p \in OrderId : g[p] \in Int)
    BY <1>1, LotsOfInt
  <1>3. F \in Int /\ account[a].quantity = InitialQuantity + F /\ Lots(order', Owned(a)) = G
    <2>1. Lots(order, Owned(a)) = F /\ Lots(order', Owned(a)) = G
      BY <1>1, LotsAreSum
    <2>2. F \in Int
      <3> HIDE DEF f
      <3> QED
        BY <1>1, <1>2, SumInt
    <2> QED
      BY <2>1, <2>2 DEF PositionIsFills, Owned
  <1>4. CASE KeepsFills /\ KeepsLots
    <2>1. \A p \in OrderId : f[p] = g[p]
      BY <1>1, <1>4 DEF KeepsFills, LotsOf, Signed
    <2>2. F = G
      <3> HIDE DEF f, g
      <3> QED
        BY <1>1, <2>1, SumSame
    <2> QED
      BY <1>3, <1>4, <2>2 DEF KeepsLots
  <1>5. ASSUME NEW o \in OrderId, NEW cum \in Nat, order[o] # None, ApplyFill(o, cum)
        PROVE  account'[a].quantity = InitialQuantity + G
    <2> DEFINE i == order[o].intent
               n == Increment(o, cum)
    <2>1. i \in Intent /\ n \in Nat /\ cum = order[o].filled + n /\ order[o].filled \in Nat
      BY <1>1, <1>5, ApplyFillEffect DEF OrderRow
    <2>2. CASE n = 0
      <3>1. UNCHANGED storeVars
        BY <1>5, <2>2, ApplyFillEffect
      <3> QED
        BY <1>3, <3>1 DEF storeVars
    <2>3. CASE n # 0
      <3>1. /\ OrderFilled(o, cum)
            /\ Leg[i].side = "BUY" => MovesLots(Leg[i].account, n)
            /\ Leg[i].side # "BUY" => MovesLots(Leg[i].account, -n)
        BY <1>5, <2>3, ApplyFillEffect
      <3>2. \A p \in OrderId \ {o} : f[p] = g[p]
        BY <3>1 DEF OrderFilled, LotsOf
      <3>3. g[o] - f[o] = IF Leg[i].account = a THEN Signed(i, n) ELSE 0
        <4>1. /\ f[o] = IF Leg[i].account = a THEN Signed(i, order[o].filled) ELSE 0
              /\ g[o] = IF Leg[i].account = a THEN Signed(i, cum) ELSE 0
          BY <1>5, <3>1 DEF OrderFilled, LotsOf
        <4> HIDE DEF i, n, f, g
        <4> QED
          BY <2>1, <4>1 DEF Signed
      <3>4. G = F + g[o] - f[o]
        <4> HIDE DEF f, g
        <4> QED
          BY <1>1, <1>2, <3>2, SumChange
      <3>5. account'[a].quantity
              = account[a].quantity + (IF Leg[i].account = a THEN Signed(i, n) ELSE 0)
        <4>1. account[a].quantity \in Int
          BY <1>1 DEF AccountRow
        <4> HIDE DEF i, n
        <4> QED
          BY <2>1, <3>1, <4>1 DEF MovesLots, Signed
      <3>6. InitialQuantity \in Int /\ f[o] \in Int /\ g[o] \in Int
        BY <1>2, InitialAssumption
      <3> HIDE DEF F, G, f, g
      <3> QED
        BY <1>3, <3>3, <3>4, <3>5, <3>6
    <2> QED
      BY <2>2, <2>3
  <1> QED
    BY <1>3, <1>4, <1>5, FillsStep

\* The position of every account is what it began with and what the booked
\* fills of its orders added and took away, with any number of threads and
\* crashes: no fill is booked twice, and none is half booked.
THEOREM PositionsAreFills == Spec => []PositionIsFills
  <1>1. Init => Inv /\ PositionIsFills
    <2> SUFFICES ASSUME Init  PROVE PositionIsFills
      BY InitInv
    <2> SUFFICES ASSUME NEW a \in Account
                 PROVE  account[a].quantity = InitialQuantity + Lots(order, Owned(a))
      BY DEF PositionIsFills, Owned
    <2>1. order \in [OrderId -> OrderRow \cup {None}] /\ \A o \in OrderId : order[o] = None
      BY DEF Init, StoreInit
    <2>2. account[a].quantity = InitialQuantity
      BY DEF Init, StoreInit
    <2> DEFINE f == LotsOf(a, order)
    <2>3. \A o \in OrderId : f[o] = 0
      BY <2>1 DEF LotsOf
    <2>4. Lots(order, Owned(a)) = SumFunctionOnSet(f, OrderId)
      BY <2>1, LotsAreSum
    <2>5. SumFunctionOnSet(f, OrderId) = SumFunctionOnSet(f, {o \in OrderId : FALSE})
      <3> HIDE DEF f
      <3>1. IsFiniteSet(OrderId) /\ {o \in OrderId : FALSE} \in SUBSET OrderId
        BY FiniteAssumption
      <3> QED
        BY <2>3, <3>1, SumZeros
    <2>6. SumFunctionOnSet(f, {o \in OrderId : FALSE}) = 0
      <3> HIDE DEF f
      <3>1. \A x \in {o \in OrderId : FALSE} : FALSE
        OBVIOUS
      <3> QED
        BY <3>1, SumEmpty
    <2> QED
      BY <2>2, <2>4, <2>5, <2>6, InitialAssumption
  <1>2. Inv /\ PositionIsFills /\ [Next]_vars => Inv' /\ PositionIsFills'
    BY NextStep, PositionStep DEF Inv, Kept
  <1> QED
    BY <1>1, <1>2, PTL DEF Spec
=============================================================================
