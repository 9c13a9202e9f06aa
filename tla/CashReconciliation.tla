------------------------- MODULE CashReconciliation -------------------------
(***************************************************************************)
(* How the paper trading engine explains the cash of the Futu account: the *)
(* fills it has booked with modelled fees, the fees Futu really charged,   *)
(* and the system account that takes the difference.  The end of           *)
(* refresh_orders, _reconcile_broker_fees with its checkpoint and its      *)
(* status, and the gate in front of submit_pending.                        *)
(*                                                                         *)
(* FutuExecution has the details of the orders.  Here an order fills whole *)
(* and is booked together with its end, and one whose answer is lost is at *)
(* Futu.  An action is one transaction, one call to Futu, or reads of the  *)
(* store that lie next to each other.                                      *)
(***************************************************************************)
EXTENDS Integers, FiniteSets, SequencesExt

CONSTANTS Thread, Order, None,
          Change,       \* the cash an order moves at its price: negative for a buy
          Modeled,      \* the fee the strategy's account pays for it
          Charges,      \* the fees Futu may charge for an order
          Allowance,    \* turnover * MAX_VARIABLE_FEE_RATE + MAX_FIXED_FEE_PER_ORDER
          Slack,        \* FUTU_CN_FEE_ROUNDING_TOLERANCE
          Tolerance,    \* the difference that is not worth a booking
          Pool,         \* futu_capital_pool, and Futu's cash at first
          Foreign,      \* changes of Futu's cash that no order causes
          MaxForeign, MaxCrashes   \* bounds

ASSUME AmountAssumption ==
  /\ Change \in [Order -> Int \ {0}] /\ Modeled \in [Order -> Nat] /\ Charges \subseteq Nat
  /\ {Allowance, Slack, Tolerance, Pool} \subseteq Nat /\ Foreign \subseteq Int \ {0}
ASSUME FiniteAssumption == IsFiniteSet(Order)
ASSUME NoneAssumption == None \notin Int
ASSUME BoundAssumption == MaxForeign \in Nat /\ MaxCrashes \in Nat

VARIABLES
  order,       \* intents: "none", "pending", "unresolved", "sent" or "booked"
  fills,       \* the fills table by rowid
  recon,       \* the reconciliation account: open, its cash, its rows by reference
  checkpoint,  \* futu_cash_reconciliation_checkpoint: the last row and Futu's cash
  status,      \* futu_cash_reconciliation_status
  channel,     \* channel_reconciliation_status
  snapshot,    \* FutuExecution._snapshot, which all threads share
  broker,      \* Futu: cash, and the fee of each order it has filled
  thread,
  foreign, crashes   \* foreign changes in sum and number; crashes

store == <<order, fills, recon, checkpoint, status, channel>>
bounds == <<foreign, crashes>>
vars == <<store, snapshot, broker, thread, bounds>>

Idle == [pc |-> "idle"]

Init ==
  /\ order = [o \in Order |-> "none"] /\ fills = <<>>
  /\ recon \in [open : BOOLEAN, cash : {0}, rows : {{}}]
  /\ checkpoint = [row |-> 0, cash |-> Pool]     \* none: row 0 and the pool are the defaults
  /\ status = "NONE" /\ channel = "OK" /\ snapshot = None
  /\ broker = [cash |-> Pool, fee |-> [o \in Order |-> None]]
  /\ thread = [t \in Thread |-> Idle]
  /\ foreign = [sum |-> 0, count |-> 0] /\ crashes = 0

Distance(x) == IF x < 0 THEN -x ELSE x

Filled(b) == {o \in Order : b.fee[o] # None}
Booked == {o \in Order : order[o] = "booked"}
Sells == {o \in Order : Change[o] > 0}
Position(S) == Cardinality(S \ Sells) - Cardinality(S \cap Sells)
Net(S) == SumFunctionOnSet([o \in Order |-> Change[o] - Modeled[o]], S)

At(t, pc) == thread[t].pc = pc
Goto(t, pc) == thread' = [thread EXCEPT ![t].pc = pc]
End(t) == thread' = [thread EXCEPT ![t] = Idle]

\* _block_reconciliation: the refresh raises.
BlockChannel(t) == channel' = "BLOCKED" /\ End(t)

-----------------------------------------------------------------------------
(* refresh_orders                                                          *)

\* The scheduler's two fast operations, and the requests that refresh.
Begin(t) ==
  /\ At(t, "idle")
  /\ thread' = [thread EXCEPT ![t] = [pc |-> "orders", seen |-> {}]]
  /\ UNCHANGED <<store, snapshot, broker, bounds>>

Orders(t) ==
  /\ At(t, "orders")
  /\ thread' = [thread EXCEPT ![t] = [pc |-> "book", seen |-> Filled(broker)]]
  /\ UNCHANGED <<store, snapshot, broker, bounds>>

\* The orders of the snapshot, one by one: an unresolved one is bound, a
\* filled one booked.
Book(t) ==
  /\ At(t, "book")
  /\ \/ \E o \in thread[t].seen :
          /\ order[o] \in {"sent", "unresolved"}
          /\ order' = [order EXCEPT ![o] = "booked"] /\ fills' = Append(fills, o)
          /\ UNCHANGED thread
     \/ /\ \A o \in thread[t].seen : order[o] \notin {"sent", "unresolved"}
        /\ order' = [o \in Order |-> IF order[o] = "unresolved" THEN "sent" ELSE order[o]]
        /\ Goto(t, "account") /\ UNCHANGED fills
  /\ UNCHANGED <<recon, checkpoint, status, channel, snapshot, broker, bounds>>

\* refresh_account: the call ...
Account(t) ==
  /\ At(t, "account")
  /\ thread' = [thread EXCEPT ![t] = [pc |-> "assign", value |-> broker]]
  /\ UNCHANGED <<store, snapshot, broker, bounds>>

\* ... and self._snapshot = snapshot, when the answer is there.
Assign(t) ==
  /\ At(t, "assign") /\ snapshot' = thread[t].value
  /\ thread' = [thread EXCEPT ![t] = [pc |-> "compare"]]
  /\ UNCHANGED <<store, broker, bounds>>

\* Futu's positions and those of the accounts.
Compare(t) ==
  /\ At(t, "compare")
  /\ IF Position(Filled(snapshot)) = Position(Booked)
     THEN Goto(t, "accounts") /\ UNCHANGED channel
     ELSE BlockChannel(t)
  /\ UNCHANGED <<order, fills, recon, checkpoint, status, snapshot, broker, bounds>>

-----------------------------------------------------------------------------
(* _reconcile_broker_fees                                                  *)

\* The accounts: their cash in sum, and whether one has cash frozen for a buy.
ReadAccounts(t) ==
  /\ At(t, "accounts")
  /\ thread' = [thread EXCEPT ![t] =
       [pc |-> "measure", cash |-> Pool + Net(Booked) + recon.cash,
        frozen |-> \E o \in Order : Change[o] < 0 /\ order[o] \notin {"none", "booked"}]]
  /\ UNCHANGED <<store, snapshot, broker, bounds>>

New == {fills[i] : i \in checkpoint.row + 1 .. Len(fills)}
\* What the fills since the checkpoint cost, if nothing else moved the cash.
ActualFee == SumFunctionOnSet(Change, New) - (snapshot.cash - checkpoint.cash)
MaximumFee == Cardinality(New) * Allowance + Slack

Booking(t, pc, amount) ==
  [pc |-> pc, frozen |-> thread[t].frozen, amount |-> amount, base |-> 0,
   row |-> Len(fills), cash |-> snapshot.cash,
   reference |-> <<checkpoint.row + 1, Len(fills), snapshot.cash>>]

\* Mutant: the variance of the fills since the checkpoint is booked, whatever
\* of it has been booked before.
FeeVariance(t) == SumFunctionOnSet(Modeled, New) - ActualFee

\* What Futu's cash has more than the books.
Difference(t) == snapshot.cash - thread[t].cash

\* Nothing is measured while a buy has cash frozen or an outcome is unknown.
\* Otherwise the difference is small, cannot be explained, or is booked.
Measure(t) ==
  LET skipped == thread[t].frozen \/ \E o \in Order : order[o] = "unresolved"
      small == Distance(Difference(t)) <= Tolerance
      alert == IF New = {} THEN "UNATTRIBUTED"
               ELSE IF ActualFee \notin -Tolerance .. MaximumFee THEN "OUT_OF_RANGE"
               ELSE IF ~recon.open THEN "AMBIGUOUS" ELSE "NONE" IN
  /\ At(t, "measure")
  /\ \/ skipped /\ Goto(t, "require") /\ UNCHANGED status
     \/ /\ ~skipped /\ small /\ UNCHANGED status
        /\ thread' = [thread EXCEPT ![t] = Booking(t, "checkpoint", 0)]
     \/ ~skipped /\ ~small /\ alert # "NONE" /\ status' = alert /\ Goto(t, "require")
     \/ /\ ~skipped /\ ~small /\ alert = "NONE" /\ UNCHANGED status
        /\ thread' = [thread EXCEPT ![t] = Booking(t, "apply", Difference(t))]
  /\ UNCHANGED <<order, fills, recon, checkpoint, channel, snapshot, broker, bounds>>

\* Mutant: the checkpoint is moved first.
ReadCheckpointed(t) ==
  /\ At(t, "apply")
  /\ checkpoint' = [row |-> thread[t].row, cash |-> thread[t].cash]
  /\ thread' = [thread EXCEPT ![t].pc = "write", ![t].base = recon.cash]
  /\ UNCHANGED <<order, fills, recon, status, channel, snapshot, broker, bounds>>

\* apply_channel_fee_variance reads the account before its transaction ...
ReadRecon(t) ==
  /\ At(t, "apply")
  /\ thread' = [thread EXCEPT ![t].pc = "write", ![t].base = recon.cash]
  /\ UNCHANGED <<store, snapshot, broker, bounds>>

\* ... which does nothing if the reference has been booked.
ApplyVariance(t) ==
  LET r == thread[t] IN
  /\ At(t, "write")
  /\ recon' = IF \E row \in recon.rows : row.reference = r.reference THEN recon
              ELSE [recon EXCEPT !.cash = r.base + r.amount,
                                 !.rows = @ \cup {[reference |-> r.reference, amount |-> r.amount]}]
  /\ Goto(t, "checkpoint")
  /\ UNCHANGED <<order, fills, checkpoint, status, channel, snapshot, broker, bounds>>

WriteCheckpoint(t) ==
  /\ At(t, "checkpoint") /\ checkpoint' = [row |-> thread[t].row, cash |-> thread[t].cash]
  /\ Goto(t, "ok")
  /\ UNCHANGED <<order, fills, recon, status, channel, snapshot, broker, bounds>>

WriteOK(t) ==
  /\ At(t, "ok") /\ status' = "OK" /\ Goto(t, "require")
  /\ UNCHANGED <<order, fills, recon, checkpoint, channel, snapshot, broker, bounds>>

-----------------------------------------------------------------------------
(* The gates, and submit_pending.                                          *)

\* Mutant: what nothing explains passes.
ExplainedEnough == status \notin {"OUT_OF_RANGE", "AMBIGUOUS"}

\* _require_cash_reconciliation
Explained == status \notin {"UNATTRIBUTED", "OUT_OF_RANGE", "AMBIGUOUS"}

Require(t) ==
  /\ At(t, "require")
  /\ IF Explained THEN Goto(t, "settle") /\ UNCHANGED channel ELSE BlockChannel(t)
  /\ UNCHANGED <<order, fills, recon, checkpoint, status, snapshot, broker, bounds>>

\* account_invariant_violations for the reconciliation account; then all is well.
Settle(t) ==
  /\ At(t, "settle")
  /\ IF recon.cash = SumFunctionOnSet([row \in recon.rows |-> row.amount], recon.rows)
     THEN channel' = "OK" /\ Goto(t, "gate")
     ELSE BlockChannel(t)
  /\ UNCHANGED <<order, fills, recon, checkpoint, status, snapshot, broker, bounds>>

Gate(t) ==
  /\ At(t, "gate")
  /\ IF channel = "OK" /\ Explained THEN Goto(t, "send") ELSE End(t)
  /\ UNCHANGED <<store, snapshot, broker, bounds>>

\* An order is sent: Futu takes it, refuses it, or its answer is lost.  The
\* submission window, the account's health, a pause may keep orders back.
Send(t) ==
  /\ At(t, "send")
  /\ \/ \E o \in Order, s \in {"sent", "unresolved", "none"} :
          order[o] = "pending" /\ order' = [order EXCEPT ![o] = s] /\ UNCHANGED thread
     \/ End(t) /\ UNCHANGED order
  /\ UNCHANGED <<fills, recon, checkpoint, status, channel, snapshot, broker, bounds>>

Step(t) ==
  \/ Begin(t) \/ Orders(t) \/ Book(t) \/ Account(t) \/ Assign(t) \/ Compare(t)
  \/ ReadAccounts(t) \/ Measure(t) \/ ReadRecon(t) \/ ApplyVariance(t)
  \/ WriteCheckpoint(t) \/ WriteOK(t) \/ Require(t) \/ Settle(t) \/ Gate(t) \/ Send(t)

-----------------------------------------------------------------------------
(* Everything else.                                                        *)

\* A decision creates the order; only what has been bought and booked is sold.
Decide(o) ==
  /\ order[o] = "none" /\ order' = [order EXCEPT ![o] = "pending"]
  /\ Change[o] > 0 => Position(Booked \cup {p \in Sells : order[p] # "none"}) > 0
  /\ UNCHANGED <<fills, recon, checkpoint, status, channel, snapshot, broker, thread, bounds>>

\* Futu fills it and charges a fee.
Fill(o) ==
  /\ order[o] \in {"sent", "unresolved"} /\ o \notin Filled(broker)
  /\ \E fee \in Charges :
       broker' = [cash |-> broker.cash + Change[o] - fee,
                  fee |-> [broker.fee EXCEPT ![o] = fee]]
  /\ UNCHANGED <<store, snapshot, thread, bounds>>

\* A dividend, a correction: cash moves without an order.
MoveForeign ==
  /\ foreign.count < MaxForeign
  /\ \E x \in Foreign :
       /\ broker' = [broker EXCEPT !.cash = @ + x]
       /\ foreign' = [sum |-> foreign.sum + x, count |-> foreign.count + 1]
  /\ UNCHANGED <<store, snapshot, thread, crashes>>

\* create_channel_reconciliation_account, by the operator.
OpenRecon ==
  /\ ~recon.open /\ recon' = [recon EXCEPT !.open = TRUE]
  /\ UNCHANGED <<order, fills, checkpoint, status, channel, snapshot, broker, thread, bounds>>

\* The process dies and is started again.
Crash ==
  /\ crashes < MaxCrashes /\ crashes' = crashes + 1
  /\ thread' = [t \in Thread |-> Idle] /\ snapshot' = None
  /\ UNCHANGED <<store, broker, foreign>>

Next ==
  \/ \E t \in Thread : Step(t)
  \/ \E o \in Order : Decide(o) \/ Fill(o)
  \/ MoveForeign \/ OpenRecon \/ Crash

\* The fast loop goes on for ever; nobody else is obliged to anything.
Spec == Init /\ [][Next]_vars /\ \A t \in Thread : WF_vars(Step(t))

-----------------------------------------------------------------------------
(* Properties                                                              *)

\* The rows that a booking or the checkpoint has dealt with.
Settled ==
  LET rows == {row.reference[2] : row \in recon.rows} \cup {checkpoint.row} IN
  {fills[i] : i \in 1 .. Max(rows)}

\* What the settled fills were charged less than the accounts paid.
Variance == SumFunctionOnSet([o \in Settled |-> Modeled[o] - broker.fee[o]], Settled)

\* The reconciliation account holds the variance of every settled fill once,
\* although a crash may separate booking and checkpoint and fills of several
\* batches are measured together.  Cash that moved without an order and is taken
\* for a fee is booked whole and once, too.
BookedOnce ==
  \E x \in {0, foreign.sum} : Distance(recon.cash - Variance - x) <= Tolerance

\* Cash that moved without an order is not booked as a fee.
OnlyFeesAreBooked == Distance(recon.cash - Variance) <= Tolerance

\* When an order is sent after a refresh that nothing kept from measuring, the
\* snapshot and the books agree ("an inconsistency stops new orders"): the
\* alert of one refresh must reach the submission of every later one.
SentOnBalancedBooks ==
  [][\A t \in Thread, o \in Order :
       /\ At(t, "send") /\ ~thread[t].frozen /\ "unresolved" \notin Range(order)
       /\ order[o] = "pending" /\ order'[o] \in {"sent", "unresolved"}
       => Distance(snapshot.cash - (Pool + Net(Booked) + recon.cash)) <= Tolerance]_vars

\* Whatever Futu charges and wherever a crash falls, the books are closed
\* again: every fill gets behind the checkpoint and the alert is lifted, unless
\* orders are under way, cash moved without an order, or the reconciliation
\* account does not exist.
BooksClose ==
  []<>(\/ foreign.count > 0 \/ ~recon.open \/ \E o \in Order : order[o] \notin {"none", "booked"}
       \/ status = "OK" /\ checkpoint.row = Len(fills))
=============================================================================
