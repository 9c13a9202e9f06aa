--------------------------- MODULE FutuExecution ---------------------------
(***************************************************************************)
(* FutuExecution and its callers over the store and the Futu channel.      *)
(*                                                                         *)
(* No lock spans a refresh, a submission or an acknowledgement: the fast   *)
(* scheduler loop and the threads of the web console run them side by      *)
(* side, and only the single store transactions and the single broker      *)
(* calls are atomic.  Each action below is one of those, together with the *)
(* local computation up to the next.  th[t] is the stack of the thread t.  *)
(* The process may crash between any two actions; what the store and the   *)
(* broker hold survives.                                                   *)
(***************************************************************************)
EXTENDS PaperStore

CONSTANTS Thread,
          Jobs,          \* the operations each thread runs
          DayLen,        \* clock ticks of a session
          OpenClocks,    \* the ticks inside the submission window
          MaxTime, MaxRequests, MaxCrashes,   \* bounds of the model
          PlaceOutcomes  \* what place_order may come to

Job == {"fast", "ack", "resume", "pause", "cancel", "drive"}
Outcome == {"accepted", "lost", "never", "REJECTED", "SUBMISSION_FAILED"}

ASSUME JobAssumption == Jobs \in [Thread -> SUBSET Job]
ASSUME ClockAssumption == DayLen \in Nat \ {0} /\ OpenClocks \subseteq 0 .. DayLen - 1
ASSUME BoundAssumption == MaxTime \in Nat /\ MaxRequests \in Nat /\ MaxCrashes \in Nat
ASSUME OutcomeAssumption == PlaceOutcomes \subseteq Outcome
\* An account and an intent never have the same identifier.
ASSUME KeysAssumption == Account \cap Intent = {}

VARIABLES
  broker,      \* the orders Futu holds, None for an unused identifier
  channel,     \* the setting channel_reconciliation_status
  pausedAll,   \* the setting read by is_paused
  now,         \* the clock
  up,          \* "down", "starting" until startup() returns, then "serving"
  th,          \* the threads
  requests, crashes   \* counters of the bounded environment

envVars == <<now, requests, crashes>>
vars == <<storeVars, broker, channel, pausedAll, up, th, envVars>>

Day(m) == m \div DayLen
Clock(m) == m % DayLen

NoSnap == [o \in OrderId |-> None]

\* pc: the next step; moment: self.now() as read at the start of the phase;
\* snap: the order snapshot; todo: what the current loop has left;
\* cur, ord: the intent or account, and the order, in hand; prev: the status
\* read before the update; held: the lots Futu reports; touched: accounts to
\* look at when the loop ends; failed: a submission failed or, in a drive, the account was paused;
\* next, err: where to go after the account is blocked, and why it is.
Idle == [pc |-> "idle", job |-> "none", arg |-> None, phase |-> "refresh", moment |-> 0,
         snap |-> NoSnap, todo |-> {}, touched |-> {}, cur |-> None, ord |-> None,
         prev |-> "NONE", held |-> 0, failed |-> FALSE, next |-> "idle", err |-> "none"]

PC == {"idle", "block", "expire", "history", "orders", "bind", "fill", "report", "settle", "cancel",
       "cancelMark", "positions", "compare", "recover", "recoverSet", "requeue", "activate", "pending",
       "claim", "send", "placed", "uncertain", "reject", "resolve", "ackCheck", "ackSet",
       "unpause", "save", "create"}
Frame == [pc : PC, job : Job \cup {"none"}, arg : Intent \cup Decision \cup {None},
          phase : {"refresh", "submit"}, moment : Nat, snap : [OrderId -> OrderRow \cup {None}],
          todo : SUBSET (Intent \cup OrderId \cup Account), touched : SUBSET Account,
          cur : Intent \cup Account \cup {None}, ord : OrderId \cup {None},
          prev : IntentStatus, held : Int, failed : BOOLEAN, next : PC, err : Error]

Working == {o \in OrderId : broker[o] # None /\ broker[o].status \notin TerminalOrder}
OrdersOf(i) == {o \in OrderId : broker[o] # None /\ broker[o].intent = i}
OwnerOf(x) == IF x \in Account THEN x ELSE Leg[x].account

\* Steps of a thread: to another point, to the end of the operation, and to an
\* exception that ends it.  An exception in startup() ends the process.
At(t, p) == up # "down" /\ th[t].pc = p
SetFrame(t, f) == th' = [th EXCEPT ![t] = f]
Goto(t, p) == SetFrame(t, [th[t] EXCEPT !.pc = p]) /\ UNCHANGED up
Finish(t) == /\ SetFrame(t, Idle)
             /\ up' = IF up = "starting" THEN "serving" ELSE up
Raise(t) == /\ SetFrame(t, Idle)
            /\ up' = IF up = "starting" THEN "down" ELSE up
\* Block the account of x for the reason e, then continue at p.
BlockThen(t, x, e, p) ==
  /\ SetFrame(t, [th[t] EXCEPT !.pc = "block", !.cur = x, !.err = e, !.next = p])
  /\ UNCHANGED up

OnlyThread == UNCHANGED <<storeVars, broker, channel, pausedAll, envVars>>
OnlyStore == UNCHANGED <<broker, channel, pausedAll, envVars>>

Block(t) ==
  /\ At(t, "block")
  /\ SetHealth(OwnerOf(th[t].cur), "BLOCKED", th[t].err)
  /\ IF th[t].next = "idle"
     THEN Raise(t)
     ELSE /\ SetFrame(t, [th[t] EXCEPT !.pc = th[t].next, !.cur = None, !.err = "none",
                                       !.next = "idle"])
          /\ UNCHANGED up
  /\ OnlyStore
-----------------------------------------------------------------------------
(* Expiry of queued intents, at the start of a refresh and of a submission *)

Missed(i, m) == Leg[i].planned /\ Clock(m) > Leg[i].before
StaleToday(m) ==   \* mutant
  {i \in WithStatus("PENDING_SUBMIT") : Leg[i].session = Day(m) /\ Missed(i, m)}
Stale(m) == {i \in WithStatus("PENDING_SUBMIT") :
               \/ Leg[i].session < Day(m)
               \/ Leg[i].session = Day(m) /\ Missed(i, m)}

Begin(t, job, arg) ==
  /\ th[t].pc = "idle" /\ job \in Jobs[t]
  /\ SetFrame(t, [Idle EXCEPT !.pc = "expire", !.job = job, !.arg = arg,
                              !.moment = now, !.todo = Stale(now)])
  /\ UNCHANGED up

StartFast(t) ==
  /\ up # "down"
  /\ Begin(t, "fast", None)
  /\ OnlyThread

Request == up = "serving" /\ requests < MaxRequests /\ requests' = requests + 1

StartRequest(t) ==
  /\ Request
  /\ \/ Begin(t, "resume", None)
     \/ \E i \in Intent : Created(i) /\ Begin(t, "ack", i)
  /\ UNCHANGED <<storeVars, broker, channel, pausedAll, now, crashes>>

Expire(t) ==
  /\ At(t, "expire")
  /\ \E i \in th[t].todo :
       IF ReleaseOK(i)
       THEN /\ Release(i, "EXPIRED", IF Leg[i].session < Day(th[t].moment)
                                     THEN "gap" ELSE "deadline")
            /\ SetFrame(t, [th[t] EXCEPT !.pc = "block", !.cur = i, !.err = "gap",
                                         !.next = "expire", !.todo = @ \ {i}])
            /\ UNCHANGED up
       ELSE UNCHANGED storeVars /\ Raise(t)
  /\ OnlyStore
-----------------------------------------------------------------------------
(* refresh_orders: book what the broker reports.                           *)

\* Work of an earlier session for which the order history is asked.
Tracked == {i \in Intent : intent[i].status \in UnresolvedIntent}
             \cup {order[o].intent : o \in {o \in OrderId : order[o] # None
                                                /\ order[o].status \notin TerminalOrder}}

OrderSnapshot(sessions) ==
  [o \in OrderId |-> IF broker[o] # None /\ Leg[broker[o].intent].session \in sessions
                     THEN broker[o] ELSE None]

\* The orders of the session ...
Snapshot(t) ==
  /\ At(t, "expire") /\ th[t].todo = {} /\ th[t].phase = "refresh"
  /\ SetFrame(t, [th[t] EXCEPT !.pc = "history", !.snap = OrderSnapshot({Day(now)})])
  /\ UNCHANGED up /\ OnlyThread

\* ... and those in the history since the oldest tracked work, where the first
\* answer does not have them.
History(t) ==
  LET since == {s \in 0 .. Day(now) : \E i \in Tracked : Leg[i].session <= s}
      past == OrderSnapshot(since)
      all == [o \in OrderId |-> IF th[t].snap[o] = None THEN past[o] ELSE th[t].snap[o]]
  IN  /\ At(t, "history")
      /\ SetFrame(t, [th[t] EXCEPT !.pc = "orders", !.snap = all,
                                   !.todo = {o \in OrderId : all[o] # None}])
      /\ UNCHANGED up /\ OnlyThread

LookUp(t) ==
  /\ At(t, "orders")
  /\ \E o \in th[t].todo :
       SetFrame(t, [th[t] EXCEPT !.pc = IF order[o] = None THEN "bind" ELSE "fill",
                                 !.ord = o, !.todo = @ \ {o},
                                 !.prev = IF order[o] = None THEN "NONE" ELSE order[o].status])
  /\ UNCHANGED up /\ OnlyThread

Seen(t) == th[t].snap[th[t].ord]

BindFound(t) ==
  /\ At(t, "bind")
  /\ IF BindOK(Seen(t).intent, th[t].ord)
     THEN Bind(Seen(t).intent, th[t].ord, Seen(t).status) /\ Goto(t, "fill")
     ELSE UNCHANGED storeVars /\ Raise(t)
  /\ OnlyStore

\* Mutant: an order that has ended is taken as filled.
FillFoundByStatus(t) ==
  LET cum == IF Seen(t).status \in TerminalOrder THEN Leg[Seen(t).intent].quantity
                                                  ELSE Seen(t).filled
  IN  /\ At(t, "fill")
      /\ IF ApplyFillOK(th[t].ord, cum)
         THEN ApplyFill(th[t].ord, cum) /\ Goto(t, "report")
         ELSE UNCHANGED storeVars /\ Raise(t)
      /\ OnlyStore
FillFound(t) ==
  /\ At(t, "fill")
  /\ IF ApplyFillOK(th[t].ord, Seen(t).filled)
     THEN ApplyFill(th[t].ord, Seen(t).filled) /\ Goto(t, "report")
     ELSE UNCHANGED storeVars /\ Raise(t)
  /\ OnlyStore

\* Reports that block the account before the next order is looked at.
AfterReport(t) ==
  LET s == Seen(t).status
  IN  CASE s = "TIMEOUT" -> BlockThen(t, Seen(t).intent, "transient", "orders")
        [] /\ s \in TerminalOrder \ {"FILLED_ALL"}
           /\ th[t].prev \notin TerminalOrder -> BlockThen(t, Seen(t).intent, "gap", "orders")
        [] OTHER -> Goto(t, "orders")

ReportFound(t) ==
  /\ At(t, "report")
  /\ Report(th[t].ord, Seen(t).status)
  /\ IF Seen(t).status \in TerminalOrder /\ IsOpen(Seen(t).intent)
     THEN Goto(t, "settle")
     ELSE AfterReport(t)
  /\ OnlyStore

SettleFound(t) ==
  /\ At(t, "settle")
  /\ IF ReleaseOK(Seen(t).intent)
     THEN Release(Seen(t).intent, Seen(t).status, "gap") /\ AfterReport(t)
     ELSE UNCHANGED storeVars /\ Raise(t)
  /\ OnlyStore
-----------------------------------------------------------------------------
(* refresh_orders: late plan orders, missing orders, positions, recovery.  *)

Cancellable == {"UNSUBMITTED", "WAITING_SUBMIT", "SUBMITTED", "FILLED_PART"}

CancelScan(t) ==
  /\ At(t, "orders") /\ th[t].todo = {}
  /\ SetFrame(t, [th[t] EXCEPT
       !.pc = "cancel", !.ord = None, !.prev = "NONE",
       !.todo = {i \in Intent : /\ Leg[i].session = Day(now) /\ Missed(i, now)
                                /\ intent[i].status \in Cancellable
                                /\ intent[i].order # None}])
  /\ UNCHANGED up /\ OnlyThread

CancelRequested(o) ==
  broker' = [broker EXCEPT ![o].status = IF broker[o].filled = 0 THEN "CANCELLING_ALL"
                                                                 ELSE "CANCELLING_PART"]

\* Futu takes the cancel request of a working order; otherwise, or when the
\* connection breaks, the call raises.
CancelSend(t) ==
  /\ At(t, "cancel")
  /\ \E i \in th[t].todo :
       \/ /\ intent[i].order \in Working
          /\ CancelRequested(intent[i].order)
          /\ SetFrame(t, [th[t] EXCEPT !.pc = "cancelMark", !.cur = i, !.todo = @ \ {i}])
          /\ UNCHANGED up
       \/ UNCHANGED broker /\ BlockThen(t, i, "cancel", "idle")
  /\ UNCHANGED <<storeVars, channel, pausedAll, envVars>>

CancelMark(t) ==
  /\ At(t, "cancelMark")
  /\ SetStatus(th[t].cur, "CANCELLING_ALL")
  /\ Goto(t, "cancel")
  /\ OnlyStore

Reported(t) == {th[t].snap[o].intent : o \in {o \in OrderId : th[t].snap[o] # None}}

MissingCheck(t) ==
  LET missing == {i \in Intent : IsOpen(i) /\ intent[i].status \notin Unsent
                                 /\ i \notin Reported(t)}
  IN  /\ At(t, "cancel") /\ th[t].todo = {}
      /\ IF missing = {}
         THEN Goto(t, "positions") /\ UNCHANGED channel
         ELSE /\ channel' = "BLOCKED"
              /\ \E i \in missing : BlockThen(t, i, "missing", "idle")
      /\ UNCHANGED <<storeVars, broker, pausedAll, envVars>>

\* One channel account holds the lots of all virtual accounts.
Signed(i, n) == IF Leg[i].side = "BUY" THEN n ELSE -n
Lots(table, I) ==
  SumFunctionOnSet([o \in OrderId |-> Signed(table[o].intent, table[o].filled)],
                   {o \in OrderId : table[o] # None /\ table[o].intent \in I})
BrokerQuantity == InitialQuantity * Cardinality(Account) + Lots(broker, Intent)
LogicalQuantity == SumFunction([a \in Account |-> account[a].quantity])

Positions(t) ==
  /\ At(t, "positions")
  /\ SetFrame(t, [th[t] EXCEPT !.pc = "compare", !.held = BrokerQuantity])
  /\ UNCHANGED up /\ OnlyThread

\* The reads of the store and the settings that follow are taken together.
Compare(t) ==
  /\ At(t, "compare")
  /\ CASE th[t].held # LogicalQuantity ->
            channel' = "BLOCKED" /\ UNCHANGED storeVars /\ Raise(t)
       [] th[t].held = LogicalQuantity /\ \E a \in Account : LedgerViolated(a) ->
            /\ channel' = "BLOCKED" /\ Raise(t)
            /\ \E a \in Account : LedgerViolated(a) /\ SetHealth(a, "BLOCKED", "ledger")
       [] OTHER ->
            /\ channel' = "OK" /\ UNCHANGED <<storeVars, up>>
            /\ SetFrame(t, [th[t] EXCEPT !.pc = "recover", !.snap = NoSnap, !.held = 0,
                                         !.todo = {Leg[i].account : i \in Reported(t)}])
  /\ UNCHANGED <<broker, pausedAll, envVars>>

\* The account was blocked for an order state that has cleared since.
Transient(a) ==
  /\ account[a].health = "BLOCKED" /\ account[a].error = "transient"
  /\ OpenIntents(a) = {} /\ AttentionIntents(a) = {}

Recover(t) ==
  /\ At(t, "recover")
  /\ \E a \in th[t].todo :
       SetFrame(t, [th[t] EXCEPT !.todo = @ \ {a},
                                 !.pc = IF Transient(a) THEN "recoverSet" ELSE "recover",
                                 !.cur = IF Transient(a) THEN a ELSE None])
  /\ UNCHANGED up /\ OnlyThread

RecoverSet(t) ==
  /\ At(t, "recoverSet")
  /\ SetHealth(th[t].cur, "OK", "none")
  /\ Goto(t, "recover")
  /\ OnlyStore

\* The refresh has returned to its caller.
RefreshDone(t) ==
  /\ At(t, "recover") /\ th[t].todo = {}
  /\ SetFrame(t,
       [Idle EXCEPT !.job = th[t].job, !.arg = th[t].arg, !.moment = now, !.phase = "submit",
                    !.todo = IF th[t].job = "fast" THEN Stale(now) ELSE {},
                    !.pc = CASE th[t].job = "fast" -> "expire"
                             [] th[t].job = "ack" -> "resolve"
                             [] OTHER -> "unpause"])
  /\ UNCHANGED up /\ OnlyThread
-----------------------------------------------------------------------------
(* submit_pending, after the expiry of queued intents.                     *)

Gate(t) ==
  /\ At(t, "expire") /\ th[t].todo = {} /\ th[t].phase = "submit"
  /\ CASE pausedAll -> Finish(t)
       [] ~pausedAll /\ channel = "BLOCKED" -> Raise(t)
       [] OTHER -> /\ SetFrame(t, [th[t] EXCEPT
                          !.pc = "requeue",
                          !.todo = {i \in Intent : /\ Recoverable(i)
                                                   /\ Leg[i].session > Day(th[t].moment)}])
                   /\ UNCHANGED up
  /\ OnlyThread

RequeueNext(t) ==
  /\ At(t, "requeue")
  /\ \E i \in th[t].todo :
       IF RequeueOK(i)
       THEN /\ Requeue(i) /\ UNCHANGED up
            /\ SetFrame(t, [th[t] EXCEPT !.todo = @ \ {i}, !.touched = @ \cup {Leg[i].account}])
       ELSE UNCHANGED storeVars /\ Raise(t)
  /\ OnlyStore

RequeueHealth(t) ==
  /\ At(t, "requeue") /\ th[t].todo = {}
  /\ \E a \in th[t].touched :
       /\ SetFrame(t, [th[t] EXCEPT !.touched = @ \ {a}])
       /\ IF AttentionIntents(a) = {} THEN SetHealth(a, "OK", "none") ELSE UNCHANGED storeVars
  /\ UNCHANGED up /\ OnlyStore

ActivateScan(t) ==
  /\ At(t, "requeue") /\ th[t].todo = {} /\ th[t].touched = {}
  /\ SetFrame(t, [th[t] EXCEPT !.pc = "activate", !.todo = WithStatus("WAITING_DEPENDENCY")])
  /\ UNCHANGED up /\ OnlyThread

\* A waiting leg runs only after its dependency, and dies with it.
TooLate(i, m) == Leg[i].session < Day(m) \/ (Leg[i].session = Day(m) /\ Missed(i, m))
DependencyStatus(i) == intent[Leg[i].dependency].status
Doomed(i, m) ==
  TooLate(i, m) \/ (Leg[i].session = Day(m) /\ DependencyStatus(i) \in TerminalIntent \ {"FILLED_ALL"})
\* Mutant: any end of the dependency will do.
ReadyAfterAnyEnd(i, m) ==
  ~TooLate(i, m) /\ Leg[i].session = Day(m) /\ DependencyStatus(i) \in TerminalIntent
Ready(i, m) ==
  ~TooLate(i, m) /\ Leg[i].session = Day(m) /\ DependencyStatus(i) = "FILLED_ALL"

ActivateNext(t) ==
  /\ At(t, "activate")
  /\ \E i \in th[t].todo :
       \/ /\ Ready(i, th[t].moment)
          /\ IF intent[i].status = "WAITING_DEPENDENCY" THEN Activate(i) ELSE UNCHANGED storeVars
          /\ SetFrame(t, [th[t] EXCEPT !.todo = @ \ {i}]) /\ UNCHANGED up
       \/ /\ Doomed(i, th[t].moment) /\ ReleaseOK(i)
          /\ Release(i, "EXPIRED", "gap")
          /\ SetFrame(t, [th[t] EXCEPT !.pc = "block", !.cur = i, !.err = "gap",
                                       !.next = "activate", !.todo = @ \ {i}])
          /\ UNCHANGED up
       \/ Doomed(i, th[t].moment) /\ ~ReleaseOK(i) /\ UNCHANGED storeVars /\ Raise(t)
       \/ /\ ~Ready(i, th[t].moment) /\ ~Doomed(i, th[t].moment)
          /\ SetFrame(t, [th[t] EXCEPT !.todo = @ \ {i}]) /\ UNCHANGED <<up, storeVars>>
  /\ OnlyStore

PendingScan(t) ==
  /\ At(t, "activate") /\ th[t].todo = {}
  /\ SetFrame(t, [th[t] EXCEPT !.pc = "pending", !.todo = WithStatus("PENDING_SUBMIT")])
  /\ UNCHANGED up /\ OnlyThread

MayTrade(a) == ~account[a].paused /\ account[a].health \in {"READY", "OK"}
Due(i, m) ==
  /\ Leg[i].session <= Day(m)
  /\ Leg[i].planned => Clock(m) >= Leg[i].after
  /\ Clock(m) \in OpenClocks

Consider(t) ==
  /\ At(t, "pending")
  /\ \E i \in th[t].todo :
       SetFrame(t, [th[t] EXCEPT !.todo = @ \ {i},
                                 !.pc = IF MayTrade(Leg[i].account) /\ Due(i, th[t].moment)
                                        THEN "claim" ELSE "pending",
                                 !.cur = IF MayTrade(Leg[i].account) /\ Due(i, th[t].moment)
                                         THEN i ELSE None])
  /\ UNCHANGED up /\ OnlyThread

NextPending(t) ==
  SetFrame(t, [th[t] EXCEPT !.pc = "pending", !.cur = None, !.ord = None]) /\ UNCHANGED up

ClaimNext(t) ==
  /\ At(t, "claim")
  /\ IF intent[th[t].cur].status = "PENDING_SUBMIT"
     THEN Claim(th[t].cur) /\ Goto(t, "send")
     ELSE UNCHANGED storeVars /\ NextPending(t)
  /\ OnlyStore

NewOrder(i) == [intent |-> i, status |-> "SUBMITTED", filled |-> 0]

\* Mutant: a call without an answer is made again.
SendRetried(t) ==
  /\ At(t, "send")
  /\ \E o \in OrderId, answered \in BOOLEAN :
       /\ broker[o] = None
       /\ broker' = [broker EXCEPT ![o] = NewOrder(th[t].cur)]
       /\ SetFrame(t, [th[t] EXCEPT !.ord = IF answered THEN o ELSE None,
                                    !.pc = IF answered THEN "placed" ELSE "send"])
  /\ UNCHANGED <<storeVars, channel, pausedAll, up, envVars>>

\* place_order: the order may exist at Futu although the call raised.
Send(t) ==
  /\ At(t, "send")
  /\ \E out \in PlaceOutcomes :
       CASE out \in {"accepted", "lost"} ->
              \E o \in OrderId :
                /\ broker[o] = None
                /\ broker' = [broker EXCEPT ![o] = NewOrder(th[t].cur)]
                /\ SetFrame(t, [th[t] EXCEPT
                     !.ord = IF out = "accepted" THEN o ELSE None,
                     !.pc = IF out = "accepted" THEN "placed" ELSE "uncertain"])
         [] out = "never" ->
              SetFrame(t, [th[t] EXCEPT !.pc = "uncertain"]) /\ UNCHANGED broker
         [] OTHER ->
              SetFrame(t, [th[t] EXCEPT !.pc = "reject", !.prev = out]) /\ UNCHANGED broker
  /\ UNCHANGED <<storeVars, channel, pausedAll, up, envVars>>

\* The order that place_order returns shows any status it has had since Futu
\* took it; one that has ended is stored as such, without a release.
Answers(o) == {"SUBMITTING", "SUBMITTED", broker[o].status}

Placed(t) ==
  /\ At(t, "placed")
  /\ IF BindOK(th[t].cur, th[t].ord)
     THEN /\ \E s \in Answers(th[t].ord) : Bind(th[t].cur, th[t].ord, s)
          /\ NextPending(t)
     ELSE UNCHANGED storeVars /\ Goto(t, "uncertain")
  /\ OnlyStore

\* Mutant: status and health are written at once.
UncertainAtOnce(t) ==
  /\ At(t, "uncertain")
  /\ intent' = [intent EXCEPT ![th[t].cur].status = "SUBMISSION_UNCERTAIN"]
  /\ account' = [account EXCEPT ![OwnerOf(th[t].cur)] = WithHealth("BLOCKED", "transient", @)]
  /\ Raise(t)
  /\ UNCHANGED <<decision, order, ledger>> /\ OnlyStore
Uncertain(t) ==
  /\ At(t, "uncertain")
  /\ SetStatus(th[t].cur, "SUBMISSION_UNCERTAIN")
  /\ BlockThen(t, th[t].cur, "transient", "idle")
  /\ OnlyStore

Reject(t) ==
  /\ At(t, "reject")
  /\ IF ReleaseOK(th[t].cur)
     THEN /\ Release(th[t].cur, th[t].prev, "gap") /\ UNCHANGED up
          /\ SetFrame(t, [th[t] EXCEPT !.pc = "block", !.err = "gap", !.next = "pending",
                                       !.failed = TRUE])
     ELSE UNCHANGED storeVars /\ Raise(t)
  /\ OnlyStore

SubmitDone(t) ==
  /\ At(t, "pending") /\ th[t].todo = {}
  /\ IF th[t].failed THEN Raise(t) ELSE Finish(t)
  /\ OnlyThread
-----------------------------------------------------------------------------
(* The operator: acknowledge_execution_gap, resume, pause, confirm_cancel, *)
(* and the drive of an account decision.                                   *)

ResolveGap(t) ==
  /\ At(t, "resolve")
  /\ IF ResolveOK(th[t].arg)
     THEN Resolve(th[t].arg) /\ Goto(t, "ackCheck")
     ELSE UNCHANGED storeVars /\ Raise(t)
  /\ OnlyStore

AckCheck(t) ==
  LET a == Leg[th[t].arg].account
  IN  /\ At(t, "ackCheck")
      /\ IF UnresolvedIntents(a) = {} /\ AttentionIntents(a) = {}
         THEN Goto(t, "ackSet") ELSE Finish(t)
      /\ OnlyThread

AckSet(t) ==
  /\ At(t, "ackSet")
  /\ SetHealth(Leg[th[t].arg].account, "OK", "none")
  /\ Finish(t)
  /\ OnlyStore

Unpause(t) ==
  /\ At(t, "unpause")
  /\ pausedAll' = FALSE
  /\ Finish(t)
  /\ UNCHANGED <<storeVars, broker, channel, envVars>>

Pause(t) ==
  /\ Request /\ th[t].pc = "idle" /\ "pause" \in Jobs[t]
  /\ \/ pausedAll' = TRUE /\ UNCHANGED account
     \/ \E a \in Account :
          /\ account' = [account EXCEPT ![a].paused = ~@] /\ UNCHANGED pausedAll
  /\ UNCHANGED <<decision, intent, order, ledger, broker, channel, up, th, now, crashes>>

CancelOrder(t) ==
  /\ Request /\ th[t].pc = "idle" /\ "cancel" \in Jobs[t]
  /\ \E o \in Working : order[o] # None /\ CancelRequested(o)
  /\ UNCHANGED <<storeVars, channel, pausedAll, up, th, now, crashes>>

Creating == \E t \in Thread : th[t].pc \in {"save", "create"}   \* the decision lock

\* A replacement is one transaction that looks at everything again.  Otherwise
\* the account is looked at, the decision saved and its intents created in
\* three steps.
Drive(t) ==
  /\ Request /\ th[t].pc = "idle" /\ "drive" \in Jobs[t] /\ ~Creating
  /\ \E d \in Decision :
       LET a == Plan[d].account
           old == account[a].lastDecision
           replaces == /\ old \notin {None, d}
                       /\ Plan[old] = Plan[d] \/ OpenIntents(a) # {}
       IN  /\ account[a].health # "BLOCKED"
           /\ \A i \in LegsOf(d) : Leg[i].session >= Day(now)
           /\ IF replaces
              THEN Supersede(old, d) /\ UNCHANGED th
              ELSE /\ OpenIntents(a) = {}
                   /\ SetFrame(t, [Idle EXCEPT !.pc = "save", !.job = "drive", !.arg = d,
                                               !.failed = account[a].paused])
                   /\ UNCHANGED storeVars
  /\ UNCHANGED <<broker, channel, pausedAll, up, now, crashes>>

\* An account that was paused keeps the decision without intents.
SaveNext(t) ==
  /\ At(t, "save")
  /\ IF ~SaveDecisionOK(th[t].arg)
     THEN UNCHANGED storeVars /\ Raise(t)
     ELSE /\ SaveDecision(th[t].arg)
          /\ IF th[t].failed THEN Finish(t) ELSE Goto(t, "create")
  /\ OnlyStore

CreateNext(t) ==
  /\ At(t, "create")
  /\ IF CreateOK(th[t].arg)
     THEN CreateIntents(th[t].arg) /\ Finish(t)
     ELSE UNCHANGED storeVars /\ Raise(t)
  /\ OnlyStore
-----------------------------------------------------------------------------
(* Futu, the clock and the process.                                        *)

BrokerSet(o, s, n) ==
  /\ broker' = [broker EXCEPT ![o].status = s, ![o].filled = n]
  /\ UNCHANGED <<storeVars, channel, pausedAll, up, th, envVars>>

Cancelling == {"CANCELLING_ALL", "CANCELLING_PART"}

BrokerFill(o) ==
  /\ o \in Working
  /\ BrokerSet(o, IF broker[o].filled + 1 = Leg[broker[o].intent].quantity
                  THEN "FILLED_ALL"
                  ELSE IF broker[o].status \in Cancelling THEN "CANCELLING_PART"
                                                          ELSE "FILLED_PART",
               broker[o].filled + 1)

\* On request, or at the end of the session: orders are DAY orders.
BrokerCancel(o) ==
  /\ o \in Working
  /\ broker[o].status \in Cancelling \cup {"TIMEOUT"} \/ Leg[broker[o].intent].session < Day(now)
  /\ BrokerSet(o, IF broker[o].filled = 0 THEN "CANCELLED_ALL" ELSE "CANCELLED_PART",
               broker[o].filled)

BrokerFail(o) == o \in Working /\ broker[o].filled = 0 /\ BrokerSet(o, "FAILED", 0)
BrokerTimeout(o) ==
  o \in Working /\ broker[o].status # "TIMEOUT" /\ BrokerSet(o, "TIMEOUT", broker[o].filled)

\* No operation of the process spans the night.
Tick ==
  /\ now < MaxTime /\ now' = now + 1
  /\ Day(now + 1) # Day(now) => \A t \in Thread : th[t].pc = "idle"
  /\ UNCHANGED <<storeVars, broker, channel, pausedAll, up, th, requests, crashes>>

Crash ==
  /\ up # "down" /\ crashes < MaxCrashes /\ crashes' = crashes + 1
  /\ up' = "down" /\ th' = [t \in Thread |-> Idle]
  /\ UNCHANGED <<storeVars, broker, channel, pausedAll, now, requests>>

\* The next process opens the store.
Open ==
  /\ up = "down"
  /\ Backfill
  /\ up' = "starting"
  /\ UNCHANGED <<broker, channel, pausedAll, th, envVars>>
-----------------------------------------------------------------------------
Init ==
  /\ StoreInit
  /\ broker = [o \in OrderId |-> None]
  /\ channel = "NONE" /\ pausedAll = FALSE /\ up = "down"
  /\ now = 0 /\ requests = 0 /\ crashes = 0
  /\ th = [t \in Thread |-> Idle]

Refresh(t) ==
  \/ Expire(t) \/ Block(t) \/ Snapshot(t) \/ History(t) \/ LookUp(t) \/ BindFound(t) \/ FillFound(t)
  \/ ReportFound(t) \/ SettleFound(t) \/ CancelScan(t) \/ CancelSend(t) \/ CancelMark(t)
  \/ MissingCheck(t) \/ Positions(t) \/ Compare(t) \/ Recover(t) \/ RecoverSet(t) \/ RefreshDone(t)
Submit(t) ==
  \/ Gate(t) \/ RequeueNext(t) \/ RequeueHealth(t) \/ ActivateScan(t) \/ ActivateNext(t)
  \/ PendingScan(t) \/ Consider(t) \/ ClaimNext(t) \/ Send(t) \/ Placed(t) \/ Uncertain(t)
  \/ Reject(t) \/ SubmitDone(t)
Operate(t) == ResolveGap(t) \/ AckCheck(t) \/ AckSet(t) \/ Unpause(t) \/ SaveNext(t)
              \/ CreateNext(t)

Running(t) == Refresh(t) \/ Submit(t) \/ Operate(t)
Web(t) == StartRequest(t) \/ Pause(t) \/ CancelOrder(t) \/ Drive(t)
Futu(o) == BrokerFill(o) \/ BrokerCancel(o) \/ BrokerFail(o) \/ BrokerTimeout(o)

Next ==
  \/ \E t \in Thread : StartFast(t) \/ Running(t) \/ Web(t)
  \/ \E o \in OrderId : Futu(o)
  \/ Tick \/ Crash \/ Open

Spec == Init /\ [][Next]_vars
-----------------------------------------------------------------------------
(* Properties.                                                             *)

\* Every variable keeps to the values its columns, settings and frames allow.
TypeOK ==
  /\ StoreTypeOK
  /\ broker \in [OrderId -> OrderRow \cup {None}]
  /\ channel \in {"NONE", "OK", "BLOCKED"}
  /\ pausedAll \in BOOLEAN
  /\ up \in {"down", "starting", "serving"}
  /\ now \in 0 .. MaxTime /\ requests \in 0 .. MaxRequests /\ crashes \in 0 .. MaxCrashes
  /\ th \in [Thread -> Frame]

\* An intent never becomes two orders at Futu: not when a response is lost and
\* not after a crash, whatever the operator acknowledges in between.
AtMostOneOrder ==
  \A o, p \in OrderId :
    broker[o] # None /\ broker[p] # None /\ broker[o].intent = broker[p].intent => o = p

\* A dependent leg reaches Futu only after the order of its dependency was
\* filled completely there.
DependencyFilledFirst ==
  \A i \in Intent : Leg[i].dependency # None /\ OrdersOf(i) # {} =>
    \E o \in OrdersOf(Leg[i].dependency) : broker[o].status = "FILLED_ALL"

\* The store never books a fill that Futu does not hold, whatever old
\* snapshot the booking thread works from.
BookedFillsExist ==
  \A o \in OrderId : order[o] # None =>
    /\ broker[o] # None /\ broker[o].intent = order[o].intent
    /\ order[o].filled <= broker[o].filled

\* Withdrawn work is never executed: a superseded intent has no order.
SupersededNeverSent == \A i \in WithStatus("SUPERSEDED") : OrdersOf(i) = {}

\* What is booked as position is what the orders of the account filled.
PositionIsFills ==
  \A a \in Account :
    account[a].quantity = InitialQuantity + Lots(order, {i \in Intent : Leg[i].account = a})

\* The frozen cash of an account covers the unfilled part of its open buys.
OpenBuysAreFunded ==
  \A a \in Account : Withdrawn(a) <= account[a].frozen

\* The store never refuses to close an open intent: a refused release would
\* end every refresh that attempts it, and no order would be booked any more.
OpenCanBeClosed == \A i \in Intent : IsOpen(i) => ReleaseOK(i)

\* Whatever portions the fills of an order arrive in, the store can book them.
FillsCanBeBooked ==
  \A o \in OrderId :
    broker[o] # None /\ order[o] # None /\ broker[o].filled >= order[o].filled
      => ApplyFillOK(o, broker[o].filled)

\* No operation is under way.
Resting == up = "serving" /\ \A t \in Thread : th[t].pc = "idle"

\* What ended has given its reservation back.
FrozenIsOpenBuys ==
  Resting => \A a \in Account : account[a].frozen = Withdrawn(a)

\* The reservation of a buy that has not been given back, without what its
\* fills have used.
Outstanding(i) ==
  IF Leg[i].side = "BUY" /\ Created(i) /\ intent[i].generation \notin intent[i].released
  THEN Reserve(i, Remaining(i)) ELSE 0
Claims(a) == [i \in Intent |-> IF Leg[i].account = a THEN Outstanding(i) ELSE 0]

\* Every tick of frozen cash belongs to the unfilled part of a buy that has not
\* been given back, even where an order was stored with its end and its
\* reservation stays: no fill uses another intent's reservation, and no release
\* gives back twice, too much or too little.
FrozenIsOutstanding ==
  \A a \in Account : account[a].frozen = SumFunctionOnSet(Claims(a), Intent)

\* A blocked account can be unblocked: by the next refresh, or by the
\* acknowledgement of an intent that asks for it, now or once it has ended.
BlockedHasAWayOut ==
  Resting => \A a \in Account : account[a].health = "BLOCKED" =>
    account[a].error = "transient" \/ OpenIntents(a) # {} \/ AttentionIntents(a) # {}

\* An intent that has ended stays as it is, but for the repair of an expiry
\* that came too early.
EndedStaysEnded ==
  [][\A i \in Intent : IsTerminal(i) =>
       intent'[i].status = intent[i].status \/ Recoverable(i)]_vars

\* No intent of an account is submitted while one of its intents waits for
\* acknowledgement.
NoTradeOverAGap ==
  [][\A i \in Intent : intent[i].status = "PENDING_SUBMIT" /\ intent'[i].status = "SUBMITTING"
       => AttentionIntents(Leg[i].account) = {}]_vars

\* What was refused or withdrawn stays so, whatever the threads still hold in
\* hand: no late report, cancel mark or lost answer revives it.
RefusedStaysRefused ==
  [][\A i \in Intent : intent[i].status \in {"REJECTED", "SUBMISSION_FAILED", "SUPERSEDED"} =>
       intent'[i].status = intent[i].status]_vars

\* An order is sent in the session it was decided for: what an outage left in
\* the queue overnight expires before anything is submitted.
OrdersInSession ==
  [][\A o \in OrderId : broker[o] = None /\ broker'[o] # None =>
       Leg[broker'[o].intent].session = Day(now)]_vars

\* The outcome of every order at Futu is booked in the end, and its intent ends.
\* Excepted is an order that was stored with its end but without its fills, and
\* not looked at again in its session: nothing asks the history for it.
Unasked(o) ==
  /\ order[o] # None /\ order[o].status \in TerminalOrder /\ IsTerminal(order[o].intent)
  /\ order[o].filled < broker[o].filled /\ Leg[order[o].intent].session < Day(now)
OutcomesAreBooked ==
  \A o \in OrderId :
    (broker[o] # None /\ broker[o].status \in TerminalOrder)
      ~> \/ /\ order[o] # None /\ order[o].status = broker[o].status
            /\ order[o].filled = broker[o].filled /\ IsTerminal(order[o].intent)
         \/ Unasked(o)

\* When an order that the store knows to be working ends incompletely, its
\* intent comes before the operator.
IncompleteEndsAreReviewed ==
  \A o \in OrderId :
    (/\ order[o] # None /\ order[o].status \notin TerminalOrder
     /\ broker[o].status \in AttentionRequired)
      ~> (order[o] # None /\ intent[order[o].intent].attention)

\* The scheduler keeps running, and the watchdog restarts the process.
Fairness ==
  /\ \A t \in Thread : WF_vars(StartFast(t) \/ Running(t))
  /\ WF_vars(Open)
FairSpec == Spec /\ Fairness
=============================================================================
