--------------------------- MODULE DecisionCycle ---------------------------
(***************************************************************************)
(* How a decision of an account comes about: the daily lane of the         *)
(* scheduler with its workers, the operator's drive of the console and the *)
(* batch of `pte once`, all through AccountStrategyCycle and AccountEngine *)
(* with their two locks, a long call to the strategy between two reads of  *)
(* the account, and one or two transactions of the store at the end.       *)
(* Shutdown, crashes, midnight and the fate of the orders go on meanwhile. *)
(*                                                                         *)
(* An action is one transaction, or what happens between two points where  *)
(* a thread may wait.  Time counts half days: 2d is day d up to 20:30 and  *)
(* 2d + 1 its evening.                                                     *)
(***************************************************************************)
EXTENDS Naturals, Sequences, FiniteSets, Functions

CONSTANTS Account, Thread, None,
          LastDay, Session,    \* the days of the instance and the trading days
          Sizing,              \* the size of a plan after each fee booking; 0: no orders
          InitialPosition,
          MaxPosition, MaxFees, \* bounds of the position and of the fee bookings,
          MaxFaults,           \* of crashes and failing calls,
          MaxRequests          \* and of what an operator does

ASSUME SessionAssumption == Session \subseteq 1..LastDay /\ 1 \in Session
ASSUME BoundAssumption ==
  {LastDay, MaxPosition, MaxFees, MaxFaults, MaxRequests} \subseteq Nat
ASSUME PositionAssumption == InitialPosition \in 0..MaxPosition
ASSUME SizingAssumption == Sizing \in [0..MaxFees -> Nat]
ASSUME NoneAssumption == None \notin Thread \cup Session

\* Fills change the quantity, fee bookings only the cash.  Both are part of the
\* portfolio revision; the identity of a plan holds the quantity and the sizes.
Plan == [date : Session, position : 0..MaxPosition, size : Range(Sizing)]

VARIABLES
  now,
  up,            \* the process: "down", "serving" or "once"
  draining,      \* AccountEngine._draining
  account,       \* virtual_accounts: health, paused, quantity and fee bookings
  decision,      \* decisions in the order of insertion, each with its intents
  done, skip,    \* last_account_decision_date and last_account_schedule_skip_date
  retry,         \* the persisted failure of the account's cycle is not yet due
  accountLock,   \* AccountStrategyCycle._account_locks
  decisionLock,  \* AccountEngine._decision_lock
  thread,        \* what each thread does
  todo,          \* accounts that `pte once` has yet to run, with the signal date
  faults, requests

process == <<up, draining, todo>>
settings == <<done, skip, retry>>
locks == <<accountLock, decisionLock>>
counts == <<faults, requests>>
vars == <<now, process, account, decision, settings, locks, thread, counts>>

Idle == [pc |-> "idle"]

Init ==
  /\ now = 3 /\ up = "serving" /\ draining = FALSE /\ todo = {}
  /\ account = [a \in Account |->
                  [health |-> "OK", paused |-> FALSE,
                   position |-> InitialPosition, fees |-> 0]]
  /\ decision = [a \in Account |-> <<>>]
  /\ done = [a \in Account |-> None] /\ skip = [a \in Account |-> None]
  /\ retry = [a \in Account |-> FALSE]
  /\ accountLock = [a \in Account |-> None] /\ decisionLock = None
  /\ thread = [t \in Thread |-> Idle]
  /\ faults = 0 /\ requests = 0

-----------------------------------------------------------------------------
(* The clock and the calendar.                                             *)

Day == now \div 2
Evening == now % 2 = 1
Completed == {d \in Session : 2 * d + 1 <= now}     \* latest_completed_signal_date
ValidOn(d) == {e \in Session : e > d /\ \A f \in Session : f > d => e <= f}

\* From 20:30 of its session on, no order of a plan can be sent any more.
Over(d) == \E e \in ValidOn(d) : now > 2 * e

-----------------------------------------------------------------------------
(* The account as the store shows it.                                      *)

Last(a) == decision[a][Len(decision[a])]
Underway(a) == {k \in DOMAIN decision[a] : decision[a][k].orders \in {"pending", "sent"}}

\* What _planning_revision and _replacement_intent_snapshot fingerprint.
Facts(a) ==
  [position |-> account[a].position, fees |-> account[a].fees,
   open |-> {<<k, decision[a][k].orders>> : k \in Underway(a)}]

\* The strategy is deterministic: the same data and portfolio give the same plan.
Advice(a, d) ==
  [date |-> d, position |-> account[a].position, size |-> Sizing[account[a].fees]]

\* _assign_decision_id: the plan of the last decision keeps its id.
SamePlan(a, p) == decision[a] # <<>> /\ Last(a).plan = p

\* Mutant: whether the intents of the last decision were sent does not matter.
ReplaceableSent(open, a) == \A x \in open : x[1] = Len(decision[a])

\* Only unsent intents of the last decision may be replaced.
Replaceable(open, a) == open = {<<Len(decision[a]), "pending">>}

Active(a, d) == {k \in DOMAIN decision[a] : decision[a][k].active /\ decision[a][k].plan.date = d}

Row(p, skipped, orders) ==
  [plan |-> p, skipped |-> skipped, active |-> TRUE, orders |-> orders]

Call(kind, a, d) == [pc |-> "prepare", kind |-> kind, account |-> a, date |-> d]
Of(t) == thread[t].account
At(t, pc) == thread[t].pc = pc
Goto(t, pc) == thread' = [thread EXCEPT ![t].pc = pc]

\* The locks that leaving the with-statements of t gives back.
Unlock(t) ==
  /\ accountLock' = [a \in Account |-> IF accountLock[a] = t THEN None ELSE accountLock[a]]
  /\ decisionLock' = IF decisionLock = t THEN None ELSE decisionLock

-----------------------------------------------------------------------------
(* A run of the cycle, by a worker of the scheduler ("worker"), the        *)
(* console ("operator") or `pte once` ("batch").                           *)

\* tick_daily: one worker per account, for the date of today, unless today is
\* done or skipped.  While the failure is not due _guard ends it at once.
StartWorker(a, t) ==
  /\ up = "serving" /\ thread[t] = Idle
  /\ Evening /\ ~retry[a]
  /\ ~\E u \in Thread : thread[u] # Idle /\ thread[u].kind = "worker" /\ Of(u) = a
  /\ done[a] # Day /\ skip[a] # Day
  /\ thread' = [thread EXCEPT ![t] = Call("worker", a, Day)]
  /\ UNCHANGED <<now, process, account, decision, settings, locks, counts>>

\* run_latest: the operator's date is found before the account lock.
Drive(a, t) ==
  /\ up = "serving" /\ thread[t] = Idle /\ requests < MaxRequests
  /\ \E d \in Completed :
       /\ \A e \in Completed : e <= d
       /\ thread' = [thread EXCEPT ![t] = Call("operator", a, d)]
  /\ requests' = requests + 1
  /\ UNCHANGED <<now, process, account, decision, settings, locks, faults>>

\* PteCoordinator.refresh: one account after the other, one date for all.
StartBatch(t) ==
  /\ up = "once" /\ \A u \in Thread : thread[u] = Idle
  /\ \E job \in todo :
       /\ thread' = [thread EXCEPT ![t] = Call("batch", job[1], job[2])]
       /\ todo' = todo \ {job}
  /\ UNCHANGED <<now, up, draining, account, decision, settings, locks, counts>>

\* Mutant: an exception leaves the locks taken.
FailLocked(t) ==
  /\ thread' = [thread EXCEPT ![t] = Idle]
  /\ retry' = [retry EXCEPT ![Of(t)] = IF thread[t].kind = "worker" THEN TRUE ELSE @]
  /\ account' = [account EXCEPT ![Of(t)].health =
                   IF thread[t].kind = "batch" THEN "BATCH" ELSE @]
  /\ UNCHANGED <<now, process, decision, done, skip, locks, requests>>

\* An exception: both locks are given back; the scheduler tries again later,
\* the batch blocks the account.
Fail(t) ==
  /\ Unlock(t)
  /\ thread' = [thread EXCEPT ![t] = Idle]
  /\ retry' = [retry EXCEPT ![Of(t)] = IF thread[t].kind = "worker" THEN TRUE ELSE @]
  /\ account' = [account EXCEPT ![Of(t)].health =
                   IF thread[t].kind = "batch" THEN "BATCH" ELSE @]
  /\ UNCHANGED <<now, process, decision, done, skip, requests>>

\* A call to SRT fails.
CallFails(t) == faults < MaxFaults /\ faults' = faults + 1 /\ Fail(t)

Raise(t) == Fail(t) /\ UNCHANGED faults

\* _run_locked up to the decision: there is nothing to do on a closed day.
Prepare(t) ==
  LET a == Of(t) d == thread[t].date IN
  /\ At(t, "prepare") /\ accountLock[a] = None
  /\ \/ CallFails(t)
     \/ /\ d \in Session
        /\ accountLock' = [accountLock EXCEPT ![a] = t]
        /\ Goto(t, "gate")
        /\ UNCHANGED <<now, process, account, decision, settings, decisionLock, counts>>
     \/ /\ d \notin Session
        /\ skip' = [skip EXCEPT ![a] = d]
        /\ thread' = [thread EXCEPT ![t] = Idle]
        /\ UNCHANGED <<now, process, account, decision, done, retry, locks, counts>>

\* _refresh_account before the strategy is asked.
Gate(t) ==
  LET a == Of(t) d == thread[t].date open == Facts(a).open
      operator == thread[t].kind = "operator"
      closed == draining \/ account[a].health # "OK"
      waits == open # {} /\ IF operator THEN ~Replaceable(open, a) ELSE Last(a).plan.date # d
  IN
  /\ At(t, "gate") /\ decisionLock = None
  /\ \/ (closed \/ waits) /\ Raise(t)
     \/ /\ ~closed /\ ~waits /\ open # {} /\ ~operator    \* the date has its orders
        /\ Goto(t, "mark")
        /\ UNCHANGED <<now, process, account, decision, settings, locks, counts>>
     \/ /\ ~closed /\ ~waits /\ (open = {} \/ operator)
        /\ decisionLock' = t
        /\ thread' = [thread EXCEPT ![t] =
                        [pc |-> "advise", kind |-> @.kind, account |-> a, date |-> d,
                         seen |-> Facts(a), plan |-> Advice(a, d)]]
        /\ UNCHANGED <<now, process, account, decision, settings, accountLock, counts>>

\* The strategy has answered: the account and its intents are read again.
Answer(t) ==
  LET a == Of(t) th == thread[t]
      changed == draining \/ account[a].health # "OK" \/ Facts(a) # th.seen
      replaces == /\ th.kind = "operator" /\ decision[a] # <<>> /\ ~SamePlan(a, th.plan)
                  /\ th.date = Last(a).plan.date \/ th.seen.open # {}
  IN
  /\ At(t, "advise")
  /\ \/ CallFails(t)
     \/ changed /\ Raise(t)
     \/ /\ ~changed
        /\ thread' = [thread EXCEPT ![t] =
                        [pc |-> IF replaces THEN "replace" ELSE "save",
                         kind |-> th.kind, account |-> a, date |-> th.date,
                         seen |-> th.seen, plan |-> th.plan, skipped |-> account[a].paused]]
        /\ UNCHANGED <<now, process, account, decision, settings, locks, counts>>

\* save_account_decision.  The last decision comes back with its old payload;
\* it must have been skipped because of a pause if this one is.
SaveOK(a, p, skipped) ==
  IF SamePlan(a, p)
  THEN /\ Last(a).active /\ Last(a).skipped = skipped
       /\ Active(a, p.date) = {Len(decision[a])}
  ELSE Active(a, p.date) = {}

\* Mutant: the date is marked as soon as the decision is stored.
SaveMarks(t) ==
  LET a == Of(t) th == thread[t] IN
  /\ At(t, "save")
  /\ \/ ~SaveOK(a, th.plan, th.skipped) /\ Raise(t)
     \/ /\ SaveOK(a, th.plan, th.skipped)
        /\ decision' = IF SamePlan(a, th.plan) THEN decision
                       ELSE [decision EXCEPT ![a] = Append(@, Row(th.plan, th.skipped, "none"))]
        /\ done' = [done EXCEPT ![a] = th.date]
        /\ Goto(t, "create")
        /\ UNCHANGED <<now, process, account, skip, retry, locks, counts>>

Save(t) ==
  LET a == Of(t) th == thread[t] IN
  /\ At(t, "save")
  /\ \/ ~SaveOK(a, th.plan, th.skipped) /\ Raise(t)
     \/ /\ SaveOK(a, th.plan, th.skipped)
        /\ decision' = IF SamePlan(a, th.plan) THEN decision
                       ELSE [decision EXCEPT ![a] = Append(@, Row(th.plan, th.skipped, "none"))]
        /\ Goto(t, "create")
        /\ UNCHANGED <<now, process, account, settings, locks, counts>>

\* create_account_plan_intents and create_account_immediate_intents refuse a
\* blocked or a paused account, and buys that a fee has made too dear.
CreateOK(a) == account[a].health = "OK" /\ ~account[a].paused

Wants(th) == ~th.skipped /\ th.plan.size > 0

Create(t) ==
  LET a == Of(t) th == thread[t]
      missing == Wants(th) /\ Last(a).orders = "none"
  IN
  /\ At(t, "create")
  /\ \/ missing /\ (~CreateOK(a) \/ account[a].fees # th.seen.fees) /\ Raise(t)
     \/ /\ missing => CreateOK(a)
        /\ decision' = IF missing
                       THEN [decision EXCEPT ![a][Len(decision[a])].orders = "pending"]
                       ELSE decision
        /\ decisionLock' = None
        /\ Goto(t, "mark")
        /\ UNCHANGED <<now, process, account, settings, accountLock, counts>>

\* Mutant: the transaction does not look at the intents again.
ReplaceUnchecked(t) ==
  LET a == Of(t) th == thread[t]
      k == Len(decision[a])
      old == [decision[a] EXCEPT ![k].active = FALSE,
                                 ![k].orders = IF @ = "pending" THEN "withdrawn" ELSE @]
  IN
  /\ At(t, "replace")
  /\ Last(a).active /\ Active(a, th.plan.date) \subseteq {k}
  /\ Wants(th) => CreateOK(a)
  /\ decision' = [decision EXCEPT ![a] =
                    Append(old, Row(th.plan, th.skipped,
                                    IF Wants(th) THEN "pending" ELSE "none"))]
  /\ decisionLock' = None
  /\ Goto(t, "mark")
  /\ UNCHANGED <<now, process, account, settings, accountLock, counts>>

\* atomic_decision_update: read the intents once more, withdraw them, supersede
\* the decision, save the new one and create its orders, all or nothing.
Replace(t) ==
  LET a == Of(t) th == thread[t]
      k == Len(decision[a])
      fits == /\ Facts(a).open = th.seen.open
              /\ Last(a).active /\ Active(a, th.plan.date) \subseteq {k}
              /\ Wants(th) => CreateOK(a)
      old == [decision[a] EXCEPT ![k].active = FALSE,
                                 ![k].orders = IF @ = "pending" THEN "withdrawn" ELSE @]
  IN
  /\ At(t, "replace")
  /\ \/ (~fits \/ (Wants(th) /\ account[a].fees # th.seen.fees)) /\ Raise(t)
     \/ /\ fits
        /\ decision' = [decision EXCEPT ![a] =
                          Append(old, Row(th.plan, th.skipped,
                                          IF Wants(th) THEN "pending" ELSE "none"))]
        /\ decisionLock' = None
        /\ Goto(t, "mark")
        /\ UNCHANGED <<now, process, account, settings, accountLock, counts>>

\* The date is done, and the failure of the worker forgotten.
Mark(t) ==
  /\ At(t, "mark")
  /\ done' = [done EXCEPT ![Of(t)] = thread[t].date]
  /\ retry' = [retry EXCEPT ![Of(t)] = IF thread[t].kind = "worker" THEN FALSE ELSE @]
  /\ thread' = [thread EXCEPT ![t] = Idle]
  /\ Unlock(t)
  /\ UNCHANGED <<now, process, account, decision, skip, counts>>

Step(t) ==
  Prepare(t) \/ Gate(t) \/ Answer(t) \/ Save(t) \/ Create(t) \/ Replace(t) \/ Mark(t)

-----------------------------------------------------------------------------
(* The orders: sent, booked and ended by the loop of the execution, which  *)
(* `pte once` runs before its accounts.  FutuExecution has the details.    *)

Executing ==
  \/ up = "serving"
  \/ up = "once" /\ (\A u \in Thread : thread[u] = Idle) /\ {job[1] : job \in todo} = Account

Booked(a) == UNCHANGED <<now, process, settings, locks, thread, counts>>

\* The first order of the decision is claimed for sending.
Send(a) ==
  /\ Executing /\ CreateOK(a)
  /\ \E k \in Underway(a) :
       /\ decision[a][k].orders = "pending"
       /\ \E e \in ValidOn(decision[a][k].plan.date) : now = 2 * e
       /\ decision' = [decision EXCEPT ![a][k].orders = "sent"]
  /\ Booked(a) /\ UNCHANGED account

Fill(a) ==
  /\ Executing /\ account[a].position < MaxPosition
  /\ \E k \in Underway(a) : decision[a][k].orders = "sent"
  /\ account' = [account EXCEPT ![a].position = @ + 1]
  /\ Booked(a) /\ UNCHANGED decision

\* Futu reports the fees of an order after it, even days later.
BookFee(a) ==
  /\ Executing /\ account[a].position > 0 /\ account[a].fees < MaxFees
  /\ account' = [account EXCEPT ![a].fees = @ + 1]
  /\ Booked(a) /\ UNCHANGED decision

\* All orders have ended; one that ended incomplete leaves a gap to review.
End(a) ==
  /\ Executing
  /\ \E k \in Underway(a) :
       /\ decision[a][k].orders = "sent"
       /\ decision' = [decision EXCEPT ![a][k].orders = "ended"]
  /\ \E h \in {account[a].health, "GAP"} : account' = [account EXCEPT ![a].health = h]
  /\ Booked(a)

\* Orders that were never sent expire with their session, and block.
Expire(a) ==
  /\ Executing
  /\ \E k \in Underway(a) :
       /\ decision[a][k].orders = "pending" /\ Over(decision[a][k].plan.date)
       /\ decision' = [decision EXCEPT ![a][k].orders = "ended"]
  /\ account' = [account EXCEPT ![a].health = "GAP"]
  /\ Booked(a)

\* The operator reviews the gap.  Nothing clears what the batch has written.
Acknowledge(a) ==
  /\ up = "serving" /\ account[a].health = "GAP" /\ requests < MaxRequests
  /\ account' = [account EXCEPT ![a].health = "OK"]
  /\ requests' = requests + 1
  /\ UNCHANGED <<now, process, decision, settings, locks, thread, faults>>

SetPaused(a) ==
  /\ up = "serving" /\ requests < MaxRequests
  /\ account' = [account EXCEPT ![a].paused = ~@]
  /\ requests' = requests + 1
  /\ UNCHANGED <<now, process, decision, settings, locks, thread, faults>>

-----------------------------------------------------------------------------
(* Time and the process.                                                   *)

Tick ==
  /\ now < 2 * LastDay + 1 /\ now' = now + 1
  /\ UNCHANGED <<process, account, decision, settings, locks, thread, counts>>

RetryDue(a) ==
  /\ retry[a] /\ retry' = [retry EXCEPT ![a] = FALSE]
  /\ UNCHANGED <<now, process, account, decision, done, skip, locks, thread, counts>>

\* Mutant: begin_shutdown does not wait.
BeginShutdownAtOnce ==
  /\ up = "serving" /\ ~draining /\ requests < MaxRequests
  /\ draining' = TRUE /\ requests' = requests + 1
  /\ UNCHANGED <<now, up, todo, account, decision, settings, locks, thread, faults>>

\* begin_shutdown waits for the decision that is being taken.
BeginShutdown ==
  /\ up = "serving" /\ ~draining /\ decisionLock = None /\ requests < MaxRequests
  /\ draining' = TRUE /\ requests' = requests + 1
  /\ UNCHANGED <<now, up, todo, account, decision, settings, locks, thread, faults>>

\* The process ends; its threads, daemons all of them, end where they are.
Down ==
  /\ up' = "down" /\ draining' = FALSE /\ todo' = {}
  /\ thread' = [t \in Thread |-> Idle]
  /\ accountLock' = [a \in Account |-> None] /\ decisionLock' = None
  /\ UNCHANGED <<now, account, decision, settings, requests>>

Stop == up = "serving" /\ draining /\ Down /\ UNCHANGED faults

BatchEnds ==
  up = "once" /\ todo = {} /\ (\A t \in Thread : thread[t] = Idle) /\ Down /\ UNCHANGED faults

Crash == up # "down" /\ faults < MaxFaults /\ Down /\ faults' = faults + 1

\* The watchdog starts the service again, or somebody `pte once`; the runtime
\* lock keeps one from running beside the other.
Serve ==
  /\ up = "down" /\ up' = "serving"
  /\ UNCHANGED <<now, draining, todo, account, decision, settings, locks, thread, counts>>

Once ==
  /\ up = "down" /\ up' = "once" /\ requests < MaxRequests /\ requests' = requests + 1
  /\ \E d \in Completed :
       /\ \A e \in Completed : e <= d
       /\ todo' = Account \X {d}
  /\ UNCHANGED <<now, draining, account, decision, settings, locks, thread, faults>>

Next ==
  \/ \E t \in Thread : Step(t) \/ StartBatch(t)
  \/ \E a \in Account, t \in Thread : StartWorker(a, t) \/ Drive(a, t)
  \/ \E a \in Account : Send(a) \/ Fill(a) \/ BookFee(a) \/ End(a) \/ Expire(a)
  \/ \E a \in Account : Acknowledge(a) \/ SetPaused(a) \/ RetryDue(a)
  \/ Tick \/ BeginShutdown \/ Stop \/ BatchEnds \/ Crash \/ Serve \/ Once

Spec == Init /\ [][Next]_vars

\* Threads run, failures become due, the daily lane looks every half second,
\* a batch or a draining process ends, the watchdog starts the service.
FairSpec ==
  /\ Spec
  /\ \A t \in Thread : WF_vars(Step(t)) /\ WF_vars(StartBatch(t))
  /\ \A a \in Account : WF_vars(RetryDue(a)) /\ WF_vars(\E t \in Thread : StartWorker(a, t))
  /\ WF_vars(Stop) /\ WF_vars(BatchEnds) /\ WF_vars(Serve)

-----------------------------------------------------------------------------
(* What the cycle implements.                                              *)

\* The book of decisions is what the decisions and the intents tables show.
Book ==
  INSTANCE DecisionBook WITH
    DateOf <- [p \in Plan |-> p.date],
    book <- [a \in Account |->
              [k \in DOMAIN decision[a] |->
                [plan |-> decision[a][k].plan, active |-> decision[a][k].active,
                 orders |-> decision[a][k].orders]]]

\* Every step of any thread, through crashes and restarts, is one step of the
\* book of decisions or none (README of the engine, 单账户决策接口).
ImplementsBook == Book!Spec

\* A date is marked done only after a decision of it was stored with all its
\* orders, or none were due: a crash or a failing step must leave it to be done
\* again (docs/DEVELOPMENT_HANDOFF.md, rule 8; _run_locked marks last).
DoneMeansIssued ==
  \A a \in Account : done[a] # None =>
    \E k \in DOMAIN decision[a] :
      LET row == decision[a][k] IN
      row.plan.date = done[a] /\ (row.orders # "none" \/ row.skipped \/ row.plan.size = 0)

\* Orders that wait to be sent were sized for the position the account has:
\* no fill of an older order came after the strategy looked.
PendingFitsPosition ==
  \A a \in Account : \A k \in DOMAIN decision[a] :
    decision[a][k].orders = "pending" => decision[a][k].plan.position = account[a].position

\* Once draining is visible no decision is stored and no orders are created
\* (the comment of begin_shutdown).
DrainedIsQuiet ==
  [][draining => \A a \in Account :
       /\ Len(decision'[a]) = Len(decision[a])
       /\ \A k \in DOMAIN decision[a] :
            decision[a][k].orders = "none" => decision'[a][k].orders = "none"]_vars

\* In the evening of a session every account gets its decision, in spite of
\* restarts, failing calls and operators, unless it is blocked or an older
\* decision still has orders under way.
Decided(a) ==
  \/ ~Evening \/ Day \notin Session
  \/ account[a].health # "OK"
  \/ \E k \in Underway(a) : decision[a][k].plan.date # Day
  \/ \E k \in DOMAIN decision[a] : decision[a][k].plan.date = Day

EveningDecides == \A a \in Account : []<>Decided(a)

\* README of the engine, line 128: a drive with the inputs of the decision in
\* force reuses it.
SamePlanIsReused ==
  \A t \in Thread :
    At(t, "save") /\ SamePlan(Of(t), thread[t].plan) => SaveOK(Of(t), thread[t].plan, thread[t].skipped)
=============================================================================
