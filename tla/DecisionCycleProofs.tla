------------------------ MODULE DecisionCycleProofs ------------------------
(***************************************************************************)
(* What holds of the decision cycle for any accounts, threads, calendars   *)
(* and sizes: it implements the book of decisions, a date is marked done   *)
(* only when its orders exist, orders fit the position, and a draining     *)
(* process decides nothing.                                                *)
(***************************************************************************)
EXTENDS DecisionCycle, SequenceTheorems, TLAPS

-----------------------------------------------------------------------------
(* The inductive invariant.                                                *)

OrdersState == {"none", "pending", "sent", "ended", "withdrawn"}
DecisionRow == [plan : Plan, skipped : BOOLEAN, active : BOOLEAN, orders : OrdersState]
AccountRow == [health : {"OK", "GAP", "BATCH"}, paused : BOOLEAN,
               position : 0..MaxPosition, fees : 0..MaxFees]

\* A thread before it asks the strategy, while it waits for the answer, and after.
Look == [position : 0..MaxPosition, fees : 0..MaxFees, open : SUBSET (Nat \X OrdersState)]
Kind == {"worker", "operator", "batch"}
Early == [pc : {"prepare", "gate", "mark"}, kind : Kind, account : Account, date : Nat]
Asking == [pc : {"advise"}, kind : Kind, account : Account, date : Nat, seen : Look, plan : Plan]
Late == [pc : {"save", "create", "replace", "mark"}, kind : Kind, account : Account, date : Nat,
         seen : Look, plan : Plan, skipped : BOOLEAN]

\* The variables the safety properties depend on.
TypeOK ==
  /\ now \in Nat /\ draining \in BOOLEAN
  /\ account \in [Account -> AccountRow]
  /\ decision \in [Account -> Seq(DecisionRow)]
  /\ thread \in [Thread -> {Idle} \cup Early \cup Asking \cup Late]
  /\ todo \subseteq Account \X Nat
  /\ done \in [Account -> Nat \cup {None}]

\* The threads between the two ends of "with self._decision_lock".
Deciding == {"advise", "save", "create", "replace"}
DecidersLock == \A t \in Thread : thread[t].pc \in Deciding => decisionLock = t
DrainedLock == draining => \A t \in Thread : thread[t].pc \notin Deciding

\* Only the last decision of an account has orders under way.
LastOpen == \A a \in Account : Underway(a) \subseteq {Len(decision[a])}

\* What a thread knows of its account at each point, in spite of everybody else.
Settled(a, p) == Underway(a) = {} /\ account[a].position = p.position
Asked(t) ==
  LET a == Of(t) seen == thread[t].seen p == thread[t].plan IN
  /\ p.date = thread[t].date
  /\ p.position = seen.position
  /\ \/ seen.open = {}
     \/ thread[t].kind = "operator" /\ Replaceable(seen.open, a)
Saving(t) ==
  LET a == Of(t) p == thread[t].plan IN
  /\ p.date = thread[t].date
  /\ Settled(a, p) \/ (SamePlan(a, p) /\ Last(a).orders # "none")
Creating(t) ==
  LET a == Of(t) p == thread[t].plan IN
  /\ p.date = thread[t].date
  /\ SamePlan(a, p) /\ Last(a).skipped = thread[t].skipped
  /\ Settled(a, p) \/ Last(a).orders # "none"
Replacing(t) ==
  LET a == Of(t) seen == thread[t].seen p == thread[t].plan IN
  /\ p.date = thread[t].date
  /\ decision[a] # <<>>
  /\ \/ seen.open = {} /\ Settled(a, p)
     \/ /\ Replaceable(seen.open, a)
        /\ \/ Last(a).orders = "pending" /\ account[a].position = p.position
           \/ Last(a).orders \in {"sent", "ended"}

\* The decision of the date d has all the orders it wants.
Issued(a, d) ==
  \E k \in DOMAIN decision[a] :
    LET row == decision[a][k] IN
    row.plan.date = d /\ (row.orders # "none" \/ row.skipped \/ row.plan.size = 0)

Know(t) ==
  /\ thread[t].pc \in {"gate", "mark"} \cup Deciding => thread[t].date \in Session
  /\ At(t, "advise") => Asked(t)
  /\ At(t, "save") => Saving(t)
  /\ At(t, "create") => Creating(t)
  /\ At(t, "replace") => Replacing(t)
  /\ At(t, "mark") => Issued(Of(t), thread[t].date)
ThreadsKnow == \A t \in Thread : Know(t)

Inv ==
  /\ TypeOK /\ DecidersLock /\ DrainedLock /\ LastOpen /\ ThreadsKnow
  /\ DoneMeansIssued /\ PendingFitsPosition

-----------------------------------------------------------------------------
(* Types: what the pieces do that the actions are made of.                 *)

\* The rows of one account with its last one.
LEMMA Rows ==
  ASSUME TypeOK, NEW a \in Account
  PROVE  /\ decision[a] \in Seq(DecisionRow)
         /\ Len(decision[a]) \in Nat /\ DOMAIN decision[a] = 1..Len(decision[a])
         /\ \A k \in DOMAIN decision[a] : decision[a][k] \in DecisionRow
         /\ decision[a] # <<>> => Len(decision[a]) \in DOMAIN decision[a]
         /\ decision[a] = <<>> => DOMAIN decision[a] = {}
         /\ Underway(a) = {k \in DOMAIN decision[a] : decision[a][k].orders \in {"pending", "sent"}}
<1>1. decision[a] \in Seq(DecisionRow)
  BY DEF TypeOK
<1>2. Len(decision[a]) \in Nat /\ DOMAIN decision[a] = 1..Len(decision[a])
  BY <1>1
<1> QED
  BY <1>1, <1>2 DEF Underway

LEMMA RowsAfter ==
  ASSUME TypeOK', NEW a \in Account
  PROVE  /\ decision'[a] \in Seq(DecisionRow)
         /\ Len(decision'[a]) \in Nat /\ DOMAIN decision'[a] = 1..Len(decision'[a])
         /\ \A k \in DOMAIN decision'[a] : decision'[a][k] \in DecisionRow
         /\ decision'[a] # <<>> => Len(decision'[a]) \in DOMAIN decision'[a]
         /\ decision'[a] = <<>> => DOMAIN decision'[a] = {}
         /\ Underway(a)' = {k \in DOMAIN decision'[a] : decision'[a][k].orders \in {"pending", "sent"}}
<1>1. decision'[a] \in Seq(DecisionRow)
  BY DEF TypeOK
<1>2. Len(decision'[a]) \in Nat /\ DOMAIN decision'[a] = 1..Len(decision'[a])
  BY <1>1
<1> QED
  BY <1>1, <1>2 DEF Underway

\* How a transaction changes the rows of one account.
Rewrite(a, s) == decision' = [decision EXCEPT ![a] = s]
WithOrders(s, k, o) == [s EXCEPT ![k].orders = o]
WithdrawLast(s, k) ==
  [s EXCEPT ![k].active = FALSE, ![k].orders = IF @ = "pending" THEN "withdrawn" ELSE @]

\* The orders of one decision move.
LEMMA OrdersMove ==
  ASSUME TypeOK, NEW a \in Account, NEW k \in DOMAIN decision[a], NEW o \in OrdersState,
         Rewrite(a, WithOrders(decision[a], k, o))
  PROVE  /\ decision' \in [Account -> Seq(DecisionRow)]
         /\ \A b \in Account \ {a} : decision'[b] = decision[b]
         /\ Len(decision'[a]) = Len(decision[a]) /\ DOMAIN decision'[a] = DOMAIN decision[a]
         /\ \A j \in DOMAIN decision[a] :
              /\ decision'[a][j].plan = decision[a][j].plan
              /\ decision'[a][j].skipped = decision[a][j].skipped
              /\ decision'[a][j].active = decision[a][j].active
              /\ decision'[a][j].orders = IF j = k THEN o ELSE decision[a][j].orders
<1> DEFINE s == decision[a]
           r == [s[k] EXCEPT !.orders = o]
           u == [s EXCEPT ![k] = r]
<1>1. s \in Seq(DecisionRow) /\ s[k] \in DecisionRow /\ k \in 1..Len(s)
  BY Rows
<1>2. /\ r \in DecisionRow /\ r.orders = o /\ r.plan = s[k].plan
      /\ r.skipped = s[k].skipped /\ r.active = s[k].active
  BY <1>1 DEF DecisionRow
<1>3. decision \in [Account -> Seq(DecisionRow)]
  BY DEF TypeOK
<1>4. decision' = [decision EXCEPT ![a] = u]
  BY Zenon DEF Rewrite, WithOrders
<1> HIDE DEF r
<1>5. /\ u \in Seq(DecisionRow) /\ Len(u) = Len(s) /\ DOMAIN u = DOMAIN s
      /\ \A j \in DOMAIN s : u[j] = IF j = k THEN r ELSE s[j]
  BY <1>1, <1>2, ExceptSeq
<1> HIDE DEF u
<1>6. /\ decision' \in [Account -> Seq(DecisionRow)] /\ decision'[a] = u
      /\ \A b \in Account \ {a} : decision'[b] = decision[b]
  BY <1>3, <1>4, <1>5
<1> QED
  BY <1>2, <1>5, <1>6

\* A decision is stored after the rows s.
LEMMA AppendRow ==
  ASSUME TypeOK, NEW a \in Account, NEW s \in Seq(DecisionRow), NEW r \in DecisionRow,
         Rewrite(a, Append(s, r))
  PROVE  /\ decision' \in [Account -> Seq(DecisionRow)]
         /\ \A b \in Account \ {a} : decision'[b] = decision[b]
         /\ decision'[a] # <<>>
         /\ Len(decision'[a]) = Len(s) + 1 /\ DOMAIN decision'[a] = DOMAIN s \cup {Len(s) + 1}
         /\ Len(s) + 1 \notin DOMAIN s
         /\ \A j \in DOMAIN s : decision'[a][j] = s[j]
         /\ decision'[a][Len(s) + 1] = r
<1> DEFINE u == Append(s, r)
<1>1. /\ u \in Seq(DecisionRow) /\ Len(u) = Len(s) + 1 /\ Len(s) \in Nat
      /\ DOMAIN s = 1..Len(s) /\ DOMAIN u = 1..Len(s) + 1
      /\ \A j \in 1..Len(s) : u[j] = s[j]
      /\ u[Len(s) + 1] = r
  OBVIOUS
<1>2. decision' = [decision EXCEPT ![a] = u]
  BY DEF Rewrite
<1> HIDE DEF u
<1>3. /\ decision' \in [Account -> Seq(DecisionRow)] /\ decision'[a] = u
      /\ \A b \in Account \ {a} : decision'[b] = decision[b]
  BY <1>1, <1>2 DEF TypeOK
<1>4. u # <<>>
  BY <1>1
<1> QED
  BY <1>1, <1>3, <1>4

\* The rows that a replacement leaves: the last one withdrawn.
LEMMA Withdraw ==
  ASSUME NEW s \in Seq(DecisionRow), NEW k \in DOMAIN s
  PROVE  LET u == WithdrawLast(s, k) IN
         /\ u \in Seq(DecisionRow) /\ Len(u) = Len(s) /\ DOMAIN u = DOMAIN s
         /\ \A j \in DOMAIN s \ {k} : u[j] = s[j]
         /\ u[k].plan = s[k].plan /\ u[k].skipped = s[k].skipped /\ u[k].active = FALSE
         /\ u[k].orders = IF s[k].orders = "pending" THEN "withdrawn" ELSE s[k].orders
<1> DEFINE u == WithdrawLast(s, k)
           o == IF s[k].orders = "pending" THEN "withdrawn" ELSE s[k].orders
           r1 == [s[k] EXCEPT !.active = FALSE]
           u1 == [s EXCEPT ![k] = r1]
           r2 == [u1[k] EXCEPT !.orders = IF @ = "pending" THEN "withdrawn" ELSE @]
<1>1. k \in 1..Len(s) /\ s[k] \in DecisionRow
  OBVIOUS
<1>2. /\ r1 \in DecisionRow /\ r1.plan = s[k].plan /\ r1.skipped = s[k].skipped
      /\ r1.active = FALSE /\ r1.orders = s[k].orders
  BY <1>1 DEF DecisionRow
<1>3. u = [u1 EXCEPT ![k] = r2]
  BY Zenon DEF WithdrawLast
<1> HIDE DEF r1, u
<1>4. /\ u1 \in Seq(DecisionRow) /\ Len(u1) = Len(s)
      /\ \A j \in 1..Len(s) : u1[j] = IF j = k THEN r1 ELSE s[j]
  BY <1>1, <1>2, ExceptSeq
<1>5. u1[k] = r1
  BY <1>1, <1>4
<1> HIDE DEF u1
<1>6. /\ r2 \in DecisionRow /\ r2.plan = s[k].plan /\ r2.skipped = s[k].skipped
      /\ r2.active = FALSE /\ r2.orders = o
  BY <1>2, <1>5 DEF DecisionRow, OrdersState
<1> HIDE DEF r2, o
<1>7. /\ [u1 EXCEPT ![k] = r2] \in Seq(DecisionRow) /\ Len([u1 EXCEPT ![k] = r2]) = Len(u1)
      /\ \A j \in 1..Len(u1) : [u1 EXCEPT ![k] = r2][j] = IF j = k THEN r2 ELSE u1[j]
  BY <1>1, <1>4, <1>6, ExceptSeq
<1>8. u \in Seq(DecisionRow) /\ Len(u) = Len(s) /\ \A j \in 1..Len(s) : u[j] = IF j = k THEN r2 ELSE s[j]
  BY <1>3, <1>4, <1>7
<1> QED
  BY <1>1, <1>6, <1>8 DEF o, u

\* What the strategy sees and answers.
LEMMA AdviceTypes ==
  ASSUME TypeOK, NEW a \in Account, NEW d \in Session
  PROVE  /\ Facts(a) \in Look /\ Facts(a).position = account[a].position
         /\ Facts(a).fees = account[a].fees
         /\ Facts(a).open = {<<k, decision[a][k].orders>> : k \in Underway(a)}
         /\ Advice(a, d) \in Plan /\ Advice(a, d).date = d
         /\ Advice(a, d).position = account[a].position
<1>1. account[a].position \in 0..MaxPosition /\ account[a].fees \in 0..MaxFees
  BY DEF TypeOK, AccountRow
<1>2. Facts(a).open \subseteq Nat \X OrdersState
  BY Rows DEF Facts, Underway, DecisionRow
<1>3. Sizing[account[a].fees] \in Range(Sizing)
  BY <1>1, SizingAssumption DEF Range
<1> QED
  BY <1>1, <1>2, <1>3 DEF Facts, Look, Advice, Plan

\* Where a thread is tells what it holds.
LEMMA ThreadTypes ==
  ASSUME TypeOK, NEW t \in Thread
  PROVE  /\ thread[t].pc \in {"prepare", "gate"} => thread[t] \in Early
         /\ At(t, "advise") => thread[t] \in Asking
         /\ thread[t].pc \in {"save", "create", "replace"} => thread[t] \in Late
         /\ At(t, "mark") => thread[t] \in Early \cup Late
         /\ thread[t].pc # "idle" => /\ Of(t) \in Account /\ thread[t].kind \in Kind
                                     /\ thread[t].date \in Nat
                                     /\ thread[t].pc \in {"prepare", "gate", "mark"} \cup Deciding
BY DEF TypeOK, Early, Asking, Late, Idle, At, Of, Deciding

LEMMA SessionNat == Session \subseteq Nat
BY SessionAssumption, BoundAssumption

\* A call ends: with an exception, or in time.
LEMMA FailTypes ==
  ASSUME TypeOK, NEW t \in Thread, thread[t].pc # "idle", Fail(t)
  PROVE  /\ TypeOK' /\ thread' = [thread EXCEPT ![t] = Idle]
         /\ UNCHANGED <<now, process, decision, done>>
         /\ \A a \in Account : /\ account'[a].position = account[a].position
                               /\ account'[a].fees = account[a].fees
<1>1. Of(t) \in Account
  BY ThreadTypes
<1>2. thread' = [thread EXCEPT ![t] = Idle] /\ UNCHANGED <<now, process, decision, done>>
  BY DEF Fail
<1> DEFINE h == IF thread[t].kind = "batch" THEN "BATCH" ELSE account[Of(t)].health
           r == [account[Of(t)] EXCEPT !.health = h]
<1>3. r \in AccountRow /\ r.position = account[Of(t)].position /\ r.fees = account[Of(t)].fees
  BY <1>1 DEF TypeOK, AccountRow
<1>4. account' = [account EXCEPT ![Of(t)] = r]
  BY Zenon DEF Fail
<1> HIDE DEF r
<1>5. account \in [Account -> AccountRow]
  BY DEF TypeOK
<1>6. /\ account' \in [Account -> AccountRow]
      /\ \A a \in Account : account'[a] = IF a = Of(t) THEN r ELSE account[a]
  BY <1>1, <1>3, <1>4, <1>5
<1>7. thread' \in [Thread -> {Idle} \cup Early \cup Asking \cup Late]
  BY <1>2 DEF TypeOK
<1> QED
  BY <1>2, <1>3, <1>6, <1>7 DEF TypeOK, process

LEMMA StartTypes ==
  ASSUME TypeOK, NEW t \in Thread,
         \/ \E a \in Account : StartWorker(a, t) \/ Drive(a, t)
         \/ StartBatch(t)
  PROVE  /\ TypeOK' /\ UNCHANGED <<now, draining, account, decision, done, decisionLock>>
         /\ \E row \in Early : thread' = [thread EXCEPT ![t] = row] /\ row.pc = "prepare"
<1>1. \A kind \in Kind, a \in Account, d \in Nat : Call(kind, a, d) \in Early /\ Call(kind, a, d).pc = "prepare"
  BY DEF Call, Early
<1>0. now \in Nat
  BY DEF TypeOK
<1>a. Day \in Nat
  BY <1>0 DEF Day
<1>b. Completed \subseteq Nat
  BY SessionNat DEF Completed
<1>2. Day \in Nat /\ Completed \subseteq Nat
  BY <1>a, <1>b
<1>3. CASE \E a \in Account : StartWorker(a, t)
  <2>1. UNCHANGED <<now, process, account, decision, done, decisionLock>>
    BY <1>3 DEF StartWorker, settings, locks
  <2>2. \E row \in Early : thread' = [thread EXCEPT ![t] = row] /\ row.pc = "prepare"
    BY <1>1, <1>2, <1>3 DEF StartWorker, Kind
  <2> QED BY <2>1, <2>2 DEF TypeOK, process
<1>4. CASE \E a \in Account : Drive(a, t)
  <2>1. UNCHANGED <<now, process, account, decision, done, decisionLock>>
    BY <1>4 DEF Drive, settings, locks
  <2>2. \E row \in Early : thread' = [thread EXCEPT ![t] = row] /\ row.pc = "prepare"
    BY <1>1, <1>2, <1>4 DEF Drive, Kind
  <2> QED BY <2>1, <2>2 DEF TypeOK, process
<1>5. CASE StartBatch(t)
  <2>1. /\ UNCHANGED <<now, draining, account, decision, done, decisionLock>>
        /\ todo' \subseteq todo
    BY <1>5 DEF StartBatch, settings, locks
  <2>2. PICK job \in todo : thread' = [thread EXCEPT ![t] = Call("batch", job[1], job[2])]
    BY <1>5 DEF StartBatch
  <2>3. job[1] \in Account /\ job[2] \in Nat
    BY DEF TypeOK
  <2>4. \E row \in Early : thread' = [thread EXCEPT ![t] = row] /\ row.pc = "prepare"
    BY <1>1, <2>2, <2>3 DEF Kind
  <2> QED BY <2>1, <2>4 DEF TypeOK
<1> QED BY <1>3, <1>4, <1>5

LEMMA PrepareTypes ==
  ASSUME TypeOK, NEW t \in Thread, Prepare(t), ~CallFails(t)
  PROVE  /\ TypeOK' /\ UNCHANGED <<now, draining, account, decision, done, decisionLock>>
         /\ \/ thread' = [thread EXCEPT ![t] = Idle]
            \/ \E row \in Early : /\ thread' = [thread EXCEPT ![t] = row]
                                  /\ row.pc = "gate" /\ row.date \in Session
<1>1. thread[t] \in Early
  BY ThreadTypes DEF Prepare, At
<1> DEFINE row == [thread[t] EXCEPT !.pc = "gate"]
<1>2. row \in Early /\ row.pc = "gate" /\ row.date = thread[t].date
  BY <1>1 DEF Early
<1>3. UNCHANGED <<now, process, account, decision, done, decisionLock>>
  BY DEF Prepare, settings, locks
<1>4. \/ thread' = [thread EXCEPT ![t] = Idle]
      \/ thread' = [thread EXCEPT ![t] = row] /\ thread[t].date \in Session
  BY DEF Prepare, Goto
<1> HIDE DEF row
<1>5. thread' \in [Thread -> {Idle} \cup Early \cup Asking \cup Late]
  BY <1>2, <1>4 DEF TypeOK
<1> QED BY <1>2, <1>3, <1>4, <1>5 DEF TypeOK, process

\* The gate lets a thread through to the mark or to the strategy.
LEMMA GateTypes ==
  ASSUME TypeOK, NEW t \in Thread, Gate(t), ~Raise(t), thread[t].date \in Session
  PROVE  /\ TypeOK' /\ UNCHANGED <<now, draining, account, decision, done>>
         /\ ~draining /\ decisionLock = None
         /\ \/ \E row \in Early :
                 /\ thread' = [thread EXCEPT ![t] = row] /\ UNCHANGED decisionLock
                 /\ row.pc = "mark" /\ row.date = thread[t].date /\ row.account = Of(t)
                 /\ Facts(Of(t)).open # {} /\ Last(Of(t)).plan.date = thread[t].date
            \/ \E row \in Asking :
                 /\ thread' = [thread EXCEPT ![t] = row] /\ decisionLock' = t
                 /\ row.date = thread[t].date /\ row.account = Of(t) /\ row.kind = thread[t].kind
                 /\ row.seen = Facts(Of(t)) /\ row.plan = Advice(Of(t), thread[t].date)
                 /\ \/ row.seen.open = {}
                    \/ row.kind = "operator" /\ Replaceable(row.seen.open, Of(t))
<1>1. thread[t] \in Early /\ Of(t) \in Account /\ thread[t].date \in Nat
  BY ThreadTypes DEF Gate, At
<1> DEFINE a == Of(t) d == thread[t].date
           mark == [thread[t] EXCEPT !.pc = "mark"]
           ask == [pc |-> "advise", kind |-> thread[t].kind, account |-> a, date |-> d,
                   seen |-> Facts(a), plan |-> Advice(a, d)]
<1>2. /\ mark \in Early /\ mark.pc = "mark" /\ mark.date = thread[t].date
      /\ mark.account = Of(t)
  BY <1>1 DEF Early, Of
<1>3. Facts(a) \in Look /\ Advice(a, d) \in Plan
  BY <1>1, AdviceTypes
<1>4. ask \in Asking
  BY <1>1, <1>3 DEF Early, Asking
<1>5. /\ ask.date = d /\ ask.account = a /\ ask.kind = thread[t].kind
      /\ ask.seen = Facts(a) /\ ask.plan = Advice(a, d)
  OBVIOUS
<1>6. /\ UNCHANGED <<now, process, account, decision, done>>
      /\ ~draining /\ decisionLock = None
  BY DEF Gate, settings, locks
<1>7. \/ /\ thread' = [thread EXCEPT ![t] = mark] /\ UNCHANGED decisionLock
         /\ Facts(Of(t)).open # {} /\ Last(Of(t)).plan.date = thread[t].date
      \/ /\ thread' = [thread EXCEPT ![t] = ask] /\ decisionLock' = t
         /\ \/ Facts(a).open = {}
            \/ thread[t].kind = "operator" /\ Replaceable(Facts(a).open, Of(t))
  BY DEF Gate, Goto, locks
<1> HIDE DEF mark, ask
<1>8. thread' \in [Thread -> {Idle} \cup Early \cup Asking \cup Late]
  BY <1>2, <1>4, <1>7 DEF TypeOK
<1>9. TypeOK'
  BY <1>6, <1>8 DEF TypeOK, process
<1> QED BY <1>2, <1>4, <1>5, <1>6, <1>7, <1>9 DEF process

\* The answer of the strategy is taken: nothing has changed since the gate.
LEMMA AnswerTypes ==
  ASSUME TypeOK, NEW t \in Thread, Answer(t), ~CallFails(t), ~Raise(t)
  PROVE  /\ TypeOK' /\ UNCHANGED <<now, draining, account, decision, done, decisionLock>>
         /\ Facts(Of(t)) = thread[t].seen
         /\ \E row \in Late :
              /\ thread' = [thread EXCEPT ![t] = row]
              /\ row.date = thread[t].date /\ row.account = Of(t) /\ row.kind = thread[t].kind
              /\ row.seen = thread[t].seen /\ row.plan = thread[t].plan
              /\ \/ row.pc = "replace" /\ decision[Of(t)] # <<>>
                 \/ /\ row.pc = "save"
                    /\ \/ row.kind # "operator" \/ decision[Of(t)] = <<>>
                       \/ SamePlan(Of(t), row.plan) \/ row.seen.open = {}
<1>1. thread[t] \in Asking /\ Of(t) \in Account
  BY ThreadTypes DEF Answer, At
<1> DEFINE a == Of(t) th == thread[t]
           replaces == /\ th.kind = "operator" /\ decision[a] # <<>> /\ ~SamePlan(a, th.plan)
                       /\ th.date = Last(a).plan.date \/ th.seen.open # {}
           row == [pc |-> IF replaces THEN "replace" ELSE "save",
                   kind |-> th.kind, account |-> a, date |-> th.date,
                   seen |-> th.seen, plan |-> th.plan, skipped |-> account[a].paused]
<1>2. account[a].paused \in BOOLEAN
  BY <1>1 DEF TypeOK, AccountRow
<1>3. row \in Late
  BY <1>1, <1>2 DEF Asking, Late
<1>4. /\ row.date = thread[t].date /\ row.account = Of(t) /\ row.kind = thread[t].kind
      /\ row.seen = thread[t].seen /\ row.plan = thread[t].plan
      /\ row.pc = IF replaces THEN "replace" ELSE "save"
  OBVIOUS
<1>5. /\ UNCHANGED <<now, process, account, decision, done, decisionLock>>
      /\ Facts(Of(t)) = thread[t].seen /\ thread' = [thread EXCEPT ![t] = row]
  BY DEF Answer, settings, locks
<1> HIDE DEF row
<1>6. thread' \in [Thread -> {Idle} \cup Early \cup Asking \cup Late]
  BY <1>3, <1>5 DEF TypeOK
<1>7. TypeOK'
  BY <1>5, <1>6 DEF TypeOK, process
<1> QED BY <1>3, <1>4, <1>5, <1>7 DEF process

-----------------------------------------------------------------------------
(* What others may do to an account while a thread is at work on it.       *)

\* No decision is taken: orders are sent and end, and fill while they are sent.
Moves(a) ==
  /\ Len(decision'[a]) = Len(decision[a]) /\ DOMAIN decision'[a] = DOMAIN decision[a]
  /\ \A k \in DOMAIN decision[a] :
       LET old == decision[a][k] new == decision'[a][k] IN
       /\ new.plan = old.plan /\ new.skipped = old.skipped
       /\ \/ new.orders = old.orders
          \/ old.orders \in {"pending", "sent"} /\ new.orders \in {"sent", "ended"}
  /\ \/ account'[a].position = account[a].position
     \/ /\ decision'[a] = decision[a]
        /\ \E k \in DOMAIN decision[a] : decision[a][k].orders = "sent"

\* Decisions are taken, and stay.
Grows(a) ==
  \A k \in DOMAIN decision[a] :
    LET old == decision[a][k] new == decision'[a][k] IN
    /\ k \in DOMAIN decision'[a] /\ new.plan = old.plan /\ new.skipped = old.skipped
    /\ old.orders # "none" => new.orders # "none"

LEMMA MovesGrow ==
  ASSUME NEW a \in Account, Moves(a)
  PROVE  Grows(a)
BY DEF Moves, Grows

LEMMA IssuedStays ==
  ASSUME NEW a \in Account, NEW d, Issued(a, d), Grows(a)
  PROVE  Issued(a, d)'
BY DEF Issued, Grows

LEMMA Still ==
  ASSUME NEW a \in Account, decision'[a] = decision[a],
         account'[a].position = account[a].position
  PROVE  Moves(a)
BY DEF Moves

\* Only the last orders move, and what is pending is not filled.
LEMMA MovesKeep ==
  ASSUME TypeOK, TypeOK', LastOpen, PendingFitsPosition, \A a \in Account : Moves(a)
  PROVE  LastOpen' /\ PendingFitsPosition'
<1>1. ASSUME NEW a \in Account PROVE Underway(a)' \subseteq Underway(a)
  BY Rows, RowsAfter DEF Moves, Underway
<1>2. LastOpen'
  BY <1>1 DEF LastOpen, Moves
<1>3. ASSUME NEW a \in Account, NEW k \in DOMAIN decision'[a], decision'[a][k].orders = "pending"
      PROVE  decision'[a][k].plan.position = account'[a].position
  <2>1. /\ k \in DOMAIN decision[a] /\ decision[a][k].orders = "pending"
        /\ decision'[a][k].plan = decision[a][k].plan
    BY <1>3 DEF Moves
  <2>2. \A j \in DOMAIN decision[a] : decision[a][j].orders # "sent"
    <3>1. k \in Underway(a) /\ \A j \in DOMAIN decision[a] : decision[a][j].orders = "sent" => j \in Underway(a)
      BY <2>1 DEF Underway
    <3> QED BY <2>1, <3>1 DEF LastOpen
  <2>3. account'[a].position = account[a].position
    BY <2>2 DEF Moves
  <2> QED BY <2>1, <2>3 DEF PendingFitsPosition
<1> QED BY <1>2, <1>3 DEF PendingFitsPosition

\* Whoever takes a decision still knows what he knew ...
LEMMA KnowMoves ==
  ASSUME TypeOK, TypeOK', LastOpen, NEW t \in Thread, Know(t), thread'[t] = thread[t],
         thread[t].pc # "idle" => Moves(Of(t))
  PROVE  Know(t)'
<1> USE DEF At, Of
<1>1. CASE thread[t].pc = "idle"
  BY <1>1 DEF Know, Deciding
<1>2. CASE thread[t].pc # "idle"
  <2> DEFINE a == thread[t].account
             n == Len(decision[a])
  <2>1. a \in Account
    BY <1>2, ThreadTypes
  <2>2. Moves(a) /\ Grows(a)
    BY <1>2, <2>1, MovesGrow
  <2>3. /\ n \in Nat /\ DOMAIN decision[a] = 1..n /\ Len(decision'[a]) = n
        /\ DOMAIN decision'[a] = 1..n
        /\ decision[a] # <<>> <=> n # 0
        /\ decision'[a] # <<>> <=> n # 0
        /\ n # 0 => n \in DOMAIN decision[a]
    BY <2>1, <2>2, Rows, RowsAfter DEF Moves
  <2>4. n # 0 => /\ Last(a)'.plan = Last(a).plan /\ Last(a)'.skipped = Last(a).skipped
                 /\ \/ Last(a)'.orders = Last(a).orders
                    \/ Last(a).orders \in {"pending", "sent"} /\ Last(a)'.orders \in {"sent", "ended"}
    BY <2>2, <2>3 DEF Moves, Last
  <2>5. Underway(a)' \subseteq Underway(a)
    BY <2>1, <2>2, Rows, RowsAfter DEF Moves, Underway
  <2>6. \/ account'[a].position = account[a].position
        \/ decision'[a] = decision[a] /\ n # 0 /\ n \in Underway(a) /\ Last(a).orders = "sent"
    <3>1. CASE account'[a].position = account[a].position
      BY <3>1
    <3>2. ASSUME NEW k \in DOMAIN decision[a], decision[a][k].orders = "sent", decision'[a] = decision[a]
          PROVE  n # 0 /\ n \in Underway(a) /\ Last(a).orders = "sent"
      <4>1. k \in Underway(a)
        BY <3>2 DEF Underway
      <4>2. k = n
        BY <2>1, <4>1 DEF LastOpen
      <4> QED BY <2>3, <3>2, <4>1, <4>2 DEF Last
    <3> QED BY <2>2, <3>1, <3>2 DEF Moves
  <2> DEFINE p == thread[t].plan
             d == thread[t].date
  <2>7. Settled(a, p) => Settled(a, p)'
    BY <2>5, <2>6 DEF Settled
  <2>8. SamePlan(a, p) => SamePlan(a, p)'
    BY <2>3, <2>4 DEF SamePlan
  <2>9. n # 0 /\ Last(a).orders # "none" => Last(a)'.orders # "none"
    BY <2>4
  <2> HIDE DEF n
  <2>10. SamePlan(a, p) => n # 0
    BY <2>3 DEF SamePlan
  <2>11. At(t, "advise") => Asked(t)'
    BY <2>3 DEF Know, Asked, Replaceable, n
  <2>12. At(t, "save") => Saving(t)'
    BY <2>7, <2>8, <2>9, <2>10 DEF Know, Saving
  <2>13. At(t, "create") => Creating(t)'
    BY <2>4, <2>7, <2>8, <2>9, <2>10 DEF Know, Creating
  <2>14. At(t, "replace") => Replacing(t)'
    <3>1. SUFFICES ASSUME At(t, "replace"), Replacing(t) PROVE Replacing(t)'
      BY DEF Know
    <3>2. n # 0
      BY <2>3, <3>1 DEF Replacing
    <3>3. Replaceable(thread[t].seen.open, a) => Replaceable(thread[t].seen.open, a)'
      BY <2>3 DEF Replaceable, n
    <3>4. Last(a).orders \in {"sent", "ended"} => Last(a)'.orders \in {"sent", "ended"}
      BY <2>4, <3>2
    <3>5. Last(a).orders = "pending" /\ account[a].position = p.position =>
            \/ Last(a)'.orders = "pending" /\ account'[a].position = p.position
            \/ Last(a)'.orders \in {"sent", "ended"}
      BY <2>4, <2>6, <3>2
    <3> QED BY <2>3, <2>7, <3>1, <3>2, <3>3, <3>4, <3>5 DEF Replacing
  <2>15. At(t, "mark") => Issued(a, d)'
    BY <2>1, <2>2, IssuedStays DEF Know
  <2> QED BY <2>11, <2>12, <2>13, <2>14, <2>15 DEF Know
<1> QED BY <1>1, <1>2

\* ... and who does not need not know that others do.
LEMMA KnowGrows ==
  ASSUME TypeOK, NEW t \in Thread, Know(t), thread'[t] = thread[t], thread[t].pc \notin Deciding,
         thread[t].pc # "idle" => Grows(Of(t))
  PROVE  Know(t)'
<1>1. thread[t].pc # "idle" => Of(t) \in Account
  BY ThreadTypes
<1> QED BY <1>1, IssuedStays DEF Know, At, Of, Deciding

-----------------------------------------------------------------------------
(* The invariant, one lemma per kind of step.                              *)

LEMMA DoneStays ==
  ASSUME TypeOK, DoneMeansIssued, UNCHANGED done, \A a \in Account : Grows(a)
  PROVE  DoneMeansIssued'
<1>1. \A a \in Account : done[a] # None => Issued(a, done[a])
  BY DEF DoneMeansIssued, Issued
<1>2. \A a \in Account : done[a] # None => Issued(a, done[a])'
  BY <1>1, IssuedStays
<1> QED BY <1>2 DEF DoneMeansIssued, Issued

\* Steps outside: orders go on, operators and the clock do what they do.
LEMMA OutsideStep ==
  ASSUME Inv, TypeOK', UNCHANGED <<thread, decisionLock, draining, done>>,
         \A a \in Account : Moves(a)
  PROVE  Inv'
<1>1. LastOpen' /\ PendingFitsPosition'
  BY MovesKeep DEF Inv
<1>2. DoneMeansIssued'
  BY MovesGrow, DoneStays DEF Inv
<1>3. ThreadsKnow'
  <2> SUFFICES ASSUME NEW t \in Thread PROVE Know(t)'
    BY DEF ThreadsKnow
  <2>1. thread[t].pc # "idle" => Of(t) \in Account
    BY ThreadTypes DEF Inv
  <2> QED BY <2>1, KnowMoves DEF Inv, ThreadsKnow
<1>4. DecidersLock' /\ DrainedLock'
  BY DEF Inv, DecidersLock, DrainedLock
<1> QED BY <1>1, <1>2, <1>3, <1>4 DEF Inv

\* A thread moves and no decision is taken.
LEMMA ThreadStep ==
  ASSUME Inv, TypeOK', NEW t \in Thread, UNCHANGED <<decision, done>>,
         \A a \in Account : account'[a].position = account[a].position,
         \A u \in Thread \ {t} : thread'[u] = thread[u],
         Know(t)', DecidersLock', DrainedLock'
  PROVE  Inv'
<1>1. \A a \in Account : Moves(a)
  BY Still
<1>2. LastOpen' /\ PendingFitsPosition'
  BY <1>1, MovesKeep DEF Inv
<1>3. DoneMeansIssued'
  BY <1>1, MovesGrow, DoneStays DEF Inv
<1>4. ThreadsKnow'
  <2> SUFFICES ASSUME NEW u \in Thread \ {t} PROVE Know(u)'
    BY DEF ThreadsKnow
  <2>1. thread[u].pc # "idle" => Of(u) \in Account
    BY ThreadTypes DEF Inv
  <2> QED BY <1>1, <2>1, KnowMoves DEF Inv, ThreadsKnow
<1> QED BY <1>2, <1>3, <1>4 DEF Inv

\* A thread has moved to the row r and taken or given back no lock.
LEMMA SameLock ==
  ASSUME Inv, NEW t \in Thread, NEW r, thread' = [thread EXCEPT ![t] = r],
         r.pc \in Deciding => thread[t].pc \in Deciding,
         UNCHANGED <<draining, decisionLock>>
  PROVE  /\ thread'[t] = r /\ \A u \in Thread \ {t} : thread'[u] = thread[u]
         /\ DecidersLock' /\ DrainedLock'
<1>1. thread'[t] = r /\ \A u \in Thread \ {t} : thread'[u] = thread[u]
  BY DEF Inv, TypeOK
<1> QED BY <1>1 DEF Inv, DecidersLock, DrainedLock

LEMMA IdleKnows ==
  ASSUME NEW t \in Thread, thread'[t].pc \in {"idle", "prepare"}
  PROVE  Know(t)'
BY DEF Know, At, Deciding

\* Whoever leaves gives back the lock if it was his.
LEMMA LeaveLock ==
  ASSUME Inv, NEW t \in Thread, thread' = [thread EXCEPT ![t] = Idle], Unlock(t), UNCHANGED draining
  PROVE  /\ thread'[t] = Idle /\ \A u \in Thread \ {t} : thread'[u] = thread[u]
         /\ DecidersLock' /\ DrainedLock'
<1>1. thread'[t] = Idle /\ \A u \in Thread \ {t} : thread'[u] = thread[u]
  BY DEF Inv, TypeOK
<1>2. ASSUME NEW u \in Thread, thread'[u].pc \in Deciding PROVE decisionLock' = u
  <2>1. u # t
    BY <1>1, <1>2 DEF Idle, Deciding
  <2>2. decisionLock = u
    BY <1>1, <1>2, <2>1 DEF Inv, DecidersLock
  <2> QED BY <2>1, <2>2 DEF Unlock
<1>3. DrainedLock'
  BY <1>1 DEF Inv, DrainedLock, Idle, Deciding
<1> QED BY <1>1, <1>2, <1>3 DEF DecidersLock

LEMMA FailStep ==
  ASSUME Inv, NEW t \in Thread, thread[t].pc # "idle", Fail(t)
  PROVE  Inv'
<1>1. /\ TypeOK' /\ thread' = [thread EXCEPT ![t] = Idle] /\ UNCHANGED <<draining, decision, done>>
      /\ \A a \in Account : account'[a].position = account[a].position
  BY FailTypes DEF Inv, process
<1>2. Unlock(t)
  BY DEF Fail
<1>3. /\ thread'[t] = Idle /\ \A u \in Thread \ {t} : thread'[u] = thread[u]
      /\ DecidersLock' /\ DrainedLock'
  BY <1>1, <1>2, LeaveLock
<1>4. Know(t)'
  BY <1>3, IdleKnows DEF Idle
<1> QED BY <1>1, <1>3, <1>4, ThreadStep

LEMMA StartStep ==
  ASSUME Inv, NEW t \in Thread,
         \/ \E a \in Account : StartWorker(a, t) \/ Drive(a, t)
         \/ StartBatch(t)
  PROVE  Inv'
<1>1. TypeOK' /\ UNCHANGED <<draining, account, decision, done, decisionLock>>
  BY StartTypes DEF Inv
<1>2. PICK row \in Early : thread' = [thread EXCEPT ![t] = row] /\ row.pc = "prepare"
  BY StartTypes DEF Inv
<1>3. thread'[t] = row /\ DecidersLock' /\ DrainedLock'
      /\ \A u \in Thread \ {t} : thread'[u] = thread[u]
  BY <1>1, <1>2, SameLock DEF Deciding
<1>4. Know(t)'
  BY <1>2, <1>3, IdleKnows
<1> QED BY <1>1, <1>3, <1>4, ThreadStep

LEMMA PrepareStep ==
  ASSUME Inv, NEW t \in Thread, Prepare(t)
  PROVE  Inv'
<1>1. CASE CallFails(t)
  BY <1>1, FailStep DEF Prepare, At, CallFails
<1>2. CASE ~CallFails(t)
  <2>1. TypeOK' /\ UNCHANGED <<draining, account, decision, done, decisionLock>>
    BY <1>2, PrepareTypes DEF Inv
  <2>2. CASE thread' = [thread EXCEPT ![t] = Idle]
    <3>1. thread'[t] = Idle /\ DecidersLock' /\ DrainedLock'
          /\ \A u \in Thread \ {t} : thread'[u] = thread[u]
      BY <2>1, <2>2, SameLock DEF Deciding, Idle
    <3>2. Know(t)'
      BY <3>1, IdleKnows DEF Idle
    <3> QED BY <2>1, <3>1, <3>2, ThreadStep
  <2>3. ASSUME NEW row \in Early, thread' = [thread EXCEPT ![t] = row],
               row.pc = "gate", row.date \in Session
        PROVE  Inv'
    <3>1. thread'[t] = row /\ DecidersLock' /\ DrainedLock'
          /\ \A u \in Thread \ {t} : thread'[u] = thread[u]
      BY <2>1, <2>3, SameLock DEF Deciding
    <3>2. Know(t)'
      BY <2>3, <3>1 DEF Know, At
    <3> QED BY <2>1, <3>1, <3>2, ThreadStep
  <2> QED BY <1>2, <2>2, <2>3, PrepareTypes DEF Inv
<1> QED BY <1>1, <1>2

LEMMA GateStep ==
  ASSUME Inv, NEW t \in Thread, Gate(t)
  PROVE  Inv'
<1>1. CASE Raise(t)
  BY <1>1, FailStep DEF Gate, At, Raise
<1>2. CASE ~Raise(t)
  <2> DEFINE a == Of(t)
  <2>1. thread[t].date \in Session /\ a \in Account
    BY ThreadTypes DEF Inv, ThreadsKnow, Know, Gate, At
  <2>2. TypeOK' /\ UNCHANGED <<draining, account, decision, done>> /\ ~draining /\ decisionLock = None
    BY <1>2, <2>1, GateTypes DEF Inv
  <2>3. ASSUME NEW row \in Early, thread' = [thread EXCEPT ![t] = row], UNCHANGED decisionLock,
               row.pc = "mark", row.date = thread[t].date, row.account = a,
               Facts(a).open # {}, Last(a).plan.date = thread[t].date
        PROVE  Inv'
    <3>1. thread'[t] = row /\ DecidersLock' /\ DrainedLock'
          /\ \A u \in Thread \ {t} : thread'[u] = thread[u]
      BY <2>2, <2>3, SameLock DEF Deciding
    <3>2. PICK k \in Underway(a) : TRUE
      BY <2>3 DEF Facts
    <3>3. k = Len(decision[a])
      BY <2>1, <3>2 DEF Inv, LastOpen
    <3>4. k \in DOMAIN decision[a] /\ Last(a).orders # "none"
      BY <3>2, <3>3 DEF Underway, Last
    <3>5. Issued(a, thread[t].date)
      BY <2>3, <3>3, <3>4 DEF Issued, Last
    <3>6. Issued(a, row.date)'
      BY <2>2, <2>3, <3>1, <3>5 DEF Issued, Of
    <3>7. Know(t)'
      BY <2>1, <2>3, <3>1, <3>6 DEF Know, At, Of
    <3> QED BY <2>2, <3>1, <3>7, ThreadStep
  <2>4. ASSUME NEW row \in Asking, thread' = [thread EXCEPT ![t] = row], decisionLock' = t,
               row.date = thread[t].date, row.account = a, row.kind = thread[t].kind,
               row.seen = Facts(a), row.plan = Advice(a, thread[t].date),
               row.seen.open = {} \/ (row.kind = "operator" /\ Replaceable(row.seen.open, a))
        PROVE  Inv'
    <3>1. thread'[t] = row /\ \A u \in Thread \ {t} : thread'[u] = thread[u]
      BY <2>4 DEF Inv, TypeOK
    <3>2. \A u \in Thread : thread[u].pc \notin Deciding
      BY <2>2, NoneAssumption DEF Inv, DecidersLock
    <3>3. DecidersLock' /\ DrainedLock'
      BY <2>2, <2>4, <3>1, <3>2 DEF DecidersLock, DrainedLock
    <3>4. /\ row.plan.date = row.date /\ row.plan.position = row.seen.position
          /\ row.pc = "advise"
      BY <2>1, <2>4, AdviceTypes DEF Inv, Asking
    <3>5. Replaceable(row.seen.open, a) => Replaceable(row.seen.open, a)'
      BY <2>2, <2>4, <3>1 DEF Replaceable, Of
    <3>6. Asked(t)'
      BY <2>4, <3>1, <3>4, <3>5 DEF Asked, Of
    <3>7. Know(t)'
      BY <2>1, <2>4, <3>1, <3>4, <3>6 DEF Know, At
    <3> QED BY <2>2, <3>1, <3>3, <3>7, ThreadStep
  <2> QED BY <1>2, <2>1, <2>3, <2>4, GateTypes DEF Inv
<1> QED BY <1>1, <1>2

LEMMA AnswerStep ==
  ASSUME Inv, NEW t \in Thread, Answer(t)
  PROVE  Inv'
<1>1. CASE CallFails(t) \/ Raise(t)
  BY <1>1, FailStep DEF Answer, At, Raise, CallFails
<1>2. CASE ~CallFails(t) /\ ~Raise(t)
  <2> DEFINE a == Of(t) seen == thread[t].seen p == thread[t].plan
  <2>1. /\ thread[t].date \in Session /\ a \in Account
        /\ p.date = thread[t].date /\ p.position = seen.position
        /\ seen.open = {} \/ (thread[t].kind = "operator" /\ Replaceable(seen.open, a))
    BY ThreadTypes DEF Inv, ThreadsKnow, Know, Asked, Answer, At
  <2>2. /\ TypeOK' /\ UNCHANGED <<draining, account, decision, done, decisionLock>>
        /\ Facts(a) = seen
    BY <1>2, AnswerTypes DEF Inv
  <2>3. PICK row \in Late :
          /\ thread' = [thread EXCEPT ![t] = row]
          /\ row.date = thread[t].date /\ row.account = a /\ row.kind = thread[t].kind
          /\ row.seen = seen /\ row.plan = p
          /\ \/ row.pc = "replace" /\ decision[a] # <<>>
             \/ /\ row.pc = "save"
                /\ \/ row.kind # "operator" \/ decision[a] = <<>>
                   \/ SamePlan(a, row.plan) \/ row.seen.open = {}
    BY <1>2, AnswerTypes DEF Inv
  <2>4. thread'[t] = row /\ DecidersLock' /\ DrainedLock'
        /\ \A u \in Thread \ {t} : thread'[u] = thread[u]
    BY <2>2, <2>3, SameLock DEF Deciding, Answer, At
  <2>5. /\ seen.open = {<<k, decision[a][k].orders>> : k \in Underway(a)}
        /\ account[a].position = seen.position
    BY <2>1, <2>2, AdviceTypes, SessionAssumption DEF Inv
  <2>6. seen.open = {} => Settled(a, p)
    BY <2>1, <2>5 DEF Settled
  <2>7. seen.open # {} => /\ decision[a] # <<>> /\ Last(a).orders = "pending"
                          /\ Replaceable(seen.open, a)
    <3>1. SUFFICES ASSUME seen.open # {}
                   PROVE  decision[a] # <<>> /\ Last(a).orders = "pending"
      BY <2>1
    <3>2. seen.open = {<<Len(decision[a]), "pending">>}
      BY <2>1, <3>1 DEF Replaceable
    <3>3. PICK k \in Underway(a) : <<k, decision[a][k].orders>> = <<Len(decision[a]), "pending">>
      BY <2>5, <3>2
    <3> QED BY <2>1, <3>3, Rows DEF Inv, Last
  <2>8. CASE row.pc = "replace" /\ decision[a] # <<>>
    <3>1. /\ Settled(a, p) => Settled(a, p)'
          /\ Replaceable(seen.open, a) => Replaceable(seen.open, a)'
          /\ Last(a).orders = "pending" => Last(a)'.orders = "pending"
      BY <2>2, <2>3, <2>4 DEF Settled, Underway, Replaceable, Last, Of
    <3>2. Replacing(t)'
      BY <2>1, <2>2, <2>3, <2>4, <2>5, <2>6, <2>7, <2>8, <3>1 DEF Replacing, Of
    <3> QED BY <2>1, <2>2, <2>3, <2>4, <2>8, <3>2, ThreadStep DEF Know, At
  <2>9. CASE /\ row.pc = "save"
             /\ \/ row.kind # "operator" \/ decision[a] = <<>>
                \/ SamePlan(a, row.plan) \/ row.seen.open = {}
    <3>1. Settled(a, p) \/ (SamePlan(a, p) /\ Last(a).orders # "none")
      BY <2>1, <2>3, <2>6, <2>7, <2>9
    <3>2. /\ Settled(a, p) => Settled(a, p)'
          /\ SamePlan(a, p) /\ Last(a).orders # "none" => SamePlan(a, p)' /\ Last(a)'.orders # "none"
      BY <2>2, <2>3, <2>4 DEF Settled, Underway, SamePlan, Last, Of
    <3>3. Saving(t)'
      BY <2>1, <2>3, <2>4, <3>1, <3>2 DEF Saving, Of
    <3> QED BY <2>1, <2>2, <2>3, <2>4, <2>9, <3>3, ThreadStep DEF Know, At
  <2> QED BY <2>3, <2>8, <2>9
<1> QED BY <1>1, <1>2

LEMMA MarkStep ==
  ASSUME Inv, NEW t \in Thread, Mark(t)
  PROVE  Inv'
<1> DEFINE a == Of(t) d == thread[t].date
<1>1. a \in Account /\ Issued(a, d) /\ thread[t].pc # "idle"
  BY ThreadTypes DEF Inv, ThreadsKnow, Know, Mark, At
<1>2. /\ UNCHANGED <<now, draining, todo, account, decision>> /\ Unlock(t)
      /\ thread' = [thread EXCEPT ![t] = Idle] /\ done' = [done EXCEPT ![a] = d]
  BY DEF Mark, process
<1>3. TypeOK'
  BY <1>1, <1>2, ThreadTypes DEF Inv, TypeOK
<1>4. /\ thread'[t] = Idle /\ DecidersLock' /\ DrainedLock'
      /\ \A u \in Thread \ {t} : thread'[u] = thread[u]
  BY <1>2, LeaveLock
<1>5. \A b \in Account : Moves(b)
  BY <1>2, Still
<1>6. LastOpen' /\ PendingFitsPosition'
  BY <1>3, <1>5, MovesKeep DEF Inv
<1>7. ThreadsKnow'
  <2> SUFFICES ASSUME NEW u \in Thread PROVE Know(u)'
    BY DEF ThreadsKnow
  <2>1. CASE u = t
    BY <1>4, <2>1, IdleKnows DEF Idle
  <2>2. CASE u # t
    <3>1. thread[u].pc # "idle" => Of(u) \in Account
      BY ThreadTypes DEF Inv
    <3> QED BY <1>3, <1>4, <1>5, <2>2, <3>1, KnowMoves DEF Inv, ThreadsKnow
  <2> QED BY <2>1, <2>2
<1>8. DoneMeansIssued'
  <2> SUFFICES ASSUME NEW b \in Account, done'[b] # None PROVE Issued(b, done'[b])
    BY <1>2 DEF DoneMeansIssued, Issued
  <2>1. done'[b] = IF b = a THEN d ELSE done[b]
    BY <1>1, <1>2 DEF Inv, TypeOK
  <2> QED BY <1>1, <2>1 DEF Inv, DoneMeansIssued, Issued
<1> QED BY <1>3, <1>4, <1>6, <1>7, <1>8 DEF Inv

-----------------------------------------------------------------------------
(* The three transactions that take a decision.                            *)

\* A thread in its decision is alone in it: nobody else knows of what changes.
LEMMA DecidingStep ==
  ASSUME Inv, TypeOK', NEW t \in Thread, thread[t].pc \in Deciding, NEW a \in Account,
         NEW row, thread' = [thread EXCEPT ![t] = row],
         UNCHANGED <<account, done, draining>>,
         \A b \in Account \ {a} : decision'[b] = decision[b],
         Grows(a),
         Underway(a)' \subseteq {Len(decision'[a])},
         \A k \in DOMAIN decision'[a] : decision'[a][k].orders = "pending" =>
           decision'[a][k].plan.position = account[a].position,
         decisionLock' = decisionLock \/ row.pc \notin Deciding,
         Know(t)'
  PROVE  Inv'
<1>1. thread'[t] = row /\ \A u \in Thread \ {t} : thread'[u] = thread[u]
  BY DEF Inv, TypeOK
<1>2. \A u \in Thread \ {t} : thread[u].pc \notin Deciding
  BY DEF Inv, DecidersLock
<1>3. DecidersLock' /\ DrainedLock'
  BY <1>1, <1>2 DEF Inv, DecidersLock, DrainedLock
<1>4. \A b \in Account : Grows(b)
  BY DEF Grows
<1>5. DoneMeansIssued'
  BY <1>4, DoneStays DEF Inv
<1>6. LastOpen'
  <2> SUFFICES ASSUME NEW b \in Account PROVE Underway(b)' \subseteq {Len(decision'[b])}
    BY DEF LastOpen
  <2>1. b # a => Underway(b)' = Underway(b)
    BY DEF Underway
  <2> QED BY <2>1 DEF Inv, LastOpen
<1>7. PendingFitsPosition'
  BY DEF Inv, PendingFitsPosition
<1>8. ThreadsKnow'
  <2> SUFFICES ASSUME NEW u \in Thread \ {t} PROVE Know(u)'
    BY DEF ThreadsKnow
  <2>1. thread[u].pc # "idle" => Of(u) \in Account
    BY ThreadTypes DEF Inv
  <2> QED BY <1>1, <1>2, <1>4, <2>1, KnowGrows DEF Inv, ThreadsKnow
<1> QED BY <1>3, <1>5, <1>6, <1>7, <1>8 DEF Inv

\* The row of a thread that goes on in its decision.
LEMMA GotoTypes ==
  ASSUME TypeOK, NEW t \in Thread, NEW th \in Late, th = thread[t],
         NEW pc \in {"create", "mark"}, Goto(t, pc)
  PROVE  \E row \in Late :
           /\ thread' = [thread EXCEPT ![t] = row] /\ thread'[t] = row
           /\ row.pc = pc /\ row.account = th.account /\ row.date = th.date
           /\ row.seen = th.seen /\ row.plan = th.plan /\ row.skipped = th.skipped
           /\ thread' \in [Thread -> {Idle} \cup Early \cup Asking \cup Late]
<1> DEFINE row == [th EXCEPT !.pc = pc]
<1>1. /\ row \in Late /\ row.pc = pc /\ row.account = th.account /\ row.date = th.date
      /\ row.seen = th.seen /\ row.plan = th.plan /\ row.skipped = th.skipped
  BY DEF Late
<1>2. thread' = [thread EXCEPT ![t] = row]
  BY DEF Goto
<1> HIDE DEF row
<1>3. thread'[t] = row /\ thread' \in [Thread -> {Idle} \cup Early \cup Asking \cup Late]
  BY <1>1, <1>2 DEF TypeOK
<1> QED BY <1>1, <1>2, <1>3

\* A plan without orders is one of size 0.
LEMMA WantsSize ==
  ASSUME NEW th \in Late
  PROVE  Wants(th) \/ th.skipped \/ th.plan.size = 0
<1>1. th.plan.size \in Range(Sizing) /\ th.skipped \in BOOLEAN
  BY DEF Late, Plan
<1>2. th.plan.size \in Nat
  BY <1>1, SizingAssumption DEF Range
<1> QED BY <1>1, <1>2 DEF Wants

LEMMA SaveStep ==
  ASSUME Inv, NEW t \in Thread, Save(t)
  PROVE  Inv'
<1>1. CASE Raise(t)
  BY <1>1, FailStep DEF Save, At, Raise
<1>2. CASE ~Raise(t)
  <2>1. PICK th \in Late : th = thread[t]
    BY ThreadTypes DEF Inv, Save, At
  <2>2. PICK a \in Account : a = Of(t)
    BY ThreadTypes DEF Inv, Save, At
  <2> DEFINE p == th.plan r == Row(p, th.skipped, "none")
  <2>3. /\ At(t, "save") /\ SaveOK(a, p, th.skipped) /\ Goto(t, "create")
        /\ decision' = IF SamePlan(a, p) THEN decision
                       ELSE [decision EXCEPT ![a] = Append(decision[a], r)]
        /\ UNCHANGED <<now, draining, todo, account, done, decisionLock>>
    BY <1>2, <2>1, <2>2 DEF Save, process, settings, locks
  <2>4. PICK row \in Late :
          /\ thread' = [thread EXCEPT ![t] = row] /\ thread'[t] = row
          /\ row.pc = "create" /\ row.account = th.account /\ row.date = th.date
          /\ row.seen = th.seen /\ row.plan = p /\ row.skipped = th.skipped
          /\ thread' \in [Thread -> {Idle} \cup Early \cup Asking \cup Late]
    BY <2>1, <2>3, GotoTypes DEF Inv
  <2>5. /\ th.account = a /\ th.date \in Session /\ p.date = th.date
        /\ Settled(a, p) \/ (SamePlan(a, p) /\ Last(a).orders # "none")
    BY <2>1, <2>2, <2>3 DEF Inv, ThreadsKnow, Know, Saving, Of, Deciding, At
  <2>6. thread[t].pc \in Deciding
    BY <2>3 DEF At, Deciding
  <2>7. CASE SamePlan(a, p)
    <3>1. decision' = decision /\ Last(a).skipped = th.skipped
      BY <2>3, <2>7 DEF SaveOK
    <3>2. TypeOK'
      BY <2>3, <2>4, <3>1 DEF Inv, TypeOK
    <3>3. Creating(t)'
      BY <2>3, <2>4, <2>5, <2>7, <3>1 DEF Creating, Of, SamePlan, Last, Settled, Underway
    <3>4. Know(t)'
      BY <2>4, <2>5, <3>3 DEF Know, At
    <3>5. Grows(a) /\ Underway(a)' \subseteq {Len(decision'[a])}
      BY <3>1 DEF Grows, Underway, Inv, LastOpen
    <3> QED BY <2>3, <2>4, <2>6, <3>1, <3>2, <3>4, <3>5, DecidingStep DEF Inv, PendingFitsPosition
  <2>8. CASE ~SamePlan(a, p)
    <3> DEFINE s == decision[a] n == Len(s)
    <3>0. Settled(a, p)
      BY <2>5, <2>8
    <3>1. s \in Seq(DecisionRow) /\ DOMAIN s = 1..n /\ n \in Nat
      BY Rows DEF Inv
    <3>2. /\ r \in DecisionRow /\ r.plan = p /\ r.skipped = th.skipped /\ r.orders = "none"
      BY DEF Row, DecisionRow, Late, OrdersState
    <3>3. Rewrite(a, Append(s, r))
      BY <2>3, <2>8 DEF Rewrite
    <3> HIDE DEF r
    <3>4. /\ decision' \in [Account -> Seq(DecisionRow)]
          /\ \A b \in Account \ {a} : decision'[b] = decision[b]
          /\ decision'[a] # <<>>
          /\ Len(decision'[a]) = n + 1 /\ DOMAIN decision'[a] = DOMAIN s \cup {n + 1}
          /\ n + 1 \notin DOMAIN s
          /\ \A j \in DOMAIN s : decision'[a][j] = s[j]
          /\ decision'[a][n + 1] = r
      BY <3>1, <3>2, <3>3, AppendRow DEF Inv
    <3>5. TypeOK'
      BY <2>3, <2>4, <3>4 DEF Inv, TypeOK
    <3>6. Underway(a) = {} /\ account[a].position = p.position
      BY <3>0 DEF Settled
    <3>7. \A j \in DOMAIN decision'[a] : decision'[a][j].orders \notin {"pending", "sent"}
      BY <3>2, <3>4, <3>6 DEF Underway
    <3>8. Underway(a)' = {}
      BY <3>7 DEF Underway
    <3>9. Grows(a)
      BY <3>4 DEF Grows
    <3>10. Settled(a, p)' /\ SamePlan(a, p)' /\ Last(a)'.skipped = th.skipped
      BY <2>3, <3>2, <3>4, <3>6, <3>8 DEF Settled, SamePlan, Last
    <3>11. Creating(t)'
      BY <2>4, <2>5, <3>10 DEF Creating, Of
    <3>12. Know(t)'
      BY <2>4, <2>5, <3>11 DEF Know, At
    <3> QED BY <2>3, <2>4, <2>6, <3>4, <3>5, <3>7, <3>8, <3>9, <3>12, DecidingStep
  <2> QED BY <2>7, <2>8
<1> QED BY <1>1, <1>2

LEMMA CreateStep ==
  ASSUME Inv, NEW t \in Thread, Create(t)
  PROVE  Inv'
<1>1. CASE Raise(t)
  BY <1>1, FailStep DEF Create, At, Raise
<1>2. CASE ~Raise(t)
  <2>1. PICK th \in Late : th = thread[t]
    BY ThreadTypes DEF Inv, Create, At
  <2>2. PICK a \in Account : a = Of(t)
    BY ThreadTypes DEF Inv, Create, At
  <2>a. PICK n : n = Len(decision[a])
    OBVIOUS
  <2> DEFINE p == th.plan s == decision[a]
             missing == Wants(th) /\ Last(a).orders = "none"
  <2>3. /\ At(t, "create") /\ Goto(t, "mark") /\ decisionLock' = None
        /\ decision' = IF missing THEN [decision EXCEPT ![a][n].orders = "pending"] ELSE decision
        /\ UNCHANGED <<now, draining, todo, account, done>>
    BY <1>2, <2>1, <2>2, <2>a DEF Create, process, settings
  <2>4. PICK row \in Late :
          /\ thread' = [thread EXCEPT ![t] = row] /\ thread'[t] = row
          /\ row.pc = "mark" /\ row.account = th.account /\ row.date = th.date
          /\ row.seen = th.seen /\ row.plan = p /\ row.skipped = th.skipped
          /\ thread' \in [Thread -> {Idle} \cup Early \cup Asking \cup Late]
    BY <2>1, <2>3, GotoTypes DEF Inv
  <2>5. /\ th.account = a /\ th.date \in Session /\ p.date = th.date
        /\ SamePlan(a, p) /\ Last(a).skipped = th.skipped
        /\ Settled(a, p) \/ Last(a).orders # "none"
    BY <2>1, <2>2, <2>3 DEF Inv, ThreadsKnow, Know, Creating, Of, Deciding, At
  <2>6. thread[t].pc \in Deciding /\ row.pc \notin Deciding
    BY <2>3, <2>4 DEF At, Deciding
  <2>7. /\ s \in Seq(DecisionRow) /\ DOMAIN s = 1..n /\ n \in Nat /\ n \in DOMAIN s
        /\ s[n].plan = p /\ s[n].skipped = th.skipped
    BY <2>5, <2>a, Rows DEF Inv, SamePlan, Last
  <2>8. CASE ~missing
    <3>1. decision' = decision
      BY <2>3, <2>8
    <3>2. TypeOK'
      BY <2>3, <2>4, <3>1 DEF Inv, TypeOK
    <3>3. s[n].orders # "none" \/ s[n].skipped \/ s[n].plan.size = 0
      BY <2>7, <2>8, <2>a, WantsSize DEF Last
    <3>4. Issued(a, th.date)'
      BY <2>5, <2>7, <3>1, <3>3 DEF Issued
    <3>5. Know(t)'
      BY <2>4, <2>5, <3>4 DEF Know, At, Of
    <3>6. Grows(a) /\ Underway(a)' \subseteq {Len(decision'[a])}
      BY <3>1 DEF Grows, Underway, Inv, LastOpen
    <3> QED BY <2>3, <2>4, <2>6, <3>1, <3>2, <3>5, <3>6, DecidingStep DEF Inv, PendingFitsPosition
  <2>9. CASE missing
    <3>1. Underway(a) = {} /\ account[a].position = p.position
      BY <2>5, <2>9 DEF Settled
    <3>2. Rewrite(a, WithOrders(decision[a], n, "pending"))
      BY <2>3, <2>9, Zenon DEF Rewrite, WithOrders
    <3>3. /\ decision' \in [Account -> Seq(DecisionRow)]
          /\ \A b \in Account \ {a} : decision'[b] = decision[b]
          /\ Len(decision'[a]) = Len(s) /\ DOMAIN decision'[a] = DOMAIN s
          /\ \A j \in DOMAIN s :
               /\ decision'[a][j].plan = s[j].plan
               /\ decision'[a][j].skipped = s[j].skipped
               /\ decision'[a][j].orders = IF j = n THEN "pending" ELSE s[j].orders
      <4>1. TypeOK /\ n \in DOMAIN decision[a] /\ "pending" \in OrdersState
        BY <2>7 DEF Inv, OrdersState
      <4> QED BY <3>2, <4>1, OrdersMove
    <3>4. TypeOK'
      BY <2>3, <2>4, <3>3 DEF Inv, TypeOK
    <3>5. \A j \in DOMAIN s : s[j].orders \notin {"pending", "sent"}
      BY <3>1 DEF Underway
    <3>6. Underway(a)' \subseteq {Len(decision'[a])}
      BY <2>a, <3>3, <3>5 DEF Underway
    <3>7. \A k \in DOMAIN decision'[a] : decision'[a][k].orders = "pending" =>
            decision'[a][k].plan.position = account[a].position
      BY <2>7, <3>1, <3>3, <3>5
    <3>8. Grows(a)
      BY <3>3 DEF Grows
    <3>9. Issued(a, th.date)'
      BY <2>5, <2>7, <3>3 DEF Issued
    <3>10. Know(t)'
      BY <2>4, <2>5, <3>9 DEF Know, At, Of
    <3> QED BY <2>3, <2>4, <2>6, <3>3, <3>4, <3>6, <3>7, <3>8, <3>10, DecidingStep
  <2> QED BY <2>8, <2>9
<1> QED BY <1>1, <1>2

LEMMA ReplaceStep ==
  ASSUME Inv, NEW t \in Thread, Replace(t)
  PROVE  Inv'
<1>1. CASE Raise(t)
  BY <1>1, FailStep DEF Replace, At, Raise
<1>2. CASE ~Raise(t)
  <2>1. PICK th \in Late : th = thread[t]
    BY ThreadTypes DEF Inv, Replace, At
  <2>2. PICK a \in Account : a = Of(t)
    BY ThreadTypes DEF Inv, Replace, At
  <2>a. PICK n : n = Len(decision[a])
    OBVIOUS
  <2>b. PICK old : old = WithdrawLast(decision[a], n)
    OBVIOUS
  <2>c. PICK r : r = Row(th.plan, th.skipped, IF Wants(th) THEN "pending" ELSE "none")
    OBVIOUS
  <2> DEFINE p == th.plan s == decision[a]
  <2>3. /\ At(t, "replace") /\ Goto(t, "mark") /\ decisionLock' = None
        /\ Facts(a).open = th.seen.open
        /\ decision' = [decision EXCEPT ![a] = Append(old, r)]
        /\ UNCHANGED <<now, draining, todo, account, done>>
    BY <1>2, <2>1, <2>2, <2>a, <2>b, <2>c DEF Replace, WithdrawLast, process, settings
  <2>4. PICK row \in Late :
          /\ thread' = [thread EXCEPT ![t] = row] /\ thread'[t] = row
          /\ row.pc = "mark" /\ row.account = th.account /\ row.date = th.date
          /\ row.seen = th.seen /\ row.plan = p /\ row.skipped = th.skipped
          /\ thread' \in [Thread -> {Idle} \cup Early \cup Asking \cup Late]
    BY <2>1, <2>3, GotoTypes DEF Inv
  <2>5. th.account = a /\ th.date \in Session /\ p.date = th.date /\ Replacing(t)
    BY <2>1, <2>2, <2>3 DEF Inv, ThreadsKnow, Know, Replacing, Of, Deciding, At
  <2>6. thread[t].pc \in Deciding /\ row.pc \notin Deciding
    BY <2>3, <2>4 DEF At, Deciding
  <2>7. /\ s \in Seq(DecisionRow) /\ DOMAIN s = 1..n /\ n \in Nat /\ n \in DOMAIN s
    BY <2>2, <2>5, <2>a, Rows DEF Inv, Replacing
  <2>8. /\ account[a].position = p.position
        /\ \A j \in DOMAIN s : s[j].orders \in {"pending", "sent"} => j = n /\ s[j].orders = "pending"
    <3>1. Facts(a).open = {<<k, decision[a][k].orders>> : k \in Underway(a)}
      BY DEF Facts
    <3>2. CASE th.seen.open = {} /\ Settled(a, p)
      BY <3>2 DEF Settled, Underway
    <3>3. CASE Replaceable(th.seen.open, a)
      <4>1. Facts(a).open = {<<n, "pending">>}
        BY <2>3, <2>a, <3>3 DEF Replaceable
      <4>2. \A j \in Underway(a) : j = n /\ s[j].orders = "pending"
        <5> SUFFICES ASSUME NEW j \in Underway(a) PROVE <<j, s[j].orders>> = <<n, "pending">>
          OBVIOUS
        <5> QED BY <3>1, <4>1
      <4>3. n \in Underway(a)
        BY <3>1, <4>1, <4>2
      <4>4. s[n].orders = "pending"
        BY <4>2, <4>3
      <4>5. account[a].position = p.position \/ Settled(a, p)
        BY <2>1, <2>2, <2>3, <2>5, <2>a, <3>3, <4>1, <4>4 DEF Replacing, Last
      <4> QED BY <4>2, <4>5 DEF Underway, Settled
    <3> QED BY <2>1, <2>2, <2>5, <3>2, <3>3 DEF Replacing
  <2>9. /\ old \in Seq(DecisionRow) /\ Len(old) = n /\ DOMAIN old = DOMAIN s
        /\ \A j \in DOMAIN s \ {n} : old[j] = s[j]
        /\ old[n].plan = s[n].plan /\ old[n].skipped = s[n].skipped
        /\ old[n].orders = IF s[n].orders = "pending" THEN "withdrawn" ELSE s[n].orders
    <3>1. decision[a] \in Seq(DecisionRow) /\ n \in DOMAIN decision[a]
      BY <2>7
    <3>2. /\ old \in Seq(DecisionRow) /\ Len(old) = Len(s) /\ DOMAIN old = DOMAIN s
          /\ \A j \in DOMAIN s \ {n} : old[j] = s[j]
          /\ old[n].plan = s[n].plan /\ old[n].skipped = s[n].skipped /\ old[n].active = FALSE
          /\ old[n].orders = IF s[n].orders = "pending" THEN "withdrawn" ELSE s[n].orders
      BY <2>b, <3>1, Withdraw
    <3> QED BY <2>a, <3>2
  <2>10. /\ r \in DecisionRow /\ r.plan = p /\ r.skipped = th.skipped
         /\ r.orders = IF Wants(th) THEN "pending" ELSE "none"
    BY <2>c DEF Row, DecisionRow, Late, OrdersState
  <2>11. /\ decision' \in [Account -> Seq(DecisionRow)]
         /\ \A b \in Account \ {a} : decision'[b] = decision[b]
         /\ decision'[a] # <<>>
         /\ Len(decision'[a]) = n + 1 /\ DOMAIN decision'[a] = DOMAIN s \cup {n + 1}
         /\ n + 1 \notin DOMAIN s
         /\ \A j \in DOMAIN s : decision'[a][j] = old[j]
         /\ decision'[a][n + 1] = r
    <3>1. TypeOK /\ old \in Seq(DecisionRow) /\ r \in DecisionRow
          /\ Rewrite(a, Append(old, r))
      BY <2>3, <2>9, <2>10 DEF Inv, Rewrite
    <3>2. /\ decision' \in [Account -> Seq(DecisionRow)]
          /\ \A b \in Account \ {a} : decision'[b] = decision[b]
          /\ decision'[a] # <<>>
          /\ Len(decision'[a]) = Len(old) + 1 /\ DOMAIN decision'[a] = DOMAIN old \cup {Len(old) + 1}
          /\ Len(old) + 1 \notin DOMAIN old
          /\ \A j \in DOMAIN old : decision'[a][j] = old[j]
          /\ decision'[a][Len(old) + 1] = r
      BY <3>1, AppendRow
    <3> QED BY <2>9, <3>2
  <2>12. TypeOK'
    BY <2>3, <2>4, <2>11 DEF Inv, TypeOK
  <2>13. \A j \in DOMAIN s : decision'[a][j].orders \notin {"pending", "sent"}
    BY <2>8, <2>9, <2>11
  <2>14. Underway(a)' \subseteq {Len(decision'[a])}
    BY <2>11, <2>13 DEF Underway
  <2>15. \A k \in DOMAIN decision'[a] : decision'[a][k].orders = "pending" =>
           decision'[a][k].plan.position = account[a].position
    BY <2>8, <2>10, <2>11, <2>13
  <2>16. Grows(a)
    BY <2>9, <2>11 DEF Grows
  <2>17. Issued(a, th.date)'
    <3>1. r.orders # "none" \/ r.skipped \/ r.plan.size = 0
      BY <2>10, WantsSize
    <3> QED BY <2>5, <2>10, <2>11, <3>1 DEF Issued
  <2>18. Know(t)'
    BY <2>4, <2>5, <2>17 DEF Know, At, Of
  <2> QED BY <2>3, <2>4, <2>6, <2>11, <2>12, <2>14, <2>15, <2>16, <2>18, DecidingStep
<1> QED BY <1>1, <1>2

-----------------------------------------------------------------------------
(* The steps of the orders, the operators, the clock and the process.      *)

Change(a, r) == account' = [account EXCEPT ![a] = r]

LEMMA ChangeTypes ==
  ASSUME TypeOK, NEW a \in Account, NEW r \in AccountRow, Change(a, r)
  PROVE  /\ account' \in [Account -> AccountRow] /\ account'[a] = r
         /\ \A b \in Account \ {a} : account'[b] = account[b]
BY DEF TypeOK, Change

\* The block of an account changes, and no more.
LEMMA HealthStep ==
  ASSUME TypeOK, NEW a \in Account, NEW h \in {"OK", "GAP", "BATCH"},
         Change(a, [account[a] EXCEPT !.health = h])
  PROVE  /\ account' \in [Account -> AccountRow]
         /\ \A b \in Account : account'[b].position = account[b].position
<1> DEFINE r == [account[a] EXCEPT !.health = h]
<1>1. r \in AccountRow /\ r.position = account[a].position
  BY DEF TypeOK, AccountRow
<1>2. Change(a, r)
  OBVIOUS
<1> HIDE DEF r
<1> QED BY <1>1, <1>2, ChangeTypes

\* Orders under way are sent or end.
LEMMA UnderwayMoves ==
  ASSUME TypeOK, NEW a \in Account, NEW k \in Underway(a), NEW o \in {"sent", "ended"},
         Rewrite(a, WithOrders(decision[a], k, o)),
         \A b \in Account : account'[b].position = account[b].position
  PROVE  /\ decision' \in [Account -> Seq(DecisionRow)]
         /\ \A b \in Account : Moves(b)
<1>1. /\ k \in DOMAIN decision[a] /\ decision[a][k].orders \in {"pending", "sent"}
      /\ o \in OrdersState
  BY DEF Underway, OrdersState
<1>2. /\ decision' \in [Account -> Seq(DecisionRow)]
      /\ \A b \in Account \ {a} : decision'[b] = decision[b]
      /\ Len(decision'[a]) = Len(decision[a]) /\ DOMAIN decision'[a] = DOMAIN decision[a]
      /\ \A j \in DOMAIN decision[a] :
           /\ decision'[a][j].plan = decision[a][j].plan
           /\ decision'[a][j].skipped = decision[a][j].skipped
           /\ decision'[a][j].orders = IF j = k THEN o ELSE decision[a][j].orders
  BY <1>1, OrdersMove
<1>3. Moves(a)
  BY <1>1, <1>2 DEF Moves
<1>4. \A b \in Account \ {a} : Moves(b)
  BY <1>2, Still
<1> QED BY <1>2, <1>3, <1>4

LEMMA SendStep ==
  ASSUME Inv, NEW a \in Account, Send(a)
  PROVE  Inv'
<1>1. PICK k \in Underway(a) : decision' = [decision EXCEPT ![a][k].orders = "sent"]
  BY DEF Send
<1>2. Rewrite(a, WithOrders(decision[a], k, "sent"))
  BY <1>1, Zenon DEF Rewrite, WithOrders
<1>3. UNCHANGED <<now, draining, todo, account, done, decisionLock, thread>>
  BY DEF Send, Booked, process, settings, locks
<1>4. decision' \in [Account -> Seq(DecisionRow)] /\ \A b \in Account : Moves(b)
  BY <1>2, <1>3, UnderwayMoves DEF Inv
<1>5. TypeOK'
  BY <1>3, <1>4 DEF Inv, TypeOK
<1> QED BY <1>3, <1>4, <1>5, OutsideStep

LEMMA EndStep ==
  ASSUME Inv, NEW a \in Account, End(a) \/ Expire(a)
  PROVE  Inv'
<1>1. PICK k \in Underway(a) : decision' = [decision EXCEPT ![a][k].orders = "ended"]
  BY DEF End, Expire
<1>2. PICK h \in {account[a].health, "GAP"} : account' = [account EXCEPT ![a].health = h]
  BY DEF End, Expire
<1>3. h \in {"OK", "GAP", "BATCH"}
  BY DEF Inv, TypeOK, AccountRow
<1>4. Change(a, [account[a] EXCEPT !.health = h])
  BY <1>2, Zenon DEF Change
<1>5. /\ account' \in [Account -> AccountRow]
      /\ \A b \in Account : account'[b].position = account[b].position
  BY <1>3, <1>4, HealthStep DEF Inv
<1>6. Rewrite(a, WithOrders(decision[a], k, "ended"))
  BY <1>1, Zenon DEF Rewrite, WithOrders
<1>7. UNCHANGED <<now, draining, todo, done, decisionLock, thread>>
  BY DEF End, Expire, Booked, process, settings, locks
<1>8. decision' \in [Account -> Seq(DecisionRow)] /\ \A b \in Account : Moves(b)
  BY <1>5, <1>6, UnderwayMoves DEF Inv
<1>9. TypeOK'
  BY <1>5, <1>7, <1>8 DEF Inv, TypeOK
<1> QED BY <1>7, <1>8, <1>9, OutsideStep

LEMMA FillStep ==
  ASSUME Inv, NEW a \in Account, Fill(a)
  PROVE  Inv'
<1> DEFINE r == [account[a] EXCEPT !.position = account[a].position + 1]
<1>1. account[a].position < MaxPosition /\ \E k \in Underway(a) : decision[a][k].orders = "sent"
  BY DEF Fill
<1>2. r \in AccountRow
  <2>1. MaxPosition \in Nat /\ account[a] \in AccountRow
    BY BoundAssumption DEF Inv, TypeOK
  <2> QED BY <1>1, <2>1 DEF AccountRow
<1>3. Change(a, r)
  BY Zenon DEF Fill, Change
<1> HIDE DEF r
<1>4. account' \in [Account -> AccountRow] /\ \A b \in Account \ {a} : account'[b] = account[b]
  BY <1>2, <1>3, ChangeTypes DEF Inv
<1>5. UNCHANGED <<now, draining, todo, done, decision, decisionLock, thread>>
  BY DEF Fill, Booked, process, settings, locks
<1>6. \A b \in Account : Moves(b)
  BY <1>1, <1>4, <1>5 DEF Moves, Underway
<1>7. TypeOK'
  BY <1>4, <1>5 DEF Inv, TypeOK
<1> QED BY <1>5, <1>6, <1>7, OutsideStep

\* Fees, reviews and pauses leave the positions alone.
LEMMA AccountStep ==
  ASSUME Inv, NEW a \in Account, BookFee(a) \/ Acknowledge(a) \/ SetPaused(a)
  PROVE  Inv'
<1>0. account[a] \in AccountRow
  BY DEF Inv, TypeOK
<1>1. PICK r \in AccountRow : Change(a, r) /\ r.position = account[a].position
  <2>1. CASE BookFee(a)
    <3> DEFINE r == [account[a] EXCEPT !.fees = account[a].fees + 1]
    <3>1. account[a].fees < MaxFees
      BY <2>1 DEF BookFee
    <3>2. r \in AccountRow /\ r.position = account[a].position
      BY <1>0, <3>1, BoundAssumption DEF AccountRow
    <3>3. Change(a, r)
      BY <2>1, Zenon DEF BookFee, Change
    <3> QED BY <3>2, <3>3
  <2>2. CASE Acknowledge(a)
    <3> DEFINE r == [account[a] EXCEPT !.health = "OK"]
    <3>1. r \in AccountRow /\ r.position = account[a].position
      BY <1>0 DEF AccountRow
    <3>2. Change(a, r)
      BY <2>2, Zenon DEF Acknowledge, Change
    <3> QED BY <3>1, <3>2
  <2>3. CASE SetPaused(a)
    <3> DEFINE r == [account[a] EXCEPT !.paused = ~account[a].paused]
    <3>1. r \in AccountRow /\ r.position = account[a].position
      BY <1>0 DEF AccountRow
    <3>2. Change(a, r)
      BY <2>3, Zenon DEF SetPaused, Change
    <3> QED BY <3>1, <3>2
  <2> QED BY <2>1, <2>2, <2>3
<1>2. UNCHANGED <<now, draining, todo, done, decision, decisionLock, thread>>
  BY DEF BookFee, Acknowledge, SetPaused, Booked, process, settings, locks
<1>3. /\ account' \in [Account -> AccountRow] /\ account'[a] = r
      /\ \A b \in Account \ {a} : account'[b] = account[b]
  BY <1>1, ChangeTypes DEF Inv
<1>4. \A b \in Account : Moves(b)
  BY <1>1, <1>2, <1>3, Still
<1>5. TypeOK'
  BY <1>2, <1>3 DEF Inv, TypeOK
<1> QED BY <1>2, <1>4, <1>5, OutsideStep

\* Time and the next process leave everything the threads look at alone.
LEMMA QuietStep ==
  ASSUME Inv, Tick \/ Serve \/ Once \/ \E a \in Account : RetryDue(a)
  PROVE  Inv'
<1>1. UNCHANGED <<draining, account, done, decision, decisionLock, thread>>
  BY DEF Tick, Serve, Once, RetryDue, process, settings, locks
<1>2. now' \in Nat
  BY DEF Inv, TypeOK, Tick, Serve, Once, RetryDue
<1>3. Completed \subseteq Nat
  BY SessionNat DEF Completed
<1>4. todo' \subseteq Account \X Nat
  BY <1>3 DEF Inv, TypeOK, Tick, Serve, Once, RetryDue, process
<1>5. TypeOK'
  BY <1>1, <1>2, <1>4 DEF Inv, TypeOK
<1>6. \A a \in Account : Moves(a)
  BY <1>1, Still
<1> QED BY <1>1, <1>5, <1>6, OutsideStep

LEMMA BeginShutdownStep ==
  ASSUME Inv, BeginShutdown
  PROVE  Inv'
<1>1. /\ UNCHANGED <<now, todo, account, done, decision, decisionLock, thread>>
      /\ draining' = TRUE /\ decisionLock = None
  BY DEF BeginShutdown, settings, locks
<1>2. TypeOK'
  BY <1>1 DEF Inv, TypeOK
<1>3. DecidersLock' /\ DrainedLock'
  BY <1>1, NoneAssumption DEF Inv, DecidersLock, DrainedLock
<1>4. \A a \in Account : Moves(a)
  BY <1>1, Still
<1>5. LastOpen' /\ PendingFitsPosition'
  BY <1>2, <1>4, MovesKeep DEF Inv
<1>6. DoneMeansIssued'
  BY <1>1, <1>4, MovesGrow, DoneStays DEF Inv
<1>7. ThreadsKnow'
  <2> SUFFICES ASSUME NEW t \in Thread PROVE Know(t)'
    BY DEF ThreadsKnow
  <2>1. thread[t].pc # "idle" => Of(t) \in Account
    BY ThreadTypes DEF Inv
  <2> QED BY <1>1, <1>2, <1>4, <2>1, KnowMoves DEF Inv, ThreadsKnow
<1> QED BY <1>2, <1>3, <1>5, <1>6, <1>7 DEF Inv

LEMMA DownStep ==
  ASSUME Inv, Down
  PROVE  Inv'
<1>1. /\ UNCHANGED <<now, account, done, decision>>
      /\ draining' = FALSE /\ todo' = {} /\ thread' = [t \in Thread |-> Idle]
  BY DEF Down, settings
<1>2. TypeOK'
  BY <1>1 DEF Inv, TypeOK
<1>3. \A t \in Thread : thread'[t].pc = "idle"
  BY <1>1 DEF Idle
<1>4. DecidersLock' /\ DrainedLock' /\ ThreadsKnow'
  BY <1>1, <1>3, IdleKnows DEF DecidersLock, DrainedLock, ThreadsKnow, Deciding
<1>5. \A a \in Account : Moves(a)
  BY <1>1, Still
<1>6. LastOpen' /\ PendingFitsPosition'
  BY <1>2, <1>5, MovesKeep DEF Inv
<1>7. DoneMeansIssued'
  BY <1>1, <1>5, MovesGrow, DoneStays DEF Inv
<1> QED BY <1>2, <1>4, <1>6, <1>7 DEF Inv

-----------------------------------------------------------------------------
(* The theorems.                                                           *)

LEMMA InitInv ==
  ASSUME Init
  PROVE  Inv
<1>1. TypeOK
  <2>1. MaxFees \in Nat /\ InitialPosition \in 0..MaxPosition
    BY BoundAssumption, PositionAssumption
  <2>2. account \in [Account -> AccountRow]
    BY <2>1 DEF Init, AccountRow
  <2>3. decision \in [Account -> Seq(DecisionRow)]
    BY DEF Init
  <2> QED BY <2>2, <2>3 DEF Init, TypeOK
<1>2. DecidersLock /\ DrainedLock /\ ThreadsKnow
  BY DEF Init, DecidersLock, DrainedLock, ThreadsKnow, Know, At, Idle, Deciding
<1>3. LastOpen /\ DoneMeansIssued /\ PendingFitsPosition
  BY DEF Init, LastOpen, Underway, DoneMeansIssued, PendingFitsPosition
<1> QED BY <1>1, <1>2, <1>3 DEF Inv

LEMMA NextInv ==
  ASSUME Inv, [Next]_vars
  PROVE  Inv'
<1>1. CASE \E t \in Thread : Step(t)
  BY <1>1, PrepareStep, GateStep, AnswerStep, SaveStep, CreateStep, ReplaceStep, MarkStep DEF Step
<1>2. CASE \E t \in Thread : StartBatch(t) \/ \E a \in Account : StartWorker(a, t) \/ Drive(a, t)
  BY <1>2, StartStep
<1>3. CASE \E a \in Account : Send(a) \/ Fill(a) \/ BookFee(a) \/ End(a) \/ Expire(a)
  BY <1>3, SendStep, FillStep, AccountStep, EndStep
<1>4. CASE \E a \in Account : Acknowledge(a) \/ SetPaused(a) \/ RetryDue(a)
  BY <1>4, AccountStep, QuietStep
<1>5. CASE Tick \/ Serve \/ Once
  BY <1>5, QuietStep
<1>6. CASE BeginShutdown
  BY <1>6, BeginShutdownStep
<1>7. CASE Stop \/ BatchEnds \/ Crash
  BY <1>7, DownStep DEF Stop, BatchEnds, Crash
<1>8. CASE UNCHANGED vars
  <2>1. UNCHANGED <<now, draining, todo, account, done, decision, decisionLock, thread>>
    BY <1>8 DEF vars, process, settings, locks
  <2>2. TypeOK'
    BY <2>1 DEF Inv, TypeOK
  <2>3. \A a \in Account : Moves(a)
    BY <2>1, Still
  <2> QED BY <2>1, <2>2, <2>3, OutsideStep
<1> QED BY <1>1, <1>2, <1>3, <1>4, <1>5, <1>6, <1>7, <1>8 DEF Next

-----------------------------------------------------------------------------
(* The book of decisions is what the rows show.                            *)

BookRow == [plan : Plan, active : BOOLEAN, orders : OrdersState]
Shown(s) ==
  [k \in DOMAIN s |-> [plan |-> s[k].plan, active |-> s[k].active, orders |-> s[k].orders]]
Mapped == [a \in Account |-> Shown(decision[a])]
NewRow(p, o) == [plan |-> p, active |-> TRUE, orders |-> o]

LEMMA ShownRows ==
  ASSUME NEW s \in Seq(DecisionRow)
  PROVE  /\ Shown(s) \in Seq(BookRow) /\ Len(Shown(s)) = Len(s) /\ DOMAIN Shown(s) = DOMAIN s
         /\ \A k \in DOMAIN s : /\ Shown(s)[k].plan = s[k].plan
                                /\ Shown(s)[k].active = s[k].active
                                /\ Shown(s)[k].orders = s[k].orders
                                /\ Shown(s)[k] \in BookRow
<1>1. Len(s) \in Nat /\ DOMAIN s = 1..Len(s) /\ \A k \in DOMAIN s : s[k] \in DecisionRow
  OBVIOUS
<1>2. \A k \in DOMAIN s : /\ Shown(s)[k].plan = s[k].plan
                          /\ Shown(s)[k].active = s[k].active
                          /\ Shown(s)[k].orders = s[k].orders
                          /\ Shown(s)[k] \in BookRow
  BY <1>1 DEF Shown, DecisionRow, BookRow
<1>3. Shown(s) \in [1..Len(s) -> BookRow]
  BY <1>1, <1>2 DEF Shown
<1> HIDE DEF Shown
<1>4. Shown(s) \in Seq(BookRow)
  BY <1>1, <1>3, SeqDef
<1>5. Len(Shown(s)) = Len(s) /\ DOMAIN Shown(s) = DOMAIN s
  BY <1>1, <1>3, <1>4
<1> QED BY <1>2, <1>4, <1>5

LEMMA BookRowsEqual ==
  ASSUME NEW x \in BookRow, NEW y \in BookRow,
         x.plan = y.plan, x.active = y.active, x.orders = y.orders
  PROVE  x = y
BY DEF BookRow

\* What is done to the rows is done to what they show.
LEMMA ShownAppend ==
  ASSUME NEW s \in Seq(DecisionRow), NEW r \in DecisionRow, r.active
  PROVE  Shown(Append(s, r)) = Append(Shown(s), NewRow(r.plan, r.orders))
<1> DEFINE s1 == Append(s, r)
           e == NewRow(r.plan, r.orders)
           u == Append(Shown(s), e)
<1>1. /\ s1 \in Seq(DecisionRow) /\ Len(s1) = Len(s) + 1 /\ Len(s) \in Nat
      /\ DOMAIN s = 1..Len(s) /\ DOMAIN s1 = 1..Len(s) + 1
      /\ \A k \in DOMAIN s : s1[k] = s[k]
      /\ s1[Len(s) + 1] = r
  OBVIOUS
<1>2. e \in BookRow /\ e.plan = r.plan /\ e.active = TRUE /\ e.orders = r.orders
  BY DEF NewRow, BookRow, DecisionRow
<1> HIDE DEF e, s1
<1>3. /\ Shown(s) \in Seq(BookRow) /\ Len(Shown(s)) = Len(s) /\ DOMAIN Shown(s) = DOMAIN s
      /\ Shown(s1) \in Seq(BookRow) /\ Len(Shown(s1)) = Len(s1)
  BY <1>1, ShownRows
<1>4. /\ u \in Seq(BookRow) /\ Len(u) = Len(s) + 1 /\ u[Len(s) + 1] = e
      /\ \A k \in 1..Len(s) : u[k] = Shown(s)[k]
  BY <1>2, <1>3
<1> HIDE DEF u
<1>5. \A k \in 1..Len(s) : Shown(s1)[k] = Shown(s)[k]
  BY <1>1, <1>3 DEF Shown
<1>6. Shown(s1)[Len(s) + 1] = e
  <2>1. Len(s) + 1 \in DOMAIN s1 /\ r.active = TRUE
    BY <1>1 DEF DecisionRow
  <2>2. LET x == Shown(s1)[Len(s) + 1] IN
        x \in BookRow /\ x.plan = r.plan /\ x.active = r.active /\ x.orders = r.orders
    BY <1>1, <2>1, ShownRows
  <2> QED BY <1>2, <2>1, <2>2, BookRowsEqual
<1>7. \A k \in 1..Len(u) : Shown(s1)[k] = u[k]
  BY <1>1, <1>4, <1>5, <1>6
<1>8. Len(Shown(s1)) = Len(u)
  BY <1>1, <1>3, <1>4
<1>9. Shown(s1) = u
  BY <1>3, <1>4, <1>7, <1>8, SeqEqual
<1> QED BY <1>9 DEF s1, u, e

LEMMA ShownOrders ==
  ASSUME NEW s \in Seq(DecisionRow), NEW k \in DOMAIN s, NEW o \in OrdersState
  PROVE  Shown(WithOrders(s, k, o)) = WithOrders(Shown(s), k, o)
<1> DEFINE r == [s[k] EXCEPT !.orders = o]
           s1 == [s EXCEPT ![k] = r]
           e == [Shown(s)[k] EXCEPT !.orders = o]
           u == [Shown(s) EXCEPT ![k] = e]
<1>1. s[k] \in DecisionRow /\ k \in 1..Len(s) /\ DOMAIN s = 1..Len(s)
  OBVIOUS
<1>2. r \in DecisionRow /\ r.plan = s[k].plan /\ r.active = s[k].active /\ r.orders = o
  BY <1>1 DEF DecisionRow
<1>3. /\ Shown(s) \in Seq(BookRow) /\ Len(Shown(s)) = Len(s) /\ DOMAIN Shown(s) = DOMAIN s
      /\ Shown(s)[k].plan = s[k].plan /\ Shown(s)[k].active = s[k].active
      /\ Shown(s)[k] \in BookRow
  BY ShownRows
<1>4. e \in BookRow /\ e.plan = s[k].plan /\ e.active = s[k].active /\ e.orders = o
  BY <1>3 DEF BookRow
<1>5. WithOrders(s, k, o) = s1 /\ WithOrders(Shown(s), k, o) = u
  BY Zenon DEF WithOrders
<1> HIDE DEF r, e
<1>6. /\ s1 \in Seq(DecisionRow) /\ Len(s1) = Len(s)
      /\ \A j \in 1..Len(s) : s1[j] = IF j = k THEN r ELSE s[j]
  BY <1>1, <1>2, ExceptSeq
<1>7. /\ u \in Seq(BookRow) /\ Len(u) = Len(Shown(s))
      /\ \A j \in 1..Len(Shown(s)) : u[j] = IF j = k THEN e ELSE Shown(s)[j]
  BY <1>1, <1>3, <1>4, ExceptSeq
<1> HIDE DEF s1, u
<1>8. /\ Shown(s1) \in Seq(BookRow) /\ Len(Shown(s1)) = Len(s) /\ DOMAIN s1 = 1..Len(s)
      /\ LET x == Shown(s1)[k] IN
         x \in BookRow /\ x.plan = r.plan /\ x.active = r.active /\ x.orders = r.orders
  BY <1>1, <1>6, ShownRows
<1>9. Shown(s1)[k] = e
  BY <1>2, <1>4, <1>8, BookRowsEqual
<1>10. \A j \in 1..Len(s) : j # k => Shown(s1)[j] = Shown(s)[j]
  BY <1>1, <1>6, <1>8 DEF Shown
<1>11. \A j \in 1..Len(s) : Shown(s1)[j] = u[j]
  BY <1>3, <1>7, <1>9, <1>10
<1>12. Shown(s1) = u
  BY <1>3, <1>7, <1>8, <1>11, SeqEqual
<1> QED BY <1>5, <1>12

LEMMA ShownWithdraw ==
  ASSUME NEW s \in Seq(DecisionRow), NEW k \in DOMAIN s
  PROVE  Shown(WithdrawLast(s, k)) = WithdrawLast(Shown(s), k)
<1> DEFINE s1 == WithdrawLast(s, k)
           v == Shown(s)
           o == IF v[k].orders = "pending" THEN "withdrawn" ELSE v[k].orders
           e1 == [v[k] EXCEPT !.active = FALSE]
           u1 == [v EXCEPT ![k] = e1]
           e2 == [u1[k] EXCEPT !.orders = IF @ = "pending" THEN "withdrawn" ELSE @]
           u == [u1 EXCEPT ![k] = e2]
<1>1. s[k] \in DecisionRow /\ k \in 1..Len(s) /\ DOMAIN s = 1..Len(s) /\ Len(s) \in Nat
  OBVIOUS
<1>2. /\ s1 \in Seq(DecisionRow) /\ Len(s1) = Len(s) /\ DOMAIN s1 = DOMAIN s
      /\ \A j \in DOMAIN s \ {k} : s1[j] = s[j]
      /\ s1[k].plan = s[k].plan /\ s1[k].active = FALSE
      /\ s1[k].orders = IF s[k].orders = "pending" THEN "withdrawn" ELSE s[k].orders
  BY Withdraw
<1> HIDE DEF s1
<1>3. /\ v \in Seq(BookRow) /\ Len(v) = Len(s) /\ DOMAIN v = DOMAIN s
      /\ v[k].plan = s[k].plan /\ v[k].active = s[k].active /\ v[k].orders = s[k].orders
      /\ v[k] \in BookRow
  BY ShownRows
<1>4. /\ Shown(s1) \in Seq(BookRow) /\ Len(Shown(s1)) = Len(s)
      /\ LET x == Shown(s1)[k] IN
         x \in BookRow /\ x.plan = s1[k].plan /\ x.active = s1[k].active /\ x.orders = s1[k].orders
  BY <1>2, ShownRows
<1>5. \A j \in 1..Len(s) : j # k => Shown(s1)[j] = v[j]
  BY <1>1, <1>2, <1>3 DEF Shown
<1> HIDE DEF v
<1>6. WithdrawLast(v, k) = u
  BY Zenon DEF WithdrawLast
<1>7. e1 \in BookRow /\ e1.plan = v[k].plan /\ e1.active = FALSE /\ e1.orders = v[k].orders
  BY <1>3 DEF BookRow
<1> HIDE DEF e1
<1>8. /\ u1 \in Seq(BookRow) /\ Len(u1) = Len(v)
      /\ \A j \in 1..Len(v) : u1[j] = IF j = k THEN e1 ELSE v[j]
  BY <1>1, <1>3, <1>7, ExceptSeq
<1>9. u1[k] = e1
  BY <1>1, <1>3, <1>8
<1> HIDE DEF u1
<1>10. e2 \in BookRow /\ e2.plan = v[k].plan /\ e2.active = FALSE /\ e2.orders = o
  BY <1>7, <1>9 DEF BookRow, OrdersState
<1> HIDE DEF e2
<1>11. /\ u \in Seq(BookRow) /\ Len(u) = Len(u1)
       /\ \A j \in 1..Len(u1) : u[j] = IF j = k THEN e2 ELSE u1[j]
  BY <1>1, <1>3, <1>8, <1>10, ExceptSeq
<1> HIDE DEF u
<1>12. Shown(s1)[k] = e2
  BY <1>2, <1>3, <1>4, <1>10, BookRowsEqual, ZenonT(60)
<1>13. \A j \in 1..Len(s) : Shown(s1)[j] = u[j]
  BY <1>3, <1>5, <1>8, <1>11, <1>12
<1>14. Shown(s1) = u
  BY <1>3, <1>4, <1>8, <1>11, <1>13, SeqEqual
<1>15. Shown(s1) = WithdrawLast(v, k)
  BY <1>6, <1>14
<1> QED BY <1>15 DEF s1, v

-----------------------------------------------------------------------------
(* Every step is a step of the book, or leaves it as it is.                *)

\* The rows of one account change, and the book with them.
LEMMA MappedRewrite ==
  ASSUME TypeOK, NEW a \in Account, NEW s, Rewrite(a, s)
  PROVE  Mapped' = [Mapped EXCEPT ![a] = Shown(s)]
<1>1. decision \in [Account -> Seq(DecisionRow)]
  BY DEF TypeOK
<1>2. decision'[a] = s /\ \A b \in Account \ {a} : decision'[b] = decision[b]
  BY <1>1 DEF Rewrite
<1>3. \A b \in Account : Shown(decision'[b]) = IF b = a THEN Shown(s) ELSE Shown(decision[b])
  BY <1>2
<1>4. Mapped' = [b \in Account |-> Shown(decision'[b])]
  BY Zenon DEF Mapped, Shown
<1>5. Mapped = [b \in Account |-> Shown(decision[b])]
  BY DEF Mapped
<1> QED BY <1>3, <1>4, <1>5

\* The book as the abstract specification reads it.
LEMMA MappedRows ==
  ASSUME TypeOK, NEW a \in Account
  PROVE  /\ Mapped[a] = Shown(decision[a]) /\ DOMAIN Mapped[a] = DOMAIN decision[a]
         /\ Len(Mapped[a]) = Len(decision[a])
         /\ decision[a] # <<>> => Mapped[a] # <<>>
         /\ \A k \in DOMAIN decision[a] :
              /\ Mapped[a][k].plan = decision[a][k].plan
              /\ Mapped[a][k].active = decision[a][k].active
              /\ Mapped[a][k].orders = decision[a][k].orders
<1>1. Mapped[a] = Shown(decision[a])
  BY DEF Mapped
<1>2. decision[a] \in Seq(DecisionRow)
  BY DEF TypeOK
<1>3. Len(Mapped[a]) = Len(decision[a]) /\ Mapped[a] \in Seq(BookRow)
  BY <1>1, <1>2, ShownRows
<1>4. decision[a] # <<>> => Mapped[a] # <<>>
  BY <1>2, <1>3
<1> QED BY <1>1, <1>2, <1>3, <1>4, ShownRows

\* The steps of the book, read through the mapping.
LEMMA IsDecide ==
  ASSUME NEW a \in Account, NEW p \in Plan,
         \A k \in DOMAIN Mapped[a] : Mapped[a][k].orders \notin {"pending", "sent"},
         \A k \in DOMAIN Mapped[a] : Mapped[a][k].active => [q \in Plan |-> q.date][Mapped[a][k].plan] # p.date,
         Mapped' = [Mapped EXCEPT ![a] = Append(Mapped[a], NewRow(p, "none"))]
  PROVE  Book!Next
<1>1. [q \in Plan |-> q.date][p] = p.date
  OBVIOUS
<1>2. Book!Decide(a, p)
  BY <1>1 DEF Book!Decide, Book!HasOpen, Book!Open, Book!HasActive, Book!Entry, Mapped, Shown, NewRow
<1> QED BY <1>2 DEF Book!Next

LEMMA IsCreateOrders ==
  ASSUME NEW a \in Account, Mapped[a] # <<>>,
         \A k \in DOMAIN Mapped[a] : Mapped[a][k].orders \notin {"pending", "sent"},
         Mapped[a][Len(Mapped[a])].orders = "none",
         Mapped' = [Mapped EXCEPT ![a] = WithOrders(Mapped[a], Len(Mapped[a]), "pending")]
  PROVE  Book!Next
<1>1. Book!CreateOrders(a)
  BY DEF Book!CreateOrders, Book!HasOpen, Book!Open, Book!Current, Mapped, Shown, WithOrders
<1> QED BY <1>1 DEF Book!Next

LEMMA IsReplace ==
  ASSUME NEW a \in Account, NEW p \in Plan, NEW o \in {"none", "pending"}, Mapped[a] # <<>>,
         Mapped[a][Len(Mapped[a])].active, Mapped[a][Len(Mapped[a])].orders # "sent",
         \A j \in DOMAIN Mapped[a] \ {Len(Mapped[a])} : Mapped[a][j].orders \notin {"pending", "sent"},
         \A k \in DOMAIN Mapped[a] \ {Len(Mapped[a])} :
           Mapped[a][k].active => [q \in Plan |-> q.date][Mapped[a][k].plan] # p.date,
         Mapped' = [Mapped EXCEPT ![a] = Append(WithdrawLast(Mapped[a], Len(Mapped[a])), NewRow(p, o))]
  PROVE  Book!Next
<1>1. [q \in Plan |-> q.date][p] = p.date
  BY SMTT(30)
<1>2. Book!Current(a) = Len(Mapped[a])
  BY SMTT(30) DEF Book!Current, Mapped, Shown
<1>3. ~Book!HasActive(a, [q \in Plan |-> q.date][p], {Book!Current(a)})
  BY <1>1, <1>2, ZenonT(60) DEF Book!HasActive, Mapped, Shown
<1>4. Mapped' = [Mapped EXCEPT ![a] =
        Append(WithdrawLast(Mapped[a], Book!Current(a)), Book!Entry(p, o))]
  BY <1>2 DEF Book!Entry, NewRow
<1>5. /\ Mapped[a][Book!Current(a)].active /\ Mapped[a][Book!Current(a)].orders # "sent"
      /\ \A j \in DOMAIN Mapped[a] \ {Book!Current(a)} : Mapped[a][j].orders \notin Book!Open
  BY <1>2 DEF Book!Open
<1>6. Book!Replace(a, p)
  BY <1>3, <1>4, <1>5, Zenon DEF Book!Replace, Mapped, Shown, WithdrawLast
<1> QED BY <1>6 DEF Book!Next

LEMMA IsOrders ==
  ASSUME NEW a \in Account, NEW k \in DOMAIN Mapped[a], NEW o \in {"sent", "ended"},
         Mapped[a][k].orders \in {"pending", "sent"}, o = "sent" => Mapped[a][k].orders = "pending",
         Mapped' = [Mapped EXCEPT ![a] = WithOrders(Mapped[a], k, o)]
  PROVE  Book!Next
<1>1. Book!Send(a) \/ Book!End(a)
  BY DEF Book!Send, Book!End, Book!Open, Mapped, Shown, WithOrders
<1> QED BY <1>1 DEF Book!Next

LEMMA BookStays ==
  ASSUME UNCHANGED decision
  PROVE  UNCHANGED Mapped
BY DEF Mapped, Shown

LEMMA SaveBook ==
  ASSUME Inv, NEW t \in Thread, Save(t)
  PROVE  Book!Next \/ UNCHANGED Mapped
<1>1. PICK th \in Late : th = thread[t]
  BY ThreadTypes DEF Inv, Save, At
<1>2. PICK a \in Account : a = Of(t)
  BY ThreadTypes DEF Inv, Save, At
<1> DEFINE p == th.plan s == decision[a] r == Row(p, th.skipped, "none")
<1>3. CASE UNCHANGED decision
  BY <1>3, BookStays
<1>4. CASE ~UNCHANGED decision
  <2>1. /\ decision' = [decision EXCEPT ![a] = Append(s, r)]
        /\ Active(a, p.date) = {} /\ ~SamePlan(a, p) /\ Saving(t)
    BY <1>1, <1>2, <1>4 DEF Save, SaveOK, Raise, Fail, Inv, ThreadsKnow, Know
  <2>2. \A k \in DOMAIN s : s[k].orders \notin {"pending", "sent"}
    BY <1>1, <1>2, <2>1 DEF Saving, Settled, Underway
  <2>3. \A k \in DOMAIN s : s[k].active => s[k].plan.date # p.date
    BY <2>1 DEF Active
  <2>4. p \in Plan /\ s \in Seq(DecisionRow) /\ \A k \in DOMAIN s : s[k].plan \in Plan
    BY Rows DEF Inv, Late, DecisionRow
  <2>5. /\ r \in DecisionRow /\ r.plan = p /\ r.orders = "none" /\ r.active
    BY DEF Row, DecisionRow, Late, OrdersState
  <2>6. Rewrite(a, Append(s, r))
    BY <2>1 DEF Rewrite
  <2> HIDE DEF r
  <2>7. Mapped' = [Mapped EXCEPT ![a] = Shown(Append(s, r))]
    BY <2>6, MappedRewrite DEF Inv
  <2>8. Shown(Append(s, r)) = Append(Mapped[a], NewRow(p, "none"))
    BY <2>4, <2>5, ShownAppend, MappedRows DEF Inv
  <2>9. /\ \A k \in DOMAIN Mapped[a] : Mapped[a][k].orders \notin {"pending", "sent"}
        /\ \A k \in DOMAIN Mapped[a] :
             Mapped[a][k].active => [q \in Plan |-> q.date][Mapped[a][k].plan] # p.date
    BY <2>2, <2>3, <2>4, MappedRows DEF Inv
  <2> QED BY <2>4, <2>7, <2>8, <2>9, IsDecide
<1> QED BY <1>3, <1>4

LEMMA CreateBook ==
  ASSUME Inv, NEW t \in Thread, Create(t)
  PROVE  Book!Next \/ UNCHANGED Mapped
<1>1. PICK th \in Late : th = thread[t]
  BY ThreadTypes DEF Inv, Create, At
<1>2. PICK a \in Account : a = Of(t)
  BY ThreadTypes DEF Inv, Create, At
<1>3. PICK n : n = Len(decision[a])
  OBVIOUS
<1> DEFINE s == decision[a]
<1>4. CASE UNCHANGED decision
  BY <1>4, BookStays
<1>5. CASE ~UNCHANGED decision
  <2>1. /\ decision' = [decision EXCEPT ![a][n].orders = "pending"]
        /\ Last(a).orders = "none" /\ Creating(t)
    BY <1>1, <1>2, <1>3, <1>5 DEF Create, Raise, Fail, Inv, ThreadsKnow, Know
  <2>2. Underway(a) = {} /\ s # <<>>
    BY <1>1, <1>2, <2>1 DEF Creating, Settled, SamePlan
  <2>3. /\ \A k \in DOMAIN s : s[k].orders \notin {"pending", "sent"}
        /\ s \in Seq(DecisionRow) /\ n \in DOMAIN s /\ s[n].orders = "none"
    BY <1>3, <2>1, <2>2, Rows DEF Inv, Underway, Last
  <2>4. Rewrite(a, WithOrders(s, n, "pending"))
    BY <2>1, Zenon DEF Rewrite, WithOrders
  <2>5. Mapped' = [Mapped EXCEPT ![a] = Shown(WithOrders(s, n, "pending"))]
    BY <2>4, MappedRewrite DEF Inv
  <2>6. Shown(WithOrders(s, n, "pending")) = WithOrders(Shown(s), n, "pending")
    BY <2>3, ShownOrders DEF OrdersState
  <2>7. /\ Mapped[a] = Shown(s) /\ n = Len(Mapped[a]) /\ Mapped[a] # <<>>
        /\ \A k \in DOMAIN Mapped[a] : Mapped[a][k].orders \notin {"pending", "sent"}
        /\ Mapped[a][Len(Mapped[a])].orders = "none"
    BY <1>3, <2>2, <2>3, MappedRows DEF Inv
  <2> QED BY <2>5, <2>6, <2>7, IsCreateOrders
<1> QED BY <1>4, <1>5

LEMMA ReplaceBook ==
  ASSUME Inv, NEW t \in Thread, Replace(t)
  PROVE  Book!Next \/ UNCHANGED Mapped
<1>1. PICK th \in Late : th = thread[t]
  BY ThreadTypes DEF Inv, Replace, At
<1>2. PICK a \in Account : a = Of(t)
  BY ThreadTypes DEF Inv, Replace, At
<1>3. PICK n : n = Len(decision[a])
  OBVIOUS
<1>4. PICK o \in {"none", "pending"} : o = IF Wants(th) THEN "pending" ELSE "none"
  OBVIOUS
<1> DEFINE p == th.plan s == decision[a] r == Row(p, th.skipped, o) old == WithdrawLast(s, n)
<1>5. CASE UNCHANGED decision
  BY <1>5, BookStays
<1>6. CASE ~UNCHANGED decision
  <2>1. /\ decision' = [decision EXCEPT ![a] = Append(old, r)]
        /\ Facts(a).open = th.seen.open
        /\ Last(a).active /\ Active(a, p.date) \subseteq {n} /\ Replacing(t)
    BY <1>1, <1>2, <1>3, <1>4, <1>6 DEF Replace, WithdrawLast, Raise, Fail, Inv, ThreadsKnow, Know
  <2>2. s \in Seq(DecisionRow) /\ n \in DOMAIN s /\ s # <<>>
    BY <1>1, <1>2, <1>3, <2>1, Rows DEF Inv, Replacing
  <2>3. \A j \in DOMAIN s : s[j].orders \in {"pending", "sent"} => j = n /\ s[j].orders = "pending"
    <3>1. Facts(a).open = {<<k, s[k].orders>> : k \in Underway(a)}
      BY DEF Facts
    <3>2. th.seen.open = {} \/ th.seen.open = {<<n, "pending">>}
      BY <1>1, <1>2, <1>3, <2>1 DEF Replacing, Replaceable
    <3> SUFFICES ASSUME NEW j \in Underway(a) PROVE <<j, s[j].orders>> = <<n, "pending">>
      BY DEF Underway
    <3>3. <<j, s[j].orders>> \in th.seen.open
      BY <2>1, <3>1
    <3> QED BY <3>2, <3>3
  <2>4. /\ s[n].active /\ s[n].orders # "sent"
        /\ \A j \in DOMAIN s \ {n} : s[j].orders \notin {"pending", "sent"}
        /\ \A k \in DOMAIN s \ {n} : s[k].active => s[k].plan.date # p.date
    BY <1>3, <2>1, <2>2, <2>3 DEF Active, Last
  <2>5. p \in Plan /\ \A k \in DOMAIN s : s[k].plan \in Plan
    BY Rows DEF Inv, Late, DecisionRow
  <2>6. r \in DecisionRow /\ r.plan = p /\ r.orders = o /\ r.active
    BY DEF Row, DecisionRow, Late, OrdersState
  <2>7. old \in Seq(DecisionRow)
    BY <2>2, Withdraw
  <2>8. Rewrite(a, Append(old, r))
    BY <2>1 DEF Rewrite
  <2> HIDE DEF r
  <2>9. Mapped' = [Mapped EXCEPT ![a] = Shown(Append(old, r))]
    BY <2>8, MappedRewrite DEF Inv
  <2>10. Shown(Append(old, r)) = Append(Shown(old), NewRow(p, o))
    BY <2>6, <2>7, ShownAppend
  <2>11. Shown(old) = WithdrawLast(Shown(s), n)
    BY <2>2, ShownWithdraw
  <2>12. /\ Mapped[a] = Shown(s) /\ n = Len(Mapped[a]) /\ Mapped[a] # <<>>
         /\ DOMAIN Mapped[a] = DOMAIN s
         /\ \A k \in DOMAIN s : /\ Mapped[a][k].plan = s[k].plan
                                /\ Mapped[a][k].active = s[k].active
                                /\ Mapped[a][k].orders = s[k].orders
    BY <1>3, <2>2, MappedRows DEF Inv
  <2>13. /\ Mapped[a][n].active /\ Mapped[a][n].orders # "sent"
         /\ \A j \in DOMAIN Mapped[a] \ {n} : Mapped[a][j].orders \notin {"pending", "sent"}
         /\ \A k \in DOMAIN Mapped[a] \ {n} :
              Mapped[a][k].active => [q \in Plan |-> q.date][Mapped[a][k].plan] # p.date
    BY <2>2, <2>4, <2>5, <2>12
  <2>14. Mapped' = [Mapped EXCEPT ![a] = Append(WithdrawLast(Mapped[a], n), NewRow(p, o))]
    BY <2>9, <2>10, <2>11, <2>12
  <2> QED BY <2>5, <2>12, <2>13, <2>14, IsReplace
<1> QED BY <1>5, <1>6

LEMMA OrdersBook ==
  ASSUME Inv, NEW a \in Account, Send(a) \/ End(a) \/ Expire(a)
  PROVE  Book!Next
<1>1. PICK k \in Underway(a), o \in {"sent", "ended"} :
        /\ decision' = [decision EXCEPT ![a][k].orders = o]
        /\ o = "sent" => decision[a][k].orders = "pending"
  BY DEF Send, End, Expire
<1> DEFINE s == decision[a]
<1>2. s \in Seq(DecisionRow) /\ k \in DOMAIN s /\ s[k].orders \in {"pending", "sent"} /\ o \in OrdersState
  BY Rows DEF Inv, Underway, OrdersState
<1>3. Rewrite(a, WithOrders(s, k, o))
  BY <1>1, Zenon DEF Rewrite, WithOrders
<1>4. Mapped' = [Mapped EXCEPT ![a] = Shown(WithOrders(s, k, o))]
  BY <1>3, MappedRewrite DEF Inv
<1>5. Shown(WithOrders(s, k, o)) = WithOrders(Shown(s), k, o)
  BY <1>2, ShownOrders
<1>6. /\ Mapped[a] = Shown(s) /\ k \in DOMAIN Mapped[a] /\ Mapped[a][k].orders = s[k].orders
  BY <1>2, MappedRows DEF Inv
<1> QED BY <1>1, <1>2, <1>4, <1>5, <1>6, IsOrders

LEMMA BookInit ==
  ASSUME Init
  PROVE  Book!Init
BY DEF Init, Book!Init

LEMMA BookNext ==
  ASSUME Inv, [Next]_vars
  PROVE  Book!Next \/ UNCHANGED Mapped
<1>1. CASE \E t \in Thread : Save(t) \/ Create(t) \/ Replace(t)
  BY <1>1, SaveBook, CreateBook, ReplaceBook
<1>2. CASE \E a \in Account : Send(a) \/ End(a) \/ Expire(a)
  BY <1>2, OrdersBook
<1>3. CASE \E t \in Thread : Prepare(t) \/ Gate(t) \/ Answer(t) \/ Mark(t)
  BY <1>3, BookStays DEF Prepare, Gate, Answer, Mark, CallFails, Raise, Fail
<1>4. CASE \E t \in Thread : StartBatch(t) \/ \E a \in Account : StartWorker(a, t) \/ Drive(a, t)
  BY <1>4, BookStays DEF StartBatch, StartWorker, Drive
<1>5. CASE \E a \in Account : Fill(a) \/ BookFee(a) \/ Acknowledge(a) \/ SetPaused(a) \/ RetryDue(a)
  BY <1>5, BookStays DEF Fill, BookFee, Acknowledge, SetPaused, RetryDue
<1>6. CASE Tick \/ BeginShutdown \/ Stop \/ BatchEnds \/ Crash \/ Serve \/ Once
  BY <1>6, BookStays DEF Tick, BeginShutdown, Stop, BatchEnds, Crash, Down, Serve, Once
<1>7. CASE UNCHANGED vars
  BY <1>7, BookStays DEF vars
<1> QED BY <1>1, <1>2, <1>3, <1>4, <1>5, <1>6, <1>7 DEF Next, Step

\* While a process drains, what has no orders gets none, and nothing is added.
LEMMA DrainedStep ==
  ASSUME Inv, [Next]_vars, draining, NEW a \in Account
  PROVE  /\ Len(decision'[a]) = Len(decision[a])
         /\ \A k \in DOMAIN decision[a] :
              decision[a][k].orders = "none" => decision'[a][k].orders = "none"
<1>1. \A t \in Thread : ~(Save(t) \/ Create(t) \/ Replace(t))
  BY DEF Inv, DrainedLock, Deciding, Save, Create, Replace, At
<1>2. CASE UNCHANGED decision
  BY <1>2
<1>3. CASE \E b \in Account : Send(b) \/ End(b) \/ Expire(b)
  <2>0. PICK b \in Account : Send(b) \/ End(b) \/ Expire(b)
    BY <1>3
  <2>1. PICK k \in Underway(b), o \in {"sent", "ended"} :
          decision' = [decision EXCEPT ![b][k].orders = o]
    BY <2>0 DEF Send, End, Expire
  <2>2. k \in DOMAIN decision[b] /\ decision[b][k].orders \in {"pending", "sent"} /\ o \in OrdersState
    BY DEF Underway, OrdersState
  <2>3. Rewrite(b, WithOrders(decision[b], k, o))
    BY <2>1, Zenon DEF Rewrite, WithOrders
  <2>4. /\ \A c \in Account \ {b} : decision'[c] = decision[c]
        /\ Len(decision'[b]) = Len(decision[b])
        /\ \A j \in DOMAIN decision[b] :
             decision'[b][j].orders = IF j = k THEN o ELSE decision[b][j].orders
    BY <2>2, <2>3, OrdersMove DEF Inv
  <2> QED BY <2>2, <2>4
<1>4. CASE \E t \in Thread : Prepare(t) \/ Gate(t) \/ Answer(t) \/ Mark(t)
  BY <1>2, <1>4 DEF Prepare, Gate, Answer, Mark, CallFails, Raise, Fail
<1>5. CASE \E t \in Thread : StartBatch(t) \/ \E b \in Account : StartWorker(b, t) \/ Drive(b, t)
  BY <1>2, <1>5 DEF StartBatch, StartWorker, Drive
<1>6. CASE \E b \in Account : Fill(b) \/ BookFee(b) \/ Acknowledge(b) \/ SetPaused(b) \/ RetryDue(b)
  BY <1>2, <1>6 DEF Fill, BookFee, Acknowledge, SetPaused, RetryDue
<1>7. CASE Tick \/ BeginShutdown \/ Stop \/ BatchEnds \/ Crash \/ Serve \/ Once
  BY <1>2, <1>7 DEF Tick, BeginShutdown, Stop, BatchEnds, Crash, Down, Serve, Once
<1>8. CASE UNCHANGED vars
  BY <1>2, <1>8 DEF vars
<1> QED BY <1>1, <1>3, <1>4, <1>5, <1>6, <1>7, <1>8 DEF Next, Step

-----------------------------------------------------------------------------
(* The theorems.                                                           *)

\* Through every interleaving, failure and restart the variables keep their
\* types and the locks, orders and threads fit together.
THEOREM CycleInvariant == Spec => []Inv
BY InitInv, NextInv, PTL DEF Spec

\* Whatever threads, operators, failing calls and crashes do, the decisions and
\* intents tables move only as the book of decisions allows.
THEOREM CycleImplementsBook == Spec => ImplementsBook
<1>1. Inv /\ [Next]_vars => [Book!Next]_Mapped
  BY BookNext
<1>2. Init => Book!Init
  BY BookInit
<1> QED BY <1>1, <1>2, CycleInvariant, PTL DEF Spec, ImplementsBook, Book!Spec, Mapped, Shown

\* No crash, failing call or replaced decision leaves a date marked done whose
\* decision lacks orders it wants (_run_locked marks last).
THEOREM DoneDatesAreIssued == Spec => []DoneMeansIssued
<1>1. Inv => DoneMeansIssued
  BY DEF Inv
<1> QED BY <1>1, CycleInvariant, PTL

\* Orders that wait to be sent were sized for the position the account has now,
\* though the strategy looked at it several steps before (_refresh_account).
THEOREM PendingOrdersFit == Spec => []PendingFitsPosition
<1>1. Inv => PendingFitsPosition
  BY DEF Inv
<1> QED BY <1>1, CycleInvariant, PTL

\* Once begin_shutdown has returned, no decision is stored and no orders are
\* created until the process has ended.
THEOREM DrainingDecidesNothing == Spec => DrainedIsQuiet
<1>1. Inv /\ [Next]_vars =>
        [draining => \A a \in Account :
           /\ Len(decision'[a]) = Len(decision[a])
           /\ \A k \in DOMAIN decision[a] :
                decision[a][k].orders = "none" => decision'[a][k].orders = "none"]_vars
  BY DrainedStep
<1> QED BY <1>1, CycleInvariant, PTL DEF Spec, DrainedIsQuiet
=============================================================================
