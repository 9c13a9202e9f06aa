---------------------- MODULE CashReconciliationProofs ----------------------
(***************************************************************************)
(* What holds of the reconciliation of cash for any orders, amounts, fees  *)
(* and movements of cash, any number of refreshes at a time, and wherever  *)
(* the process dies: the types, and what the fills table and the marks in  *)
(* it, from which the fees are computed, say of the orders.                *)
(***************************************************************************)
EXTENDS CashReconciliation, FiniteSetTheorems, SequenceTheorems, TLAPS

-----------------------------------------------------------------------------
(* Sums over finite sets: SumFunctionOnSet(f, S) adds f[x] in the order in *)
(* which CHOOSE picks the elements of S.  Induction over S is by a         *)
(* smallest counterexample, as for the store.                              *)

LEMMA MinimalSubset ==
  ASSUME NEW S, IsFiniteSet(S), NEW B, B \subseteq SUBSET S, B # {}
  PROVE  \E T \in B : \A U \in B : U \subseteq T => U = T
<1>1. IsWellFoundedOn(StrictSubsetOrdering(S), SUBSET S)
  BY FS_StrictSubsetOrderingWellFounded, FS_FiniteSubsetsOfFinite
<1>2. PICK T \in B : \A U \in B : <<U, T>> \notin StrictSubsetOrdering(S)
  BY <1>1, WFMin
<1> QED BY <1>2 DEF StrictSubsetOrdering

Pick(s) == CHOOSE x \in s : TRUE
Adds(g, f, T) ==
  g = [s \in SUBSET T |-> IF s = {} THEN 0 ELSE f[Pick(s)] + g[s \ {Pick(s)}]]
Sum(f, T) == CHOOSE g : Adds(g, f, T)

LEMMA SumIs ==
  ASSUME NEW f, NEW S
  PROVE  SumFunctionOnSet(f, S) = Sum(f, S)[S]
  BY Zenon DEF SumFunctionOnSet, FoldFunctionOnSet, MapThenFoldSet, Adds, Pick, Sum

LEMMA Picks == ASSUME NEW s, s # {}  PROVE Pick(s) \in s
  BY DEF Pick

LEMMA AddsValue ==
  ASSUME NEW f, NEW T, NEW g, Adds(g, f, T), NEW s \in SUBSET T
  PROVE  g[s] = IF s = {} THEN 0 ELSE f[Pick(s)] + g[s \ {Pick(s)}]
<1> DEFINE h == [u \in SUBSET T |-> IF u = {} THEN 0 ELSE f[Pick(u)] + g[u \ {Pick(u)}]]
<1>1. h[s] = IF s = {} THEN 0 ELSE f[Pick(s)] + g[s \ {Pick(s)}]
  OBVIOUS
<1>2. g = h
  BY DEF Adds
<1> QED BY <1>1, <1>2, Zenon

\* Two functions that add up subsets agree where both are defined.
LEMMA AddsAgree ==
  ASSUME NEW f, NEW S, NEW T, IsFiniteSet(S), NEW g, NEW h, Adds(g, f, S), Adds(h, f, T)
  PROVE  \A s \in SUBSET S : s \subseteq T => g[s] = h[s]
<1> DEFINE Bad == {s \in SUBSET S : s \subseteq T /\ g[s] # h[s]}
<1>1. SUFFICES ASSUME Bad # {}  PROVE FALSE
  OBVIOUS
<1>2. PICK s \in Bad : \A u \in Bad : u \subseteq s => u = s
  <2>1. Bad \subseteq SUBSET S
    OBVIOUS
  <2> HIDE DEF Bad
  <2> QED BY <1>1, <2>1, MinimalSubset
<1>3. CASE s = {}
  BY <1>2, <1>3, AddsValue
<1>4. CASE s # {}
  <2> DEFINE u == s \ {Pick(s)}
  <2>1. Pick(s) \in s /\ u \subseteq s /\ u # s
    BY <1>4, Picks
  <2>2. u \notin Bad
    BY <1>2, <2>1
  <2>3. g[u] = h[u]
    BY <1>2, <2>1, <2>2
  <2>4. g[s] = f[Pick(s)] + g[u] /\ h[s] = f[Pick(s)] + h[u]
    BY <1>2, <1>4, AddsValue
  <2> QED BY <1>2, <2>3, <2>4
<1> QED BY <1>3, <1>4

\* Such a function exists.
LEMMA SumAdds ==
  ASSUME NEW f, NEW S, IsFiniteSet(S)
  PROVE  Adds(Sum(f, S), f, S)
<1> DEFINE Bad == {T \in SUBSET S : ~Adds(Sum(f, T), f, T)}
<1>1. SUFFICES ASSUME Bad # {}  PROVE FALSE
  OBVIOUS
<1>2. PICK T \in Bad : \A U \in Bad : U \subseteq T => U = T
  <2>1. Bad \subseteq SUBSET S
    OBVIOUS
  <2> HIDE DEF Bad
  <2> QED BY <1>1, <2>1, MinimalSubset
<1> DEFINE rest(s) == s \ {Pick(s)}
           G == [s \in SUBSET T |-> IF s = {} THEN 0 ELSE f[Pick(s)] + Sum(f, rest(s))[rest(s)]]
<1>3. ASSUME NEW s \in SUBSET T, s # {}  PROVE G[rest(s)] = Sum(f, rest(s))[rest(s)]
  <2> DEFINE u == rest(s)
             v == rest(u)
  <2>1. Pick(s) \in s /\ u \subseteq T /\ u # T /\ IsFiniteSet(u)
    BY <1>2, <1>3, Picks, FS_Subset
  <2>2. Adds(Sum(f, u), f, u)
    BY <1>2, <2>1
  <2>3. Sum(f, u)[u] = IF u = {} THEN 0 ELSE f[Pick(u)] + Sum(f, u)[v]
    <3>1. u \in SUBSET u /\ v = u \ {Pick(u)}
      OBVIOUS
    <3> HIDE DEF u, v
    <3> QED BY <2>2, <3>1, AddsValue
  <2>4. G[u] = IF u = {} THEN 0 ELSE f[Pick(u)] + Sum(f, v)[v]
    BY <2>1
  <2>5. ASSUME u # {}  PROVE Sum(f, u)[v] = Sum(f, v)[v]
    <3>1. v \subseteq u /\ v # T /\ v \subseteq T
      BY <2>1
    <3>2. Adds(Sum(f, v), f, v)
      BY <1>2, <3>1
    <3> HIDE DEF u, v
    <3> QED BY <2>1, <2>2, <3>1, <3>2, AddsAgree
  <2> HIDE DEF u, v, G
  <2>6. G[u] = Sum(f, u)[u]
    BY <2>3, <2>4, <2>5
  <2> QED BY <2>6 DEF u
<1>4. Adds(G, f, T)
  <2>1. \A s \in SUBSET T : (IF s = {} THEN 0 ELSE f[Pick(s)] + Sum(f, rest(s))[rest(s)])
                            = (IF s = {} THEN 0 ELSE f[Pick(s)] + G[rest(s)])
    BY <1>3
  <2>2. G = [s \in SUBSET T |-> IF s = {} THEN 0 ELSE f[Pick(s)] + G[rest(s)]]
    BY <2>1
  <2> QED BY <2>2 DEF Adds
<1>5. Adds(Sum(f, T), f, T)
  BY <1>4, Zenon DEF Sum
<1> QED BY <1>2, <1>5

LEMMA SumEmpty ==
  ASSUME NEW f, NEW S, \A x \in S : FALSE
  PROVE  SumFunctionOnSet(f, S) = 0
<1>1. S = {} /\ IsFiniteSet(S)
  <2>1. S = {}
    OBVIOUS
  <2> QED BY <2>1, FS_EmptySet
<1>2. Adds(Sum(f, S), f, S) /\ S \in SUBSET S
  BY <1>1, SumAdds
<1>3. Sum(f, S)[S] = 0
  BY <1>1, <1>2, AddsValue
<1> QED BY <1>3, SumIs

LEMMA SumPick ==
  ASSUME NEW f, NEW S, IsFiniteSet(S), S # {}
  PROVE  SumFunctionOnSet(f, S) = f[Pick(S)] + SumFunctionOnSet(f, S \ {Pick(S)})
<1> DEFINE r == S \ {Pick(S)}
<1>1. IsFiniteSet(r) /\ r \subseteq S /\ S \in SUBSET S /\ r \in SUBSET r
  BY FS_Subset
<1>2. Adds(Sum(f, S), f, S) /\ Adds(Sum(f, r), f, r)
  BY <1>1, SumAdds
<1>3. Sum(f, S)[r] = Sum(f, r)[r]
  <2> HIDE DEF r
  <2>1. \A s \in SUBSET S : s \subseteq r => Sum(f, S)[s] = Sum(f, r)[s]
    BY <1>2, AddsAgree
  <2> QED BY <1>1, <2>1
<1>4. Sum(f, S)[S] = f[Pick(S)] + Sum(f, S)[r]
  BY <1>1, <1>2, AddsValue
<1>5. SumFunctionOnSet(f, S) = Sum(f, S)[S] /\ SumFunctionOnSet(f, r) = Sum(f, r)[r]
  <2> HIDE DEF r
  <2> QED BY SumIs
<1> QED BY <1>3, <1>4, <1>5

\* What sums add up to.
LEMMA SumInt ==
  ASSUME NEW f, NEW S, IsFiniteSet(S), \A x \in S : f[x] \in Int
  PROVE  SumFunctionOnSet(f, S) \in Int
<1> DEFINE Bad == {T \in SUBSET S : SumFunctionOnSet(f, T) \notin Int}
<1>1. SUFFICES ASSUME Bad # {}  PROVE FALSE
  OBVIOUS
<1>2. PICK T \in Bad : \A U \in Bad : U \subseteq T => U = T
  <2>1. Bad \subseteq SUBSET S
    OBVIOUS
  <2> HIDE DEF Bad
  <2> QED BY <1>1, <2>1, MinimalSubset
<1>3. IsFiniteSet(T) /\ T \subseteq S
  BY <1>2, FS_Subset
<1>4. T # {}
  BY <1>2, SumEmpty
<1>5. Pick(T) \in T /\ SumFunctionOnSet(f, T \ {Pick(T)}) \in Int
  BY <1>2, <1>4, Picks
<1>6. SumFunctionOnSet(f, T) = f[Pick(T)] + SumFunctionOnSet(f, T \ {Pick(T)})
  BY <1>3, <1>4, SumPick
<1> QED BY <1>2, <1>3, <1>5, <1>6

-----------------------------------------------------------------------------
(* Types.                                                                  *)

Broker == [cash : Int, fee : [Order -> Int \cup {None}]]
Reference == Nat \X Nat \X Int
Row == [reference : Reference, amount : Int]
OrderState == {"none", "pending", "unresolved", "sent", "booked"}
StatusName == {"NONE", "OK", "UNATTRIBUTED", "OUT_OF_RANGE", "AMBIGUOUS"}

\* A thread before it has measured, when it has, and when it books a difference.
Gates == {"require", "settle", "gate", "send"}
Plain == [pc : {"idle", "compare", "accounts"}]
Reading == [pc : {"orders", "book", "account"}, seen : SUBSET Order]
Asking == [pc : {"assign"}, value : Broker]
Measuring == [pc : {"measure"} \cup Gates, cash : Int, frozen : BOOLEAN]
Closing == {"apply", "write", "checkpoint", "ok"}
Correcting == [pc : Closing \cup Gates, frozen : BOOLEAN, amount : Int, base : Int,
               row : Nat, cash : Int, reference : Reference]
Frame == Plain \cup Reading \cup Asking \cup Measuring \cup Correcting

StoreTypes ==
  /\ order \in [Order -> OrderState]
  /\ fills \in Seq(Order)
  /\ recon \in [open : BOOLEAN, cash : Int, rows : SUBSET Row]
  /\ checkpoint \in [row : Nat, cash : Int]
  /\ status \in StatusName
  /\ channel \in {"OK", "BLOCKED"}
WorldTypes ==
  /\ broker \in Broker
  /\ foreign \in [sum : Int, count : Nat] /\ crashes \in 0 .. MaxCrashes
\* Where a thread uses the snapshot there is one.
Early == {"idle", "orders", "book", "account", "assign"}
Taken(pc) == pc \notin Early => snapshot.cash \in Int
ThreadTypes ==
  /\ thread \in [Thread -> Frame]
  /\ \A t \in Thread : Taken(thread[t].pc)
Types == StoreTypes /\ WorldTypes /\ ThreadTypes

\* A thread goes on as r.
Becomes(t, r) == thread' = [thread EXCEPT ![t] = r]

LEMMA FramePcs ==
  ASSUME NEW r \in Frame
  PROVE  /\ r.pc \in Early \cup {"compare", "accounts", "measure"} \cup Closing \cup Gates
         /\ r.pc \in {"orders", "book", "account"} => r \in Reading
         /\ r.pc = "assign" => r \in Asking
         /\ r.pc = "measure" => r \in Measuring
         /\ r.pc \in Closing => r \in Correcting
         /\ r.pc \in Gates => r \in Measuring \cup Correcting
         /\ r.pc \in {"idle", "compare", "accounts"} => r \in Plain
<1>1. CASE r \in Plain
  BY <1>1 DEF Plain, Early, Closing, Gates
<1>2. CASE r \in Reading
  BY <1>2 DEF Reading, Early, Closing, Gates
<1>3. CASE r \in Asking
  BY <1>3 DEF Asking, Early, Closing, Gates
<1>4. CASE r \in Measuring
  BY <1>4 DEF Measuring, Early, Closing, Gates
<1>5. CASE r \in Correcting
  BY <1>5 DEF Correcting, Early, Closing, Gates
<1> QED BY <1>1, <1>2, <1>3, <1>4, <1>5 DEF Frame

\* Another program point, nothing else.
AtPc(r, p) == [r EXCEPT !.pc = p]
LEMMA PlainGoes ==
  ASSUME NEW r \in Plain, NEW p \in {"idle", "compare", "accounts"}
  PROVE  AtPc(r, p) \in Frame /\ AtPc(r, p).pc = p
  BY DEF Plain, AtPc, Frame
LEMMA ReadingGoes ==
  ASSUME NEW r \in Reading, NEW p \in {"orders", "book", "account"}
  PROVE  AtPc(r, p) \in Frame /\ AtPc(r, p).pc = p
  BY DEF Reading, AtPc, Frame
LEMMA MeasuringGoes ==
  ASSUME NEW r \in Measuring, NEW p \in Gates
  PROVE  AtPc(r, p) \in Frame /\ AtPc(r, p).pc = p /\ AtPc(r, p).frozen = r.frozen
  BY DEF Measuring, AtPc, Frame
LEMMA CorrectingGoes ==
  ASSUME NEW r \in Correcting, NEW p \in Closing \cup Gates
  PROVE  /\ AtPc(r, p) \in Frame /\ AtPc(r, p).pc = p /\ AtPc(r, p).frozen = r.frozen
         /\ AtPc(r, p).row = r.row /\ AtPc(r, p).reference = r.reference
<1>1. AtPc(r, p) \in Correcting
  BY DEF Correcting, AtPc
<1> QED BY <1>1 DEF Correcting, AtPc, Frame

LEMMA Going ==
  ASSUME ThreadTypes, NEW t \in Thread, NEW p, Goto(t, p)
  PROVE  Becomes(t, AtPc(thread[t], p))
  BY DEF Goto, Becomes, AtPc, ThreadTypes

LEMMA GatesGo ==
  ASSUME NEW r \in Frame, r.pc \in Gates, NEW p \in Gates
  PROVE  AtPc(r, p) \in Frame /\ AtPc(r, p).pc = p /\ AtPc(r, p).frozen = r.frozen
  BY FramePcs, MeasuringGoes, CorrectingGoes

LEMMA IdleFrame == Idle \in Frame /\ Idle.pc = "idle"
  BY DEF Idle, Frame, Plain

LEMMA ThreadBecomes ==
  ASSUME ThreadTypes, NEW t \in Thread, NEW r \in Frame, Becomes(t, r)
  PROVE  /\ thread' \in [Thread -> Frame] /\ thread'[t] = r
         /\ \A u \in Thread \ {t} : thread'[u] = thread[u]
  BY DEF ThreadTypes, Becomes

\* With a snapshot that is as it was, or the new one of a thread.
LEMMA ThreadTypesKept ==
  ASSUME ThreadTypes, NEW t \in Thread, NEW r \in Frame, Becomes(t, r),
         snapshot' = snapshot \/ snapshot'.cash \in Int,
         r.pc \notin Early => snapshot'.cash \in Int
  PROVE  ThreadTypes'
<1>1. /\ thread' \in [Thread -> Frame] /\ thread'[t] = r
      /\ \A u \in Thread \ {t} : thread'[u] = thread[u]
  BY ThreadBecomes
<1>2. ASSUME NEW u \in Thread  PROVE Taken(thread[u].pc)'
  <2>1. CASE u = t
    BY <1>1, <2>1 DEF Taken
  <2>2. CASE u # t
    BY <1>1, <2>2 DEF Taken, ThreadTypes
  <2> QED BY <2>1, <2>2
<1> QED BY <1>1, <1>2 DEF ThreadTypes

LEMMA SnapshotTaken ==
  ASSUME ThreadTypes, NEW t \in Thread, thread[t].pc \notin Early
  PROVE  snapshot.cash \in Int
  BY DEF ThreadTypes, Taken

\* The store and the world as they are.
LEMMA StoreStill == StoreTypes /\ UNCHANGED store => StoreTypes'
  BY DEF StoreTypes, store
LEMMA WorldStill == WorldTypes /\ UNCHANGED <<broker, bounds>> => WorldTypes'
  BY DEF WorldTypes, bounds

LEMMA BeginTypes == ASSUME Types, NEW t \in Thread, Begin(t)  PROVE Types'
<1> DEFINE r == [pc |-> "orders", seen |-> {}]
<1>1. r \in Frame /\ r.pc \in Early
  BY DEF Frame, Reading, Early
<1>2. Becomes(t, r) /\ snapshot' = snapshot
  BY DEF Begin, Becomes
<1>3. ThreadTypes'
  BY <1>1, <1>2, ThreadTypesKept DEF Types
<1> QED BY <1>3, StoreStill, WorldStill DEF Types, Begin

LEMMA OrdersTypes == ASSUME Types, NEW t \in Thread, Orders(t)  PROVE Types'
<1> DEFINE r == [pc |-> "book", seen |-> Filled(broker)]
<1>1. r \in Frame /\ r.pc \in Early
  BY DEF Frame, Reading, Early, Filled
<1>2. Becomes(t, r) /\ snapshot' = snapshot
  BY DEF Orders, Becomes
<1>3. ThreadTypes'
  BY <1>1, <1>2, ThreadTypesKept DEF Types
<1> QED BY <1>3, StoreStill, WorldStill DEF Types, Orders

LEMMA BookTypes == ASSUME Types, NEW t \in Thread, Book(t)  PROVE Types'
<1>1. thread[t] \in Reading
  BY FramePcs DEF Types, ThreadTypes, Book, At
<1>2. order' \in [Order -> OrderState] /\ fills' \in Seq(Order)
  <2>1. CASE \E o \in thread[t].seen : /\ order' = [order EXCEPT ![o] = "booked"]
                                       /\ fills' = Append(fills, o)
    <3>1. PICK o \in Order : /\ order' = [order EXCEPT ![o] = "booked"]
                             /\ fills' = Append(fills, o)
      BY <1>1, <2>1 DEF Reading
    <3> QED BY <3>1, AppendProperties DEF Types, StoreTypes, OrderState
  <2>2. CASE /\ order' = [o \in Order |-> IF order[o] = "unresolved" THEN "sent" ELSE order[o]]
             /\ UNCHANGED fills
    BY <2>2 DEF Types, StoreTypes, OrderState
  <2> QED BY <2>1, <2>2 DEF Book
<1>3. StoreTypes' /\ WorldTypes'
  BY <1>2, WorldStill DEF Types, StoreTypes, Book
<1>4. ThreadTypes'
  <2>1. CASE UNCHANGED thread
    BY <2>1 DEF Types, ThreadTypes, Taken, Book
  <2>2. CASE Goto(t, "account")
    <3>1. Becomes(t, AtPc(thread[t], "account"))
      BY <2>2, Going DEF Types
    <3>2. AtPc(thread[t], "account") \in Frame /\ AtPc(thread[t], "account").pc = "account"
      BY <1>1, ReadingGoes
    <3> QED BY <3>1, <3>2, ThreadTypesKept DEF Types, Early, Book
  <2> QED BY <2>1, <2>2 DEF Book
<1> QED BY <1>3, <1>4 DEF Types

LEMMA AccountTypes == ASSUME Types, NEW t \in Thread, Account(t)  PROVE Types'
<1> DEFINE r == [pc |-> "assign", value |-> broker]
<1>1. r \in Frame /\ r.pc \in Early
  BY DEF Frame, Asking, Early, Types, WorldTypes
<1>2. Becomes(t, r) /\ snapshot' = snapshot
  BY DEF Account, Becomes
<1>3. ThreadTypes'
  BY <1>1, <1>2, ThreadTypesKept DEF Types
<1> QED BY <1>3, StoreStill, WorldStill DEF Types, Account

LEMMA AssignTypes == ASSUME Types, NEW t \in Thread, Assign(t)  PROVE Types'
<1> DEFINE r == [pc |-> "compare"]
<1>1. r \in Frame
  BY DEF Frame, Plain
<1>2. thread[t] \in Asking
  BY FramePcs DEF Types, ThreadTypes, Assign, At
<1>3. Becomes(t, r) /\ snapshot'.cash \in Int
  BY <1>2 DEF Assign, Becomes, Asking, Broker
<1>4. ThreadTypes'
  BY <1>1, <1>3, ThreadTypesKept DEF Types
<1> QED BY <1>4, StoreStill, WorldStill DEF Types, Assign

\* A step that leaves all but the thread, the channel and the status alone.
LEMMA StepTypes ==
  ASSUME Types, NEW t \in Thread, NEW r \in Frame, Becomes(t, r),
         r.pc \notin Early => snapshot.cash \in Int,
         StoreTypes', UNCHANGED <<snapshot, broker, bounds>>
  PROVE  Types'
<1>1. ThreadTypes'
  BY ThreadTypesKept DEF Types
<1> QED BY <1>1, WorldStill DEF Types

LEMMA BlockTypes ==
  ASSUME Types, NEW t \in Thread, BlockChannel(t),
         UNCHANGED <<order, fills, recon, checkpoint, status, snapshot, broker, bounds>>
  PROVE  Types'
<1>1. StoreTypes' /\ Becomes(t, Idle)
  BY DEF Types, StoreTypes, BlockChannel, End, Becomes
<1> QED BY <1>1, IdleFrame, StepTypes DEF Early

LEMMA EndTypes ==
  ASSUME Types, NEW t \in Thread, End(t), UNCHANGED <<snapshot, broker, bounds>>, StoreTypes'
  PROVE  Types'
<1>1. Becomes(t, Idle)
  BY DEF End, Becomes
<1> QED BY <1>1, IdleFrame, StepTypes DEF Early

LEMMA CompareTypes == ASSUME Types, NEW t \in Thread, Compare(t)  PROVE Types'
<1>1. thread[t] \in Plain /\ snapshot.cash \in Int
  BY FramePcs, SnapshotTaken DEF Types, ThreadTypes, Compare, At, Early
<1>2. CASE Goto(t, "accounts") /\ UNCHANGED channel
  <2>1. StoreTypes' /\ UNCHANGED <<snapshot, broker, bounds>>
    BY <1>2 DEF Types, StoreTypes, Compare
  <2> QED BY <1>1, <1>2, <2>1, PlainGoes, Going, StepTypes DEF Types
<1>3. CASE BlockChannel(t)
  BY <1>3, BlockTypes DEF Compare
<1> QED BY <1>2, <1>3 DEF Compare

\* A sum is a number.
LEMMA NetInt == Net(Booked) \in Int
<1>1. Booked \subseteq Order /\ IsFiniteSet(Booked)
  BY FiniteAssumption, FS_Subset DEF Booked
<1> QED BY <1>1, SumInt, AmountAssumption DEF Net

LEMMA ReadAccountsTypes == ASSUME Types, NEW t \in Thread, ReadAccounts(t)  PROVE Types'
<1>1. snapshot.cash \in Int
  BY SnapshotTaken DEF Types, ReadAccounts, At, Early
<1>2. PICK c \in Int, f \in BOOLEAN : thread' = [thread EXCEPT ![t] =
                                        [pc |-> "measure", cash |-> c, frozen |-> f]]
  <2>1. Pool + Net(Booked) + recon.cash \in Int
    BY NetInt, AmountAssumption DEF Types, StoreTypes
  <2> QED BY <2>1 DEF ReadAccounts
<1>3. [pc |-> "measure", cash |-> c, frozen |-> f] \in Frame
  BY DEF Frame, Measuring
<1> QED BY <1>1, <1>2, <1>3, StepTypes, StoreStill DEF Becomes, Types, ReadAccounts

LEMMA BookingFrame ==
  ASSUME Types, NEW t \in Thread, thread[t] \in Measuring, snapshot.cash \in Int,
         NEW p \in Closing, NEW n \in Int
  PROVE  /\ Booking(t, p, n) \in Correcting
         /\ Len(fills) \in Nat
<1>1. Len(fills) \in Nat /\ checkpoint.row + 1 \in Nat
  BY LenProperties DEF Types, StoreTypes
<1>2. thread[t].frozen \in BOOLEAN
  BY DEF Measuring
<1> QED BY <1>1, <1>2 DEF Booking, Correcting, Reference

LEMMA DifferenceInt ==
  ASSUME Types, NEW t \in Thread, At(t, "measure")
  PROVE  /\ thread[t] \in Measuring /\ snapshot.cash \in Int /\ Difference(t) \in Int
         /\ Difference(t) = snapshot.cash - thread[t].cash
<1>1. thread[t] \in Measuring /\ snapshot.cash \in Int
  BY FramePcs, SnapshotTaken DEF Types, ThreadTypes, At, Early
<1> QED BY <1>1 DEF Difference, Measuring

LEMMA MeasureTypes == ASSUME Types, NEW t \in Thread, Measure(t)  PROVE Types'
<1>1. /\ thread[t] \in Measuring /\ snapshot.cash \in Int /\ Difference(t) \in Int
      /\ UNCHANGED <<snapshot, broker, bounds>>
  BY DifferenceInt DEF Measure
<1>2. StoreTypes'
  BY DEF Measure, Types, StoreTypes, StatusName
<1>3. CASE Goto(t, "require")
  BY <1>1, <1>2, <1>3, MeasuringGoes, Going, StepTypes DEF Types, Gates
<1>4. CASE \E p \in Closing, n \in Int : Becomes(t, Booking(t, p, n))
  BY <1>1, <1>2, <1>4, BookingFrame, StepTypes DEF Frame
<1>5. \/ Goto(t, "require")
      \/ Becomes(t, Booking(t, "checkpoint", 0)) \/ Becomes(t, Booking(t, "apply", Difference(t)))
  BY DEF Measure, Becomes
<1> QED BY <1>1, <1>3, <1>4, <1>5 DEF Closing

\* The reconciliation account as it was read.
WithBase(r, c) == [r EXCEPT !.pc = "write", !.base = c]
LEMMA BaseFrame ==
  ASSUME NEW r \in Correcting, NEW c \in Int
  PROVE  /\ WithBase(r, c) \in Frame /\ WithBase(r, c).pc = "write" /\ WithBase(r, c).base = c
         /\ WithBase(r, c).amount = r.amount /\ WithBase(r, c).row = r.row
         /\ WithBase(r, c).cash = r.cash /\ WithBase(r, c).reference = r.reference
<1>1. [r EXCEPT !.pc = "write"] \in Correcting
  BY DEF Correcting, Closing
<1>2. WithBase(r, c) = [[r EXCEPT !.pc = "write"] EXCEPT !.base = c]
  BY DEF WithBase, Correcting
<1>3. WithBase(r, c) \in Correcting
  BY <1>1, <1>2 DEF Correcting
<1> QED BY <1>3 DEF WithBase, Correcting, Frame

LEMMA ReadReconTypes == ASSUME Types, NEW t \in Thread, ReadRecon(t)  PROVE Types'
<1>1. thread[t] \in Correcting /\ snapshot.cash \in Int /\ recon.cash \in Int
  BY FramePcs, SnapshotTaken DEF Types, ThreadTypes, StoreTypes, ReadRecon, At, Closing, Early
<1>2. Becomes(t, WithBase(thread[t], recon.cash))
  BY DEF ReadRecon, Becomes, WithBase, Types, ThreadTypes
<1> QED BY <1>1, <1>2, BaseFrame, StepTypes, StoreStill DEF Types, ReadRecon

\* A row that explains the difference that r has measured.
RowOf(r) == [reference |-> r.reference, amount |-> r.amount]
WithRow(account, r) ==
  [account EXCEPT !.cash = r.base + r.amount, !.rows = @ \cup {RowOf(r)}]
LEMMA RowAdded ==
  ASSUME NEW account \in [open : BOOLEAN, cash : Int, rows : SUBSET Row], NEW r \in Correcting
  PROVE  /\ WithRow(account, r) \in [open : BOOLEAN, cash : Int, rows : SUBSET Row]
         /\ WithRow(account, r).cash = r.base + r.amount
         /\ WithRow(account, r).rows = account.rows \cup {RowOf(r)}
<1> DEFINE moved == [account EXCEPT !.cash = r.base + r.amount]
<1>1. r.base + r.amount \in Int /\ RowOf(r) \in Row
  BY DEF Correcting, Row, RowOf
<1>2. /\ moved \in [open : BOOLEAN, cash : Int, rows : SUBSET Row]
      /\ moved.cash = r.base + r.amount /\ moved.rows = account.rows
  BY <1>1
<1>3. WithRow(account, r) = [moved EXCEPT !.rows = account.rows \cup {RowOf(r)}]
  BY DEF WithRow
<1> HIDE DEF moved
<1> QED BY <1>1, <1>2, <1>3

LEMMA ApplyVarianceTypes == ASSUME Types, NEW t \in Thread, ApplyVariance(t)  PROVE Types'
<1>1. thread[t] \in Correcting /\ snapshot.cash \in Int
  BY FramePcs, SnapshotTaken DEF Types, ThreadTypes, ApplyVariance, At, Closing, Early
<1>2. recon' \in [open : BOOLEAN, cash : Int, rows : SUBSET Row]
  <2>1. recon' \in {recon, WithRow(recon, thread[t])}
    BY Zenon DEF ApplyVariance, WithRow, RowOf
  <2>2. recon \in [open : BOOLEAN, cash : Int, rows : SUBSET Row]
    BY DEF Types, StoreTypes
  <2> QED BY <1>1, <2>1, <2>2, RowAdded
<1>3. StoreTypes' /\ UNCHANGED <<snapshot, broker, bounds>> /\ Goto(t, "checkpoint")
  BY <1>2 DEF ApplyVariance, Types, StoreTypes
<1> QED BY <1>1, <1>3, CorrectingGoes, Going, StepTypes DEF Types, Closing

LEMMA WriteCheckpointTypes == ASSUME Types, NEW t \in Thread, WriteCheckpoint(t)  PROVE Types'
<1>1. thread[t] \in Correcting /\ snapshot.cash \in Int
  BY FramePcs, SnapshotTaken DEF Types, ThreadTypes, WriteCheckpoint, At, Closing, Early
<1>2. StoreTypes' /\ UNCHANGED <<snapshot, broker, bounds>> /\ Goto(t, "ok")
  BY <1>1 DEF WriteCheckpoint, Types, StoreTypes, Correcting
<1> QED BY <1>1, <1>2, CorrectingGoes, Going, StepTypes DEF Types, Closing

LEMMA WriteOKTypes == ASSUME Types, NEW t \in Thread, WriteOK(t)  PROVE Types'
<1>1. thread[t] \in Correcting /\ snapshot.cash \in Int
  BY FramePcs, SnapshotTaken DEF Types, ThreadTypes, WriteOK, At, Closing, Early
<1>2. StoreTypes' /\ UNCHANGED <<snapshot, broker, bounds>> /\ Goto(t, "require")
  BY DEF WriteOK, Types, StoreTypes, StatusName
<1> QED BY <1>1, <1>2, CorrectingGoes, Going, StepTypes DEF Types, Gates

\* A gate that lets the refresh pass.
LEMMA PassTypes ==
  ASSUME Types, NEW t \in Thread, thread[t].pc \in Gates, NEW p \in Gates, Goto(t, p),
         StoreTypes', UNCHANGED <<snapshot, broker, bounds>>
  PROVE  Types'
<1>1. thread[t] \in Frame /\ snapshot.cash \in Int
  BY SnapshotTaken DEF Types, ThreadTypes, Gates, Early
<1> QED BY <1>1, GatesGo, Going, StepTypes DEF Types

LEMMA RequireTypes == ASSUME Types, NEW t \in Thread, Require(t)  PROVE Types'
<1>1. CASE Goto(t, "settle") /\ UNCHANGED channel
  <2>1. StoreTypes'
    BY <1>1 DEF Require, Types, StoreTypes
  <2> QED BY <1>1, <2>1, PassTypes DEF Require, At, Gates
<1>2. CASE BlockChannel(t)
  BY <1>2, BlockTypes DEF Require
<1> QED BY <1>1, <1>2 DEF Require

LEMMA SettleTypes == ASSUME Types, NEW t \in Thread, Settle(t)  PROVE Types'
<1>1. CASE Goto(t, "gate") /\ channel' = "OK"
  <2>1. StoreTypes'
    BY <1>1 DEF Settle, Types, StoreTypes
  <2> QED BY <1>1, <2>1, PassTypes DEF Settle, At, Gates
<1>2. CASE BlockChannel(t)
  BY <1>2, BlockTypes DEF Settle
<1> QED BY <1>1, <1>2 DEF Settle

LEMMA GateTypes == ASSUME Types, NEW t \in Thread, Gate(t)  PROVE Types'
<1>1. StoreTypes'
  BY StoreStill DEF Gate, Types
<1> QED BY <1>1, PassTypes, EndTypes DEF Gate, At, Gates

LEMMA SendTypes == ASSUME Types, NEW t \in Thread, Send(t)  PROVE Types'
<1>1. StoreTypes'
  BY DEF Send, Types, StoreTypes, OrderState
<1>2. CASE UNCHANGED thread
  BY <1>1, <1>2, WorldStill DEF Types, ThreadTypes, Taken, Send
<1> QED BY <1>1, <1>2, EndTypes DEF Send

LEMMA WorldStepTypes ==
  ASSUME Types, \/ \E o \in Order : Decide(o) \/ Fill(o)
                \/ MoveForeign \/ OpenRecon
  PROVE  Types'
<1>1. ThreadTypes'
  BY DEF Decide, Fill, MoveForeign, OpenRecon, Types, ThreadTypes, Taken
<1>2. ASSUME NEW o \in Order, Decide(o)  PROVE StoreTypes' /\ WorldTypes'
  BY <1>2, WorldStill DEF Decide, Types, StoreTypes, OrderState
<1>3. ASSUME NEW o \in Order, Fill(o)  PROVE StoreTypes' /\ WorldTypes'
  <2>1. PICK fee \in Int : broker' = [cash |-> broker.cash + Change[o] - fee,
                                      fee |-> [broker.fee EXCEPT ![o] = fee]]
    BY <1>3, AmountAssumption DEF Fill
  <2>2. broker' \in Broker
    BY <2>1, AmountAssumption DEF Broker, Types, WorldTypes
  <2> QED BY <1>3, <2>2, StoreStill DEF Fill, Types, WorldTypes, bounds
<1>4. ASSUME MoveForeign  PROVE StoreTypes' /\ WorldTypes'
  BY <1>4, StoreStill, AmountAssumption DEF MoveForeign, Types, WorldTypes, Broker
<1>5. ASSUME OpenRecon  PROVE StoreTypes' /\ WorldTypes'
  BY <1>5, WorldStill DEF OpenRecon, Types, StoreTypes
<1> QED BY <1>1, <1>2, <1>3, <1>4, <1>5 DEF Types

LEMMA CrashTypes == ASSUME Types, Crash  PROVE Types'
<1>1. crashes' \in 0 .. MaxCrashes
  BY BoundAssumption DEF Crash, Types, WorldTypes
<1>2. ThreadTypes'
  BY IdleFrame DEF Crash, ThreadTypes, Taken, Early
<1> QED BY <1>1, <1>2, StoreStill DEF Crash, Types, WorldTypes

LEMMA NextTypes == Types /\ [Next]_vars => Types'
<1> SUFFICES ASSUME Types, [Next]_vars  PROVE Types'
  OBVIOUS
<1>1. ASSUME NEW t \in Thread, Step(t)  PROVE Types'
  BY <1>1, BeginTypes, OrdersTypes, BookTypes, AccountTypes, AssignTypes, CompareTypes,
     ReadAccountsTypes, MeasureTypes, ReadReconTypes, ApplyVarianceTypes, WriteCheckpointTypes,
     WriteOKTypes, RequireTypes, SettleTypes, GateTypes, SendTypes DEF Step
<1>2. CASE UNCHANGED vars
  BY <1>2 DEF vars, store, bounds, Types, StoreTypes, WorldTypes, ThreadTypes, Taken
<1> QED BY <1>1, <1>2, WorldStepTypes, CrashTypes DEF Next

LEMMA InitTypes == Init => Types
<1> SUFFICES ASSUME Init  PROVE Types
  OBVIOUS
<1>1. StoreTypes
  BY EmptySeq, AmountAssumption DEF Init, StoreTypes, OrderState, StatusName
<1>2. WorldTypes
  BY AmountAssumption, BoundAssumption DEF Init, WorldTypes, Broker
<1>3. ThreadTypes
  BY IdleFrame DEF Init, ThreadTypes, Taken, Early
<1> QED BY <1>1, <1>2, <1>3 DEF Types

\* With any number of refreshes at a time, and whatever fails.
THEOREM ReconciliationTypes == Spec => []Types
<1> QED BY InitTypes, NextTypes, PTL DEF Spec
-----------------------------------------------------------------------------
(* The fills table.                                                        *)

\* The fills are the booked orders, each once, and Futu has filled them.  The
\* order of a fill at Futu has been sent: Book finds it when its snapshot shows it.
FillsAreOrders ==
  /\ Booked = Range(fills)
  /\ \A i, j \in 1 .. Len(fills) : fills[i] = fills[j] => i = j
  /\ Booked \subseteq Filled(broker)
  /\ \A o \in Filled(broker) : order[o] \in {"sent", "unresolved", "booked"}

\* The checkpoint and the references of the variances name fills that are there.
MarksAreFills ==
  /\ checkpoint.row <= Len(fills)
  /\ \A row \in recon.rows : row.reference[2] <= Len(fills)

\* What a refresh relies on: the snapshot it books was Futu's, and the rows it
\* is about to mark exist.
Relies(r) ==
  /\ r.pc = "book" => r.seen \subseteq Filled(broker)
  /\ r.pc \in Closing => r.row <= Len(fills) /\ r.reference[2] <= Len(fills)
ThreadsRely == \A t \in Thread : Relies(thread[t])

Inv == Types /\ FillsAreOrders /\ MarksAreFills /\ ThreadsRely

LEMMA LenInt == Types => Len(fills) \in Nat /\ checkpoint.row \in Nat
  BY LenProperties DEF Types, StoreTypes

LEMMA RowParts ==
  ASSUME Types
  PROVE  \A row \in recon.rows : row \in Row /\ row.reference[2] \in Nat
  BY DEF Types, StoreTypes, Row, Reference

LEMMA FilledOrders == Types => Filled(broker) \subseteq Order /\ Booked \subseteq Order
  BY DEF Filled, Booked

\* What a refresh relies on stays true when more is filled and booked.
LEMMA StillRelies ==
  ASSUME Types, ThreadsRely, UNCHANGED thread, Len(fills') \in Nat, Len(fills) <= Len(fills'),
         Filled(broker) \subseteq Filled(broker)'
  PROVE  ThreadsRely'
<1>1. ASSUME NEW t \in Thread  PROVE Relies(thread[t])'
  <2>1. PICK r : r = thread[t] /\ r = thread'[t] /\ r \in Frame /\ Relies(r)
    BY DEF Types, ThreadTypes, ThreadsRely
  <2>2. r.pc \in Closing => r.row \in Nat /\ r.reference[2] \in Nat
    BY <2>1, FramePcs DEF Correcting, Reference
  <2>3. Relies(r)'
    BY <2>1, <2>2, LenInt DEF Relies
  <2> QED BY <2>1, <2>3
<1> QED BY <1>1 DEF ThreadsRely

\* A thread that goes on as r, with the orders, the fills and Futu as they are.
LEMMA GoesOn ==
  ASSUME Inv, NEW t \in Thread, NEW r \in Frame, Becomes(t, r), Relies(r),
         UNCHANGED <<fills, broker>>
  PROVE  ThreadsRely'
<1>1. /\ thread' \in [Thread -> Frame] /\ thread'[t] = r
      /\ \A u \in Thread \ {t} : thread'[u] = thread[u]
  BY ThreadBecomes DEF Inv, Types
<1>2. ASSUME NEW u \in Thread  PROVE Relies(thread[u])'
  <2>1. PICK q : q = thread'[u] /\ Relies(q)
    BY <1>1 DEF Inv, ThreadsRely
  <2> QED BY <2>1 DEF Relies, Filled
<1> QED BY <1>2 DEF ThreadsRely

LEMMA TableStill ==
  ASSUME Inv, UNCHANGED <<order, fills, broker>>
  PROVE  FillsAreOrders'
  BY DEF Inv, FillsAreOrders, Booked, Filled

LEMMA MarksStill ==
  ASSUME Inv, UNCHANGED <<fills, checkpoint>>, recon'.rows = recon.rows
  PROVE  MarksAreFills'
  BY DEF Inv, MarksAreFills

\* Most steps only move the thread.
LEMMA Moves ==
  ASSUME Inv, Types', NEW t \in Thread, NEW r \in Frame, Becomes(t, r), Relies(r),
         UNCHANGED <<order, fills, broker, recon, checkpoint>>
  PROVE  Inv'
  BY GoesOn, TableStill, MarksStill DEF Inv

LEMMA IdleRelies == Relies(Idle)
  BY DEF Relies, Idle, Closing

-----------------------------------------------------------------------------
(* The steps of a refresh.                                                 *)

\* Most of them rely on nothing afterwards.
LEMMA Leaves ==
  ASSUME Inv, Types', NEW t \in Thread, NEW r \in Frame, Becomes(t, r),
         r.pc # "book", r.pc \notin Closing,
         UNCHANGED <<order, fills, broker, recon, checkpoint>>
  PROVE  Inv'
  BY Moves DEF Relies

LEMMA EndsInv ==
  ASSUME Inv, Types', NEW t \in Thread, End(t),
         UNCHANGED <<order, fills, broker, recon, checkpoint>>
  PROVE  Inv'
<1>1. Becomes(t, Idle)
  BY DEF End, Becomes
<1> QED BY <1>1, IdleFrame, IdleRelies, Moves

LEMMA ReadsInv ==
  ASSUME Inv, NEW t \in Thread, Begin(t) \/ Orders(t) \/ Account(t) \/ Assign(t)
  PROVE  Inv'
<1>1. Types' /\ UNCHANGED <<order, fills, broker, recon, checkpoint>>
  BY BeginTypes, OrdersTypes, AccountTypes, AssignTypes
     DEF Inv, Begin, Orders, Account, Assign, store
<1>2. ASSUME NEW r, Becomes(t, r), Relies(r)  PROVE Inv'
  <2>1. r \in Frame
    BY <1>1, <1>2 DEF Inv, Types, ThreadTypes, Becomes
  <2> QED BY <1>1, <1>2, <2>1, Moves
<1>3. CASE Begin(t)
  BY <1>2, <1>3 DEF Begin, Becomes, Relies, Closing
<1>4. CASE Orders(t)
  <2> DEFINE r == [pc |-> "book", seen |-> Filled(broker)]
  <2>1. Becomes(t, r) /\ Relies(r)
    BY <1>4 DEF Orders, Becomes, Relies, Closing
  <2> QED BY <1>2, <2>1
<1>5. CASE Account(t)
  <2> DEFINE r == [pc |-> "assign", value |-> broker]
  <2>1. Becomes(t, r) /\ Relies(r)
    BY <1>5 DEF Account, Becomes, Relies, Closing
  <2> QED BY <1>2, <2>1
<1>6. CASE Assign(t)
  BY <1>2, <1>6 DEF Assign, Becomes, Relies, Closing
<1> QED BY <1>3, <1>4, <1>5, <1>6

\* A fill of the snapshot is booked.
LEMMA FillBooked ==
  ASSUME Inv, NEW o \in Filled(broker), order[o] \in {"sent", "unresolved"},
         order' = [order EXCEPT ![o] = "booked"], fills' = Append(fills, o),
         UNCHANGED <<broker, recon, checkpoint>>
  PROVE  FillsAreOrders' /\ MarksAreFills' /\ Len(fills') = Len(fills) + 1
<1>1. /\ o \in Order /\ Len(fills) \in Nat /\ fills \in Seq(Order)
      /\ order \in [Order -> OrderState]
  BY FilledOrders, LenInt DEF Inv, Types, StoreTypes
<1>2. Booked' = Booked \cup {o} /\ o \notin Booked
  BY <1>1 DEF Booked
<1>3. /\ Len(fills') = Len(fills) + 1 /\ fills'[Len(fills) + 1] = o
      /\ \A i \in 1 .. Len(fills) : fills'[i] = fills[i]
  BY <1>1, AppendProperties
<1>4. \A i \in 1 .. Len(fills) : fills[i] \in Booked
  BY <1>1 DEF Inv, FillsAreOrders, Range
<1>5. Booked' = Range(fills')
  <2>1. Range(fills) = {fills[i] : i \in 1 .. Len(fills)}
    BY <1>1 DEF Range
  <2>2. fills' \in Seq(Order)
    BY <1>1, AppendProperties
  <2>3. Range(fills') = {fills'[i] : i \in 1 .. Len(fills')}
    BY <2>2 DEF Range
  <2> QED BY <1>1, <1>2, <1>3, <2>1, <2>3 DEF Inv, FillsAreOrders
<1>6. \A i, j \in 1 .. Len(fills') : fills'[i] = fills'[j] => i = j
  BY <1>1, <1>2, <1>3, <1>4 DEF Inv, FillsAreOrders
<1>7. Booked' \subseteq Filled(broker)'
  BY <1>2 DEF Inv, FillsAreOrders, Filled
<1>8. \A p \in Filled(broker)' : order'[p] \in {"sent", "unresolved", "booked"}
  BY <1>1, FilledOrders DEF Inv, FillsAreOrders, Filled
<1>9. MarksAreFills'
  BY <1>1, <1>3, LenInt, RowParts DEF Inv, MarksAreFills
<1> QED BY <1>3, <1>5, <1>6, <1>7, <1>8, <1>9 DEF FillsAreOrders

LEMMA BookInv == ASSUME Inv, NEW t \in Thread, Book(t)  PROVE Inv'
<1>1. /\ Types' /\ thread[t] \in Reading /\ thread[t].pc = "book"
      /\ UNCHANGED <<recon, checkpoint, broker>>
  BY BookTypes, FramePcs DEF Inv, Types, ThreadTypes, Book, At
<1>2. thread[t].seen \subseteq Filled(broker)
  BY <1>1 DEF Inv, ThreadsRely, Relies
<1>3. CASE \E o \in thread[t].seen :
             /\ order[o] \in {"sent", "unresolved"}
             /\ order' = [order EXCEPT ![o] = "booked"] /\ fills' = Append(fills, o)
             /\ UNCHANGED thread
  <2>1. PICK o \in Filled(broker) :
             /\ order[o] \in {"sent", "unresolved"}
             /\ order' = [order EXCEPT ![o] = "booked"] /\ fills' = Append(fills, o)
             /\ UNCHANGED thread
    BY <1>2, <1>3
  <2>2. FillsAreOrders' /\ MarksAreFills' /\ Len(fills') = Len(fills) + 1
    BY <1>1, <2>1, FillBooked
  <2>3. ThreadsRely'
    BY <1>1, <2>1, <2>2, StillRelies, LenInt DEF Inv, Filled
  <2> QED BY <1>1, <2>2, <2>3 DEF Inv
<1>4. CASE /\ order' = [o \in Order |-> IF order[o] = "unresolved" THEN "sent" ELSE order[o]]
           /\ Goto(t, "account") /\ UNCHANGED fills
  <2>1. FillsAreOrders'
    <3>1. Booked' = Booked /\ Filled(broker)' = Filled(broker)
      BY <1>1, <1>4 DEF Booked, Filled
    <3>2. \A o \in Filled(broker) : order'[o] \in {"sent", "unresolved", "booked"}
      BY <1>4, FilledOrders DEF Inv, FillsAreOrders
    <3> QED BY <1>4, <3>1, <3>2 DEF Inv, FillsAreOrders
  <2>2. PICK r : Becomes(t, r) /\ r = AtPc(thread[t], "account")
    BY <1>4, Going DEF Inv, Types
  <2>3. r \in Frame /\ r.pc = "account"
    BY <1>1, <2>2, ReadingGoes
  <2>4. ThreadsRely'
    BY <1>1, <1>4, <2>2, <2>3, GoesOn DEF Relies, Closing
  <2> QED BY <1>1, <1>4, <2>1, <2>4, MarksStill DEF Inv
<1> QED BY <1>3, <1>4 DEF Book

LEMMA CompareInv == ASSUME Inv, NEW t \in Thread, Compare(t)  PROVE Inv'
<1>1. Types' /\ thread[t] \in Plain /\ UNCHANGED <<order, fills, broker, recon, checkpoint>>
  BY CompareTypes, FramePcs DEF Inv, Types, ThreadTypes, Compare, At
<1>2. CASE Goto(t, "accounts")
  <2>1. PICK r \in Frame : Becomes(t, r) /\ r.pc = "accounts"
    BY <1>1, <1>2, Going, PlainGoes DEF Inv, Types
  <2> QED BY <1>1, <2>1, Leaves DEF Closing
<1> QED BY <1>1, <1>2, EndsInv DEF Compare, BlockChannel

LEMMA ReadAccountsInv == ASSUME Inv, NEW t \in Thread, ReadAccounts(t)  PROVE Inv'
<1>1. Types' /\ UNCHANGED <<order, fills, broker, recon, checkpoint>>
  BY ReadAccountsTypes DEF Inv, ReadAccounts, store
<1>2. PICK r : Becomes(t, r) /\ r.pc = "measure"
  <2> DEFINE r == [pc |-> "measure", cash |-> Pool + Net(Booked) + recon.cash,
                   frozen |-> \E o \in Order : Change[o] < 0 /\ order[o] \notin {"none", "booked"}]
  <2>1. Becomes(t, r) /\ r.pc = "measure"
    BY DEF ReadAccounts, Becomes
  <2> QED BY <2>1
<1>3. r \in Frame
  BY <1>1, <1>2 DEF Inv, Types, ThreadTypes, Becomes
<1> QED BY <1>1, <1>2, <1>3, Leaves DEF Closing

LEMMA MeasureInv == ASSUME Inv, NEW t \in Thread, Measure(t)  PROVE Inv'
<1>1. Types' /\ UNCHANGED <<order, fills, broker, recon, checkpoint>>
  BY MeasureTypes DEF Inv, Measure
<1>2. PICK r : /\ Becomes(t, r)
               /\ r \in {AtPc(thread[t], "require"), Booking(t, "checkpoint", 0),
                         Booking(t, "apply", Difference(t))}
  BY Going DEF Measure, Becomes, Inv, Types
<1>3. r \in Frame
  BY <1>1, <1>2 DEF Inv, Types, ThreadTypes, Becomes
<1>4. Relies(r)
  <2>1. CASE r = AtPc(thread[t], "require")
    <3>1. r.pc = "require"
      BY <2>1, DifferenceInt, MeasuringGoes DEF Measure, Inv, Gates
    <3> QED BY <3>1 DEF Relies, Closing
  <2>2. CASE r \in {Booking(t, "checkpoint", 0), Booking(t, "apply", Difference(t))}
    <3>1. r.pc # "book" /\ r.row = Len(fills) /\ r.reference[2] = Len(fills)
      BY <2>2 DEF Booking
    <3> QED BY <3>1, LenInt DEF Relies, Inv
  <2> QED BY <1>2, <2>1, <2>2
<1> QED BY <1>1, <1>2, <1>3, <1>4, Moves

\* Before a booking and after it the marks of the refresh stay.
LEMMA Carries ==
  ASSUME Inv, NEW t \in Thread, thread[t].pc \in Closing, NEW p \in Closing \cup Gates
  PROVE  AtPc(thread[t], p) \in Frame /\ AtPc(thread[t], p).pc = p
         /\ Relies(AtPc(thread[t], p))
<1>1. /\ thread[t] \in Correcting /\ Relies(thread[t])
  BY FramePcs DEF Inv, Types, ThreadTypes, ThreadsRely
<1> QED BY <1>1, CorrectingGoes DEF Relies, Closing, Gates

LEMMA ReadReconInv == ASSUME Inv, NEW t \in Thread, ReadRecon(t)  PROVE Inv'
<1>1. /\ Types' /\ thread[t] \in Correcting /\ recon.cash \in Int /\ thread[t].pc \in Closing
      /\ UNCHANGED <<order, fills, broker, recon, checkpoint>>
  BY ReadReconTypes, FramePcs DEF Inv, Types, ThreadTypes, StoreTypes, ReadRecon, At, Closing,
     store
<1>2. PICK r \in Frame : /\ Becomes(t, r) /\ r.pc = "write" /\ r.row = thread[t].row
                         /\ r.reference = thread[t].reference
  <2>1. Becomes(t, WithBase(thread[t], recon.cash))
    BY DEF ReadRecon, Becomes, WithBase
  <2> QED BY <1>1, <2>1, BaseFrame
<1>3. Relies(r)
  BY <1>1, <1>2 DEF Inv, ThreadsRely, Relies
<1> QED BY <1>1, <1>2, <1>3, Moves

LEMMA ApplyVarianceInv == ASSUME Inv, NEW t \in Thread, ApplyVariance(t)  PROVE Inv'
<1>1. /\ Types' /\ thread[t] \in Correcting /\ thread[t].pc \in Closing
      /\ UNCHANGED <<order, fills, broker, checkpoint>> /\ Goto(t, "checkpoint")
  BY ApplyVarianceTypes, FramePcs DEF Inv, Types, ThreadTypes, ApplyVariance, At, Closing
<1>2. ThreadsRely'
  BY <1>1, Carries, Going, GoesOn DEF Inv, Types, Closing
<1>3. MarksAreFills'
  <2>1. recon' \in {recon, WithRow(recon, thread[t])}
    BY Zenon DEF ApplyVariance, WithRow, RowOf
  <2>2. recon'.rows \subseteq recon.rows \cup {RowOf(thread[t])}
    BY <1>1, <2>1, RowAdded DEF Inv, Types, StoreTypes
  <2>3. RowOf(thread[t]).reference[2] <= Len(fills)
    BY <1>1 DEF RowOf, Inv, ThreadsRely, Relies
  <2> QED BY <1>1, <2>2, <2>3 DEF Inv, MarksAreFills
<1> QED BY <1>1, <1>2, <1>3, TableStill DEF Inv

LEMMA WriteCheckpointInv == ASSUME Inv, NEW t \in Thread, WriteCheckpoint(t)  PROVE Inv'
<1>1. /\ Types' /\ thread[t].pc \in Closing /\ Goto(t, "ok")
      /\ UNCHANGED <<order, fills, broker, recon>> /\ checkpoint'.row = thread[t].row
  BY WriteCheckpointTypes DEF Inv, WriteCheckpoint, At, Closing
<1>2. ThreadsRely'
  BY <1>1, Carries, Going, GoesOn DEF Inv, Types, Closing
<1>3. MarksAreFills'
  BY <1>1 DEF Inv, MarksAreFills, ThreadsRely, Relies
<1> QED BY <1>1, <1>2, <1>3, TableStill DEF Inv

LEMMA WriteOKInv == ASSUME Inv, NEW t \in Thread, WriteOK(t)  PROVE Inv'
<1>1. /\ Types' /\ thread[t].pc \in Closing /\ Goto(t, "require")
      /\ UNCHANGED <<order, fills, broker, recon, checkpoint>>
  BY WriteOKTypes DEF Inv, WriteOK, At, Closing
<1> QED BY <1>1, Carries, Going, Moves DEF Inv, Types, Gates

LEMMA GatesInv ==
  ASSUME Inv, NEW t \in Thread, Require(t) \/ Settle(t) \/ Gate(t)
  PROVE  Inv'
<1>1. /\ Types' /\ thread[t].pc \in Gates /\ thread[t] \in Frame
      /\ UNCHANGED <<order, fills, broker, recon, checkpoint>>
  BY RequireTypes, SettleTypes, GateTypes
     DEF Inv, Types, ThreadTypes, Require, Settle, Gate, At, Gates, store
<1>2. (\E p \in Gates : Goto(t, p)) \/ End(t)
  BY DEF Require, Settle, Gate, BlockChannel, Gates
<1>3. ASSUME NEW p \in Gates, Goto(t, p)  PROVE Inv'
  <2>1. PICK r \in Frame : Becomes(t, r) /\ r.pc = p
    BY <1>1, <1>3, GatesGo, Going DEF Inv, Types
  <2> QED BY <1>1, <2>1, Leaves DEF Gates, Closing
<1> QED BY <1>1, <1>2, <1>3, EndsInv

-----------------------------------------------------------------------------
(* Orders that have no fill, and everything else.                          *)

LEMMA OtherOrder ==
  ASSUME Inv, NEW o \in Order, order[o] \in {"none", "pending"},
         NEW s \in {"none", "pending", "sent", "unresolved"}, order' = [order EXCEPT ![o] = s],
         UNCHANGED <<fills, broker>>
  PROVE  FillsAreOrders'
<1>1. order \in [Order -> OrderState]
  BY DEF Inv, Types, StoreTypes
<1>2. Booked' = Booked /\ Filled(broker)' = Filled(broker)
  BY <1>1 DEF Booked, Filled
<1>3. \A p \in Filled(broker) : order'[p] \in {"sent", "unresolved", "booked"}
  BY <1>1, FilledOrders DEF Inv, FillsAreOrders
<1> QED BY <1>2, <1>3 DEF Inv, FillsAreOrders

LEMMA SendInv == ASSUME Inv, NEW t \in Thread, Send(t)  PROVE Inv'
<1>1. Types' /\ UNCHANGED <<fills, recon, checkpoint, broker>>
  BY SendTypes DEF Inv, Send
<1>2. CASE End(t) /\ UNCHANGED order
  BY <1>1, <1>2, EndsInv
<1>3. CASE \E o \in Order, s \in {"sent", "unresolved", "none"} :
             order[o] = "pending" /\ order' = [order EXCEPT ![o] = s] /\ UNCHANGED thread
  <2>1. FillsAreOrders' /\ UNCHANGED thread
    BY <1>1, <1>3, OtherOrder
  <2>2. ThreadsRely'
    BY <1>1, <2>1, StillRelies, LenInt DEF Inv, Filled
  <2> QED BY <1>1, <2>1, <2>2, MarksStill DEF Inv
<1> QED BY <1>2, <1>3 DEF Send

LEMMA FillInv == ASSUME Inv, NEW o \in Order, Fill(o)  PROVE Inv'
<1>1. /\ Types' /\ UNCHANGED <<order, fills, recon, checkpoint, thread>>
      /\ order[o] \in {"sent", "unresolved"}
  BY WorldStepTypes DEF Inv, Fill, store
<1>2. Filled(broker)' = Filled(broker) \cup {o}
  <2>1. PICK fee \in Charges : broker' = [cash |-> broker.cash + Change[o] - fee,
                                         fee |-> [broker.fee EXCEPT ![o] = fee]]
    BY DEF Fill
  <2>2. fee # None /\ broker.fee \in [Order -> Int \cup {None}]
    BY AmountAssumption, NoneAssumption DEF Inv, Types, WorldTypes, Broker
  <2> QED BY <2>1, <2>2 DEF Filled
<1>3. Booked' = Booked
  BY <1>1 DEF Booked
<1>4. FillsAreOrders'
  BY <1>1, <1>2, <1>3 DEF Inv, FillsAreOrders
<1>5. ThreadsRely'
  BY <1>1, <1>2, StillRelies, LenInt DEF Inv
<1> QED BY <1>1, <1>4, <1>5, MarksStill DEF Inv

LEMMA WorldInv ==
  ASSUME Inv, (\E o \in Order : Decide(o)) \/ MoveForeign \/ OpenRecon
  PROVE  Inv'
<1>1. /\ Types' /\ UNCHANGED <<fills, checkpoint, thread>> /\ recon'.rows = recon.rows
      /\ broker'.fee = broker.fee
  BY WorldStepTypes
     DEF Inv, Types, WorldTypes, StoreTypes, Broker, Decide, MoveForeign, OpenRecon, store
<1>2. Filled(broker)' = Filled(broker)
  BY <1>1 DEF Filled
<1>3. ThreadsRely'
  BY <1>1, <1>2, StillRelies, LenInt DEF Inv
<1>4. FillsAreOrders'
  <2>1. CASE \E o \in Order : Decide(o)
    BY <2>1, OtherOrder DEF Decide
  <2>2. CASE UNCHANGED order
    BY <1>1, <1>2, <2>2 DEF Inv, FillsAreOrders, Booked
  <2> QED BY <2>1, <2>2 DEF MoveForeign, OpenRecon, store
<1> QED BY <1>1, <1>3, <1>4, MarksStill DEF Inv

LEMMA CrashInv == ASSUME Inv, Crash  PROVE Inv'
<1>1. Types' /\ UNCHANGED <<order, fills, recon, checkpoint, broker>>
  BY CrashTypes DEF Inv, Crash, store
<1>2. ThreadsRely'
  <2>1. \A t \in Thread : thread'[t] = Idle
    BY DEF Crash
  <2> QED BY <2>1 DEF ThreadsRely, Relies, Idle, Closing
<1> QED BY <1>1, <1>2, TableStill, MarksStill DEF Inv

LEMMA NextInv == Inv /\ [Next]_vars => Inv'
<1> SUFFICES ASSUME Inv, [Next]_vars  PROVE Inv'
  OBVIOUS
<1>1. ASSUME NEW t \in Thread, Step(t)  PROVE Inv'
  BY <1>1, ReadsInv, BookInv, CompareInv, ReadAccountsInv, MeasureInv, ReadReconInv,
     ApplyVarianceInv, WriteCheckpointInv, WriteOKInv, GatesInv, SendInv DEF Step
<1>2. CASE UNCHANGED vars
  <2>1. Types'
    BY <1>2, NextTypes DEF Inv
  <2>2. UNCHANGED <<order, fills, recon, checkpoint, broker, thread>>
    BY <1>2 DEF vars, store
  <2> QED BY <2>1, <2>2, TableStill, MarksStill, StillRelies, LenInt DEF Inv
<1>3. CASE \E o \in Order : Fill(o)
  BY <1>3, FillInv
<1> QED BY <1>1, <1>2, <1>3, WorldInv, CrashInv DEF Next

LEMMA InitInv == Init => Inv
<1> SUFFICES ASSUME Init  PROVE Inv
  OBVIOUS
<1>1. /\ Types /\ fills = <<>> /\ checkpoint.row = 0 /\ recon.rows = {} /\ Booked = {}
      /\ Filled(broker) = {}
  BY InitTypes DEF Init, Booked, Filled
<1>2. Len(fills) = 0 /\ Range(fills) = {}
  BY <1>1 DEF Range
<1>3. ThreadsRely
  BY DEF Init, ThreadsRely, Relies, Idle, Closing
<1> QED BY <1>1, <1>2, <1>3 DEF Inv, FillsAreOrders, MarksAreFills

\* Several refreshes may hold snapshots of different age and the process may die
\* at any point: the fills table lists every booked order exactly once, all of
\* them filled at Futu, and neither the checkpoint nor the reference of a booked
\* variance is ahead of it.
THEOREM FillsBookedOnce == Spec => [](FillsAreOrders /\ MarksAreFills)
<1>1. Inv => FillsAreOrders /\ MarksAreFills
  BY DEF Inv
<1> QED BY <1>1, InitInv, NextInv, PTL DEF Spec
=============================================================================
