-------------------------- MODULE PaperStoreProofs --------------------------
(* What every history of store methods preserves, for all accounts, plans, *)
(* prices and fee rates.  First, facts about SumFunctionOnSet(f, S), the   *)
(* sum of f[x] over a finite set S: cash, positions and fills are sums     *)
(* over intents and orders.  Induction over S is by a smallest             *)
(* counterexample: the finite sets are well-founded by strict inclusion,   *)
(* so a set of subsets of S that is not empty has a minimal element.       *)
EXTENDS PaperStore, FiniteSetTheorems, TLAPS

LEMMA MinimalSubset ==
  ASSUME NEW S, IsFiniteSet(S), NEW B, B \subseteq SUBSET S, B # {}
  PROVE  \E T \in B : \A U \in B : U \subseteq T => U = T
<1>1. IsWellFoundedOn(StrictSubsetOrdering(S), SUBSET S)
  BY FS_StrictSubsetOrderingWellFounded, FS_FiniteSubsetsOfFinite
<1>2. PICK T \in B : \A U \in B : <<U, T>> \notin StrictSubsetOrdering(S)
  BY <1>1, WFMin
<1> QED BY <1>2 DEF StrictSubsetOrdering
-----------------------------------------------------------------------------
(* The value of a sum: the terms are added in the order in which CHOOSE    *)
(* picks them.                                                             *)

Pick(s) == CHOOSE x \in s : TRUE
Adds(g, f, T) ==
  g = [s \in SUBSET T |-> IF s = {} THEN 0 ELSE f[Pick(s)] + g[s \ {Pick(s)}]]
Sum(f, T) == CHOOSE g : Adds(g, f, T)

LEMMA SumIs ==
  ASSUME NEW f, NEW S
  PROVE  SumFunctionOnSet(f, S) = Sum(f, S)[S]
  BY Zenon DEF SumFunctionOnSet, FoldFunctionOnSet, MapThenFoldSet, Adds, Pick, Sum

LEMMA Picks == ASSUME NEW s, s # {}  PROVE Pick(s) \in s
  BY DEF Pick

LEMMA AddsValue ==
  ASSUME NEW f, NEW T, NEW g, Adds(g, f, T), NEW s \in SUBSET T
  PROVE  g[s] = IF s = {} THEN 0 ELSE f[Pick(s)] + g[s \ {Pick(s)}]
<1> DEFINE h == [u \in SUBSET T |-> IF u = {} THEN 0 ELSE f[Pick(u)] + g[u \ {Pick(u)}]]
<1>1. h[s] = IF s = {} THEN 0 ELSE f[Pick(s)] + g[s \ {Pick(s)}]
  OBVIOUS
<1>2. g = h
  BY DEF Adds
<1> QED BY <1>1, <1>2, Zenon

\* Two functions that add up subsets agree where both are defined.
LEMMA AddsAgree ==
  ASSUME NEW f, NEW S, NEW T, IsFiniteSet(S), NEW g, NEW h, Adds(g, f, S), Adds(h, f, T)
  PROVE  \A s \in SUBSET S : s \subseteq T => g[s] = h[s]
<1> DEFINE Bad == {s \in SUBSET S : s \subseteq T /\ g[s] # h[s]}
<1>1. SUFFICES ASSUME Bad # {}  PROVE FALSE
  OBVIOUS
<1>2. PICK s \in Bad : \A u \in Bad : u \subseteq s => u = s
  <2>1. Bad \subseteq SUBSET S
    OBVIOUS
  <2> HIDE DEF Bad
  <2> QED BY <1>1, <2>1, MinimalSubset
<1>3. CASE s = {}
  BY <1>2, <1>3, AddsValue
<1>4. CASE s # {}
  <2> DEFINE u == s \ {Pick(s)}
  <2>1. Pick(s) \in s /\ u \subseteq s /\ u # s
    BY <1>4, Picks
  <2>2. u \notin Bad
    BY <1>2, <2>1
  <2>3. g[u] = h[u]
    BY <1>2, <2>1, <2>2
  <2>4. g[s] = f[Pick(s)] + g[u] /\ h[s] = f[Pick(s)] + h[u]
    BY <1>2, <1>4, AddsValue
  <2> QED BY <1>2, <2>3, <2>4
<1> QED BY <1>3, <1>4

\* Such a function exists.
LEMMA SumAdds ==
  ASSUME NEW f, NEW S, IsFiniteSet(S)
  PROVE  Adds(Sum(f, S), f, S)
<1> DEFINE Bad == {T \in SUBSET S : ~Adds(Sum(f, T), f, T)}
<1>1. SUFFICES ASSUME Bad # {}  PROVE FALSE
  OBVIOUS
<1>2. PICK T \in Bad : \A U \in Bad : U \subseteq T => U = T
  <2>1. Bad \subseteq SUBSET S
    OBVIOUS
  <2> HIDE DEF Bad
  <2> QED BY <1>1, <2>1, MinimalSubset
<1> DEFINE rest(s) == s \ {Pick(s)}
           G == [s \in SUBSET T |-> IF s = {} THEN 0 ELSE f[Pick(s)] + Sum(f, rest(s))[rest(s)]]
<1>3. ASSUME NEW s \in SUBSET T, s # {}  PROVE G[rest(s)] = Sum(f, rest(s))[rest(s)]
  <2> DEFINE u == rest(s)
             v == rest(u)
  <2>1. Pick(s) \in s /\ u \subseteq T /\ u # T /\ IsFiniteSet(u)
    BY <1>2, <1>3, Picks, FS_Subset
  <2>2. Adds(Sum(f, u), f, u)
    BY <1>2, <2>1
  <2>3. Sum(f, u)[u] = IF u = {} THEN 0 ELSE f[Pick(u)] + Sum(f, u)[v]
    <3>1. u \in SUBSET u /\ v = u \ {Pick(u)}
      OBVIOUS
    <3> HIDE DEF u, v
    <3> QED BY <2>2, <3>1, AddsValue
  <2>4. G[u] = IF u = {} THEN 0 ELSE f[Pick(u)] + Sum(f, v)[v]
    BY <2>1
  <2>5. ASSUME u # {}  PROVE Sum(f, u)[v] = Sum(f, v)[v]
    <3>1. v \subseteq u /\ v # T /\ v \subseteq T
      BY <2>1
    <3>2. Adds(Sum(f, v), f, v)
      BY <1>2, <3>1
    <3> HIDE DEF u, v
    <3> QED BY <2>1, <2>2, <3>1, <3>2, AddsAgree
  <2> HIDE DEF u, v, G
  <2>6. G[u] = Sum(f, u)[u]
    BY <2>3, <2>4, <2>5
  <2> QED BY <2>6 DEF u
<1>4. Adds(G, f, T)
  <2>1. \A s \in SUBSET T : (IF s = {} THEN 0 ELSE f[Pick(s)] + Sum(f, rest(s))[rest(s)])
                            = (IF s = {} THEN 0 ELSE f[Pick(s)] + G[rest(s)])
    BY <1>3
  <2>2. G = [s \in SUBSET T |-> IF s = {} THEN 0 ELSE f[Pick(s)] + G[rest(s)]]
    BY <2>1
  <2> QED BY <2>2 DEF Adds
<1>5. Adds(Sum(f, T), f, T)
  BY <1>4, Zenon DEF Sum
<1> QED BY <1>2, <1>5

LEMMA SumEmpty ==
  ASSUME NEW f, NEW S, \A x \in S : FALSE
  PROVE  SumFunctionOnSet(f, S) = 0
<1>1. S = {} /\ IsFiniteSet(S)
  <2>1. S = {}
    OBVIOUS
  <2> QED BY <2>1, FS_EmptySet
<1>2. Adds(Sum(f, S), f, S) /\ S \in SUBSET S
  BY <1>1, SumAdds
<1>3. Sum(f, S)[S] = 0
  BY <1>1, <1>2, AddsValue
<1> QED BY <1>3, SumIs

LEMMA SumPick ==
  ASSUME NEW f, NEW S, IsFiniteSet(S), S # {}
  PROVE  SumFunctionOnSet(f, S) = f[Pick(S)] + SumFunctionOnSet(f, S \ {Pick(S)})
<1> DEFINE r == S \ {Pick(S)}
<1>1. IsFiniteSet(r) /\ r \subseteq S /\ S \in SUBSET S /\ r \in SUBSET r
  BY FS_Subset
<1>2. Adds(Sum(f, S), f, S) /\ Adds(Sum(f, r), f, r)
  BY <1>1, SumAdds
<1>3. Sum(f, S)[r] = Sum(f, r)[r]
  <2> HIDE DEF r
  <2>1. \A s \in SUBSET S : s \subseteq r => Sum(f, S)[s] = Sum(f, r)[s]
    BY <1>2, AddsAgree
  <2> QED BY <1>1, <2>1
<1>4. Sum(f, S)[S] = f[Pick(S)] + Sum(f, S)[r]
  BY <1>1, <1>2, AddsValue
<1>5. SumFunctionOnSet(f, S) = Sum(f, S)[S] /\ SumFunctionOnSet(f, r) = Sum(f, r)[r]
  <2> HIDE DEF r
  <2> QED BY SumIs
<1> QED BY <1>3, <1>4, <1>5
-----------------------------------------------------------------------------
(* What sums add up to.                                                    *)

LEMMA SumInt ==
  ASSUME NEW f, NEW S, IsFiniteSet(S), \A x \in S : f[x] \in Int
  PROVE  SumFunctionOnSet(f, S) \in Int
<1> DEFINE Bad == {T \in SUBSET S : SumFunctionOnSet(f, T) \notin Int}
<1>1. SUFFICES ASSUME Bad # {}  PROVE FALSE
  OBVIOUS
<1>2. PICK T \in Bad : \A U \in Bad : U \subseteq T => U = T
  <2>1. Bad \subseteq SUBSET S
    OBVIOUS
  <2> HIDE DEF Bad
  <2> QED BY <1>1, <2>1, MinimalSubset
<1>3. IsFiniteSet(T) /\ T \subseteq S
  BY <1>2, FS_Subset
<1>4. T # {}
  BY <1>2, SumEmpty
<1>5. Pick(T) \in T /\ SumFunctionOnSet(f, T \ {Pick(T)}) \in Int
  BY <1>2, <1>4, Picks
<1>6. SumFunctionOnSet(f, T) = f[Pick(T)] + SumFunctionOnSet(f, T \ {Pick(T)})
  BY <1>3, <1>4, SumPick
<1> QED BY <1>2, <1>3, <1>5, <1>6

LEMMA SumNat ==
  ASSUME NEW f, NEW S, IsFiniteSet(S), \A x \in S : f[x] \in Nat
  PROVE  SumFunctionOnSet(f, S) \in Nat
<1> DEFINE Bad == {T \in SUBSET S : SumFunctionOnSet(f, T) \notin Nat}
<1>1. SUFFICES ASSUME Bad # {}  PROVE FALSE
  OBVIOUS
<1>2. PICK T \in Bad : \A U \in Bad : U \subseteq T => U = T
  <2>1. Bad \subseteq SUBSET S
    OBVIOUS
  <2> HIDE DEF Bad
  <2> QED BY <1>1, <2>1, MinimalSubset
<1>3. IsFiniteSet(T) /\ T \subseteq S
  BY <1>2, FS_Subset
<1>4. T # {}
  BY <1>2, SumEmpty
<1>5. Pick(T) \in T /\ SumFunctionOnSet(f, T \ {Pick(T)}) \in Nat
  BY <1>2, <1>4, Picks
<1>6. SumFunctionOnSet(f, T) = f[Pick(T)] + SumFunctionOnSet(f, T \ {Pick(T)})
  BY <1>3, <1>4, SumPick
<1> QED BY <1>2, <1>3, <1>5, <1>6

\* The order of the terms does not matter.
LEMMA SumRemove ==
  ASSUME NEW f, NEW S, IsFiniteSet(S), \A x \in S : f[x] \in Int, NEW e \in S
  PROVE  SumFunctionOnSet(f, S) = f[e] + SumFunctionOnSet(f, S \ {e})
<1> DEFINE Total(T) == SumFunctionOnSet(f, T)
           Bad == {T \in SUBSET S : \E x \in T : Total(T) # f[x] + Total(T \ {x})}
<1>1. SUFFICES ASSUME Bad # {}  PROVE FALSE
  OBVIOUS
<1>2. PICK T \in Bad : \A U \in Bad : U \subseteq T => U = T
  <2>1. Bad \subseteq SUBSET S
    OBVIOUS
  <2> HIDE DEF Bad
  <2> QED BY <1>1, <2>1, MinimalSubset
<1>3. PICK x \in T : Total(T) # f[x] + Total(T \ {x})
  BY <1>2
<1> DEFINE p == Pick(T)
           u == (T \ {p}) \ {x}
<1>4. IsFiniteSet(T) /\ IsFiniteSet(u) /\ T \subseteq S /\ p \in T
  BY <1>2, <1>3, FS_Subset, Picks
<1>5. Total(T) = f[p] + Total(T \ {p})
  BY <1>3, <1>4, SumPick
<1>6. p # x
  BY <1>3, <1>5
<1>7. Total(T \ {p}) = f[x] + Total(u)
  <2>1. T \ {p} \notin Bad /\ T \ {p} \in SUBSET S /\ x \in T \ {p}
    BY <1>2, <1>4, <1>6
  <2> QED BY <2>1
<1>8. Total(T \ {x}) = f[p] + Total(u)
  <2>1. T \ {x} \notin Bad /\ T \ {x} \in SUBSET S /\ p \in T \ {x}
    BY <1>2, <1>3, <1>4, <1>6
  <2>2. (T \ {x}) \ {p} = u
    OBVIOUS
  <2> QED BY <2>1, <2>2
<1>9. f[x] \in Int /\ f[p] \in Int /\ Total(u) \in Int
  BY <1>4, SumInt
<1> HIDE DEF Total, u, p
<1> QED BY <1>3, <1>5, <1>7, <1>8, <1>9

\* Only the values on the set count.
LEMMA SumSame ==
  ASSUME NEW f, NEW g, NEW S, IsFiniteSet(S), \A x \in S : f[x] = g[x]
  PROVE  SumFunctionOnSet(f, S) = SumFunctionOnSet(g, S)
<1> DEFINE Bad == {T \in SUBSET S : SumFunctionOnSet(f, T) # SumFunctionOnSet(g, T)}
<1>1. SUFFICES ASSUME Bad # {}  PROVE FALSE
  OBVIOUS
<1>2. PICK T \in Bad : \A U \in Bad : U \subseteq T => U = T
  <2>1. Bad \subseteq SUBSET S
    OBVIOUS
  <2> HIDE DEF Bad
  <2> QED BY <1>1, <2>1, MinimalSubset
<1>3. IsFiniteSet(T) /\ T \subseteq S
  BY <1>2, FS_Subset
<1>4. T # {}
  BY <1>2, SumEmpty
<1>5. Pick(T) \in T /\ SumFunctionOnSet(f, T \ {Pick(T)}) = SumFunctionOnSet(g, T \ {Pick(T)})
  BY <1>2, <1>4, Picks
<1>6. SumFunctionOnSet(f, T) = f[Pick(T)] + SumFunctionOnSet(f, T \ {Pick(T)})
  BY <1>3, <1>4, SumPick
<1>7. SumFunctionOnSet(g, T) = g[Pick(T)] + SumFunctionOnSet(g, T \ {Pick(T)})
  BY <1>3, <1>4, SumPick
<1> QED BY <1>2, <1>3, <1>5, <1>6, <1>7

\* One term changes.
LEMMA SumChange ==
  ASSUME NEW f, NEW g, NEW S, IsFiniteSet(S), NEW e \in S,
         \A x \in S : f[x] \in Int, \A x \in S : g[x] \in Int,
         \A x \in S \ {e} : f[x] = g[x]
  PROVE  SumFunctionOnSet(g, S) = SumFunctionOnSet(f, S) + g[e] - f[e]
<1>1. IsFiniteSet(S \ {e})
  BY FS_Subset
<1>2. SumFunctionOnSet(f, S \ {e}) = SumFunctionOnSet(g, S \ {e})
  BY <1>1, SumSame
<1>3. SumFunctionOnSet(f, S) = f[e] + SumFunctionOnSet(f, S \ {e})
  BY SumRemove
<1>4. SumFunctionOnSet(g, S) = g[e] + SumFunctionOnSet(g, S \ {e})
  BY SumRemove
<1>5. SumFunctionOnSet(f, S \ {e}) \in Int
  BY <1>1, SumInt
<1> QED BY <1>2, <1>3, <1>4, <1>5

\* Terms that are zero can be left out.
LEMMA SumZeros ==
  ASSUME NEW f, NEW S, IsFiniteSet(S), \A x \in S : f[x] \in Int,
         NEW U \in SUBSET S, \A x \in S \ U : f[x] = 0
  PROVE  SumFunctionOnSet(f, S) = SumFunctionOnSet(f, U)
<1> DEFINE Total(T) == SumFunctionOnSet(f, T)
           Bad == {T \in SUBSET S : U \subseteq T /\ Total(T) # Total(U)}
<1>1. SUFFICES ASSUME Bad # {}  PROVE FALSE
  OBVIOUS
<1>2. PICK T \in Bad : \A V \in Bad : V \subseteq T => V = T
  <2>1. Bad \subseteq SUBSET S
    OBVIOUS
  <2> HIDE DEF Bad
  <2> QED BY <1>1, <2>1, MinimalSubset
<1>3. PICK x \in T : x \notin U
  BY <1>2
<1>4. IsFiniteSet(T) /\ IsFiniteSet(T \ {x}) /\ T \subseteq S /\ f[x] = 0
  BY <1>2, <1>3, FS_Subset
<1>5. Total(T \ {x}) = Total(U)
  BY <1>2, <1>3
<1>6. Total(T) = f[x] + Total(T \ {x})
  BY <1>4, SumRemove
<1>7. Total(T \ {x}) \in Int
  BY <1>4, SumInt
<1> HIDE DEF Total
<1> QED BY <1>2, <1>4, <1>5, <1>6, <1>7

\* Only an intent that was inserted has an order.
BlankRows == \A i \in Intent : intent[i].status = "NONE" => intent[i].order = None

\* An order never books more than its intent asks for.
FillsWithinOrders ==
  \A o \in OrderId : order[o] # None => order[o].filled <= Leg[order[o].intent].quantity

\* The inductive invariant.
StoreInv ==
  /\ StoreTypeOK /\ BlankRows /\ OrdersBelongToOneIntent /\ FillsWithinOrders
  /\ BalancesNonNegative /\ OneDecisionPerSignalDate

\* The step moves cash and frozen cash of a against each other or together with
\* the ledger, and frozen cash by x more than the ledger says.
DriftsBy(a, x) ==
  /\ account'[a].quantity - ledger'[a].quantity = account[a].quantity - ledger[a].quantity
  /\ account'[a].cash + account'[a].frozen - ledger'[a].cash - ledger'[a].frozen
       = account[a].cash + account[a].frozen - ledger[a].cash - ledger[a].frozen
  /\ account'[a].frozen - ledger'[a].frozen = account[a].frozen - ledger[a].frozen + x
\* The step keeps the ledger as near to the balances as it was.
LedgerKept == \A a \in Account : DriftsBy(a, 0)

\* Rounding the reservation of a batch once, and leg by leg.
Issued(d) == \A i \in LegsOf(d) : Created(i)
BatchRounding(d) == BatchReserve(LegsOf(d)) - LedgerReserve(LegsOf(d))

-----------------------------------------------------------------------------
(* Arithmetic.                                                             *)

\* Rounding to the money grid gives a number, and no debt out of nothing.
LEMMA RoundInt ==
  ASSUME NEW n \in Int, NEW d \in Nat \ {0}
  PROVE  RoundHalfEven(n, d) \in Int /\ (n >= 0 => RoundHalfEven(n, d) >= 0)
  <1>1. n \div d \in Int /\ (n >= 0 => n \div d >= 0)
    OBVIOUS
  <1> QED
    BY <1>1 DEF RoundHalfEven

\* What an intent reserves, spends and earns are amounts of money.
LEMMA AmountTypes ==
  ASSUME NEW i \in Intent, NEW n \in Int
  PROVE  /\ Notional(i, n) \in Int /\ Reserve(i, n) \in Int
         /\ Fee(Notional(i, n)) \in Int
         /\ n >= 0 => Reserve(i, n) >= 0
  <1>1. Leg[i].price \in Nat \ {0}
    BY LegAssumption DEF LegType
  <1>2. Notional(i, n) \in Int /\ (n >= 0 => Notional(i, n) >= 0)
    <2>1. \A p \in Nat : p * n \in Int /\ (n >= 0 => p * n >= 0)
      OBVIOUS
    <2> QED
      BY <1>1, <2>1 DEF Notional
  <1>3. FeeDen \in Nat \ {0} /\ FeeNum \in Nat /\ FeeDen + FeeNum \in Nat
    BY FeeAssumption
  <1>4. Notional(i, n) * (FeeDen + FeeNum) \in Int
        /\ (n >= 0 => Notional(i, n) * (FeeDen + FeeNum) >= 0)
    <2>1. \A x \in Int : \A y \in Nat : x * y \in Int /\ (x >= 0 => x * y >= 0)
      OBVIOUS
    <2> QED
      BY <1>2, <1>3, <2>1
  <1>5. Notional(i, n) * FeeNum \in Int
    BY <1>2, <1>3
  <1> QED
    BY <1>2, <1>3, <1>4, <1>5, RoundInt DEF Reserve, Fee

\* A batch reserves an amount of money.
LEMMA BatchTypes ==
  ASSUME NEW I \in SUBSET Intent
  PROVE  BatchReserve(I) \in Nat /\ LedgerReserve(I) \in Nat
  <1> DEFINE amount == [i \in Intent |-> Notional(i, Leg[i].quantity) * (FeeDen + FeeNum)]
             reserve == [i \in Intent |-> Reserve(i, Leg[i].quantity)]
  <1>1. IsFiniteSet(Buys(I)) /\ Buys(I) \subseteq Intent
    BY FiniteAssumption, FS_Subset DEF Buys
  <1>2. \A i \in Intent : reserve[i] \in Nat /\ amount[i] \in Nat
    <2>1. ASSUME NEW i \in Intent  PROVE reserve[i] \in Nat /\ amount[i] \in Nat
      <3>1. Leg[i].quantity \in Nat /\ Leg[i].price \in Nat
        BY LegAssumption DEF LegType
      <3>2. \A p, n \in Nat : p * n \in Nat
        OBVIOUS
      <3>3. Notional(i, Leg[i].quantity) \in Nat /\ FeeDen + FeeNum \in Nat
        BY <3>1, <3>2, FeeAssumption DEF Notional
      <3> QED
        BY <3>1, <3>2, <3>3, AmountTypes
    <2> QED
      BY <2>1
  <1> HIDE DEF amount, reserve
  <1>3. SumFunctionOnSet(amount, Buys(I)) \in Nat /\ SumFunctionOnSet(reserve, Buys(I)) \in Nat
    BY <1>1, <1>2, SumNat
  <1>4. /\ BatchReserve(I) = RoundHalfEven(SumFunctionOnSet(amount, Buys(I)), FeeDen)
        /\ LedgerReserve(I) = SumFunctionOnSet(reserve, Buys(I))
    BY DEF BatchReserve, LedgerReserve, amount, reserve
  <1> QED
    BY <1>3, <1>4, RoundInt, FeeAssumption

-----------------------------------------------------------------------------
(* Rows that a step may replace.                                           *)

\* What two rows of an intent may have in common: the reservation, the review.
SameReserve(new, row) == new.generation = row.generation /\ new.released = row.released
SameReview(new, row) == new.attention = row.attention /\ new.resolved = row.resolved

\* What two rows of an account may have in common: the money, the switches.
SameMoneyRow(new, row) ==
  new.cash = row.cash /\ new.frozen = row.frozen /\ new.quantity = row.quantity
SameSwitches(new, row) ==
  new.health = row.health /\ new.error = row.error /\ new.paused = row.paused

\* Moving money and lots keeps a row of an account well typed ...
LEMMA MovedAccount ==
  ASSUME NEW row \in AccountRow, NEW c \in Int, NEW f \in Int, NEW q \in Int
  PROVE  LET new == Moved(row, c, f, q)
         IN  /\ new \in AccountRow /\ new.cash = row.cash + c
             /\ new.frozen = row.frozen + f /\ new.quantity = row.quantity + q
             /\ SameSwitches(new, row)
  <1> USE DEF SameSwitches
  <1> DEFINE r1 == [row EXCEPT !.cash = @ + c]
             r2 == [r1 EXCEPT !.frozen = @ + f]
             r3 == [r2 EXCEPT !.quantity = @ + q]
  <1>1. r1 \in AccountRow /\ r1.frozen = row.frozen /\ r1.quantity = row.quantity
        /\ r1.cash = row.cash + c /\ SameSwitches(r1, row)
    BY DEF AccountRow
  <1>4. Moved(row, c, f, q) = r3
    BY Zenon DEF Moved
  <1> HIDE DEF r1
  <1>2. r2 \in AccountRow /\ r2.quantity = row.quantity /\ r2.cash = row.cash + c
        /\ r2.frozen = row.frozen + f /\ SameSwitches(r2, row)
    BY <1>1 DEF AccountRow
  <1> HIDE DEF r2
  <1>3. r3 \in AccountRow /\ r3.quantity = row.quantity + q /\ r3.cash = row.cash + c
        /\ r3.frozen = row.frozen + f /\ SameSwitches(r3, row)
    BY <1>2 DEF AccountRow
  <1> HIDE DEF r3
  <1> QED
    BY <1>3, <1>4

\* ... and of the sums of its ledger.
LEMMA MovedLedger ==
  ASSUME NEW row \in LedgerRow, NEW c \in Int, NEW f \in Int, NEW q \in Int
  PROVE  LET new == Moved(row, c, f, q)
         IN  /\ new \in LedgerRow /\ new.cash = row.cash + c
             /\ new.frozen = row.frozen + f /\ new.quantity = row.quantity + q
  <1> DEFINE r1 == [row EXCEPT !.cash = @ + c]
             r2 == [r1 EXCEPT !.frozen = @ + f]
             r3 == [r2 EXCEPT !.quantity = @ + q]
  <1>1. r1 \in LedgerRow /\ r1.frozen = row.frozen /\ r1.quantity = row.quantity
        /\ r1.cash = row.cash + c
    BY DEF LedgerRow
  <1>4. Moved(row, c, f, q) = r3
    BY Zenon DEF Moved
  <1> HIDE DEF r1
  <1>2. r2 \in LedgerRow /\ r2.quantity = row.quantity /\ r2.cash = row.cash + c
        /\ r2.frozen = row.frozen + f
    BY <1>1 DEF LedgerRow
  <1> HIDE DEF r2
  <1>3. r3 \in LedgerRow /\ r3.quantity = row.quantity + q /\ r3.cash = row.cash + c
        /\ r3.frozen = row.frozen + f
    BY <1>2 DEF LedgerRow
  <1> HIDE DEF r3
  <1> QED
    BY <1>3, <1>4

\* Setting the health of an account leaves its money and its pause alone.
LEMMA HealthRow ==
  ASSUME NEW row \in AccountRow, NEW h \in {"READY", "OK", "BLOCKED"}, NEW e \in Error
  PROVE  LET new == WithHealth(h, e, row)
         IN  /\ new \in AccountRow /\ new.cash = row.cash
             /\ new.frozen = row.frozen /\ new.quantity = row.quantity
             /\ new.health = h /\ new.error = e /\ new.paused = row.paused
  <1> DEFINE r1 == [row EXCEPT !.health = h]
             r2 == [r1 EXCEPT !.error = e]
  <1>1. r1 \in AccountRow /\ SameMoneyRow(r1, row) /\ r1.health = h /\ r1.paused = row.paused
    BY DEF AccountRow, SameMoneyRow
  <1>3. WithHealth(h, e, row) = r2
    BY Zenon DEF WithHealth
  <1> HIDE DEF r1
  <1>2. r2 \in AccountRow /\ SameMoneyRow(r2, r1) /\ r2.health = h /\ r2.error = e
        /\ r2.paused = row.paused
    BY <1>1 DEF AccountRow, SameMoneyRow
  <1> HIDE DEF r2
  <1> QED
    BY <1>1, <1>2, <1>3 DEF SameMoneyRow

\* The marks of review leave the rest of an intent alone.
LEMMA ResolvedRow ==
  ASSUME NEW row \in IntentRow, NEW b \in BOOLEAN, NEW r \in BOOLEAN
  PROVE  LET new == [row EXCEPT !.attention = b, !.resolved = r]
         IN  /\ new \in IntentRow /\ new.status = row.status /\ new.order = row.order
             /\ new.attention = b /\ new.resolved = r /\ SameReserve(new, row)
  <1> DEFINE r1 == [row EXCEPT !.attention = b]
             r2 == [r1 EXCEPT !.resolved = r]
  <1>0. [row EXCEPT !.attention = b, !.resolved = r] = r2
    BY Zenon
  <1>1. r1 \in IntentRow /\ r1.status = row.status /\ r1.order = row.order
        /\ r1.attention = b /\ SameReserve(r1, row)
    BY DEF IntentRow, SameReserve
  <1> HIDE DEF r1
  <1>2. r2 \in IntentRow /\ r2.status = row.status /\ r2.order = row.order
        /\ r2.attention = b /\ r2.resolved = r /\ SameReserve(r2, row)
    BY <1>1 DEF IntentRow, SameReserve
  <1> HIDE DEF r2
  <1> QED
    BY <1>0, <1>2

\* The same for an intent that is held for review.
LEMMA ReviewRow ==
  ASSUME NEW row \in IntentRow, NEW b \in BOOLEAN, NEW w \in Reason
  PROVE  LET new == [row EXCEPT !.attention = b, !.reason = w]
         IN  /\ new \in IntentRow /\ new.status = row.status /\ new.order = row.order
             /\ new.attention = b /\ new.resolved = row.resolved /\ SameReserve(new, row)
  <1> DEFINE r1 == [row EXCEPT !.attention = b]
             r2 == [r1 EXCEPT !.reason = w]
  <1>0. [row EXCEPT !.attention = b, !.reason = w] = r2
    BY Zenon
  <1>1. r1 \in IntentRow /\ r1.status = row.status /\ r1.order = row.order
        /\ r1.attention = b /\ r1.resolved = row.resolved /\ SameReserve(r1, row)
    BY DEF IntentRow, SameReserve
  <1> HIDE DEF r1
  <1>2. r2 \in IntentRow /\ r2.status = row.status /\ r2.order = row.order
        /\ r2.attention = b /\ r2.resolved = row.resolved /\ SameReserve(r2, row)
    BY <1>1 DEF IntentRow, SameReserve
  <1> HIDE DEF r2
  <1> QED
    BY <1>0, <1>2

\* Binding sets the status and the order of an intent.
LEMMA BoundRow ==
  ASSUME NEW row \in IntentRow, NEW s \in IntentStatus, NEW o \in OrderId
  PROVE  LET new == Bound(o, s, row)
         IN  /\ new \in IntentRow /\ new.status = s /\ new.order = o
             /\ SameReserve(new, row) /\ SameReview(new, row)
  <1> DEFINE r1 == [row EXCEPT !.status = s]
             r2 == [r1 EXCEPT !.order = o]
  <1>0. Bound(o, s, row) = r2
    BY Zenon DEF Bound
  <1>1. r1 \in IntentRow /\ r1.status = s /\ r1.order = row.order
        /\ SameReserve(r1, row) /\ SameReview(r1, row)
    BY DEF IntentRow, SameReserve, SameReview
  <1> HIDE DEF r1
  <1>2. r2 \in IntentRow /\ r2.status = s /\ r2.order = o
        /\ SameReserve(r2, row) /\ SameReview(r2, row)
    BY <1>1 DEF IntentRow, SameReserve, SameReview
  <1> HIDE DEF r2
  <1> QED
    BY <1>0, <1>2

\* Queueing an expired intent again.
LEMMA QueuedRow ==
  ASSUME NEW row \in IntentRow, NEW i \in Intent
  PROVE  LET new == Queued(i, row)
         IN  /\ new \in IntentRow /\ new.status = Requeued(i) /\ new.order = row.order
             /\ new.attention = FALSE /\ new.resolved = TRUE /\ new.released = row.released
             /\ new.generation = IF Leg[i].side = "BUY" THEN row.generation + 1
                                                         ELSE row.generation
  <1> DEFINE g == IF Leg[i].side = "BUY" THEN row.generation + 1 ELSE row.generation
             Like(r) == /\ r \in IntentRow /\ r.status = Requeued(i) /\ r.order = row.order
                        /\ r.released = row.released
             r1 == [row EXCEPT !.status = Requeued(i)]
             r2 == [r1 EXCEPT !.attention = FALSE]
             r3 == [r2 EXCEPT !.reason = "none"]
             r4 == [r3 EXCEPT !.resolved = TRUE]
             r5 == [r4 EXCEPT !.generation = g]
  <1>a. Requeued(i) \in IntentStatus
    BY DEF Requeued, IntentStatus, Unsent
  <1>b. row.generation \in Nat
    BY DEF IntentRow
  <1>c. g \in Nat
    BY <1>b
  <1>d. Queued(i, row) = [r4 EXCEPT !.generation = IF Leg[i].side = "BUY" THEN @ + 1 ELSE @]
    BY Zenon DEF Queued
  <1>1. Like(r1) /\ r1.generation = row.generation
    BY <1>a DEF IntentRow
  <1> HIDE DEF r1
  <1>2. Like(r2) /\ r2.generation = row.generation /\ r2.attention = FALSE
    BY <1>1 DEF IntentRow
  <1> HIDE DEF r2
  <1>3. Like(r3) /\ r3.generation = row.generation /\ r3.attention = FALSE
    BY <1>2 DEF IntentRow, Reason
  <1> HIDE DEF r3
  <1>4. Like(r4) /\ r4.generation = row.generation /\ r4.attention = FALSE
        /\ r4.resolved = TRUE
    BY <1>3 DEF IntentRow
  <1> HIDE DEF r4
  <1>e. Queued(i, row) = r5
    BY <1>d, <1>4
  <1> HIDE DEF g
  <1>5. Like(r5) /\ r5.generation = g /\ r5.attention = FALSE /\ r5.resolved = TRUE
    BY <1>4, <1>c DEF IntentRow
  <1> HIDE DEF r5
  <1> QED
    BY <1>e, <1>5 DEF g

\* Closing an intent.
IsClosed(new, i, s, row) ==
  /\ new \in IntentRow /\ new.status = s /\ new.order = row.order
  /\ (new.attention <=> s \in AttentionRequired) /\ new.resolved = FALSE
  /\ new.generation = row.generation
  /\ ReleaseAmount(i) > 0 => new.released = row.released \cup {row.generation}
  /\ ~(ReleaseAmount(i) > 0) => new.released = row.released
LEMMA ClosedRow ==
  ASSUME NEW row \in IntentRow, NEW i \in Intent, NEW s \in TerminalIntent, NEW why \in Reason
  PROVE  IsClosed(Closed(i, s, why, row), i, s, row)
  <1> DEFINE b == s \in AttentionRequired
             w == IF s \in AttentionRequired THEN why ELSE "none"
             g == IF ReleaseAmount(i) > 0 THEN row.released \cup {row.generation}
                                          ELSE row.released
             Like(r) == /\ r \in IntentRow /\ r.status = s /\ r.order = row.order
                        /\ r.generation = row.generation
             r1 == [row EXCEPT !.status = s]
             r2 == [r1 EXCEPT !.attention = b]
             r3 == [r2 EXCEPT !.reason = w]
             r4 == [r3 EXCEPT !.resolved = FALSE]
             r5 == [r4 EXCEPT !.released = g]
  <1>a. s \in IntentStatus
    BY DEF IntentStatus
  <1>b. b \in BOOLEAN
    OBVIOUS
  <1>c. w \in Reason
    BY DEF Reason
  <1>d. row.released \in SUBSET Nat /\ row.generation \in Nat
    BY DEF IntentRow
  <1>e. g \in SUBSET Nat
    BY <1>d
  <1>f. Closed(i, s, why, row) =
          [row EXCEPT !.status = s, !.attention = b, !.reason = w, !.resolved = FALSE,
                      !.released = IF ReleaseAmount(i) > 0 THEN @ \cup {row.generation} ELSE @]
    BY Zenon DEF Closed
  <1> HIDE DEF b, w
  <1>1. Like(r1) /\ r1.released = row.released
    BY <1>a DEF IntentRow
  <1> HIDE DEF r1
  <1>2. Like(r2) /\ r2.released = row.released /\ r2.attention = b
    BY <1>1, <1>b DEF IntentRow
  <1> HIDE DEF r2
  <1>3. Like(r3) /\ r3.released = row.released /\ r3.attention = b
    BY <1>2, <1>c DEF IntentRow
  <1> HIDE DEF r3
  <1>4. Like(r4) /\ r4.released = row.released /\ r4.attention = b /\ r4.resolved = FALSE
    BY <1>3 DEF IntentRow
  <1>g. Closed(i, s, why, row) = r5
    BY <1>f, <1>4, Zenon DEF r1, r2, r3
  <1> HIDE DEF r4, g
  <1>5. Like(r5) /\ r5.released = g /\ r5.attention = b /\ r5.resolved = FALSE
    BY <1>4, <1>e DEF IntentRow
  <1> HIDE DEF r5
  <1> QED
    BY <1>g, <1>5 DEF b, g, IsClosed

-----------------------------------------------------------------------------
(* A step of the store preserves the invariant.                            *)

\* Enough for a step that leaves the orders alone.
LEMMA SameOrders ==
  ASSUME StoreInv, StoreTypeOK', BalancesNonNegative', OneDecisionPerSignalDate',
         UNCHANGED order,
         \A i \in Intent : intent'[i].order = intent[i].order,
         \A i \in Intent : intent'[i].status = "NONE" => intent[i].order = None
  PROVE  StoreInv'
  <1>1. BlankRows'
    BY DEF BlankRows
  <1>2. \A o \in OrderId : order[o] # None => order[o].intent \in Intent
    BY DEF StoreInv, StoreTypeOK, OrderRow
  <1>3. OrdersBelongToOneIntent'
    BY <1>2 DEF StoreInv, OrdersBelongToOneIntent
  <1>4. FillsWithinOrders'
    BY DEF StoreInv, FillsWithinOrders
  <1> QED
    BY <1>1, <1>3, <1>4 DEF StoreInv

\* Enough for a step that writes orders, but binds none.
LEMMA SameOwners ==
  ASSUME StoreInv,
         \A p \in OrderId : order[p] # None =>
           order'[p] # None /\ order'[p].intent = order[p].intent,
         \A p \in OrderId : order[p] = None => order'[p] = None,
         \A k \in Intent : intent'[k].order = intent[k].order
  PROVE  OrdersBelongToOneIntent'
  <1>1. /\ \A p \in OrderId : order[p] # None => order[p].intent \in Intent
        /\ \A k \in Intent : intent[k].order # None => intent[k].order \in OrderId
    BY DEF StoreInv, StoreTypeOK, OrderRow, IntentRow
  <1>2. ASSUME NEW p \in OrderId, order'[p] # None
        PROVE  intent'[order'[p].intent].order = p
    <2>1. order[p] # None /\ order'[p].intent = order[p].intent
      BY <1>2
    <2> QED
      BY <1>1, <2>1 DEF StoreInv, OrdersBelongToOneIntent
  <1>3. ASSUME NEW k \in Intent, intent'[k].order # None
        PROVE  order'[intent'[k].order] # None /\ order'[intent'[k].order].intent = k
    <2> DEFINE p == intent[k].order
    <2>1. p \in OrderId /\ intent'[k].order = p
      BY <1>1, <1>3
    <2>2. order[p] # None /\ order[p].intent = k
      BY <1>3, <2>1 DEF StoreInv, OrdersBelongToOneIntent
    <2> QED
      BY <2>1, <2>2
  <1> QED
    BY <1>2, <1>3 DEF OrdersBelongToOneIntent

\* Enough for the ledger: a step that moves no money.
LEMMA SameMoney ==
  ASSUME StoreInv, UNCHANGED ledger,
         \A b \in Account : /\ account'[b].cash = account[b].cash
                            /\ account'[b].frozen = account[b].frozen
                            /\ account'[b].quantity = account[b].quantity
  PROVE  LedgerKept
  <1> SUFFICES ASSUME NEW b \in Account  PROVE DriftsBy(b, 0)
    BY DEF LedgerKept
  <1>1. account[b] \in AccountRow /\ ledger[b] \in LedgerRow
    BY DEF StoreInv, StoreTypeOK
  <1> QED
    BY <1>1 DEF DriftsBy, AccountRow, LedgerRow

\* Setting one status, under the guards of its callers.
LEMMA SetStatusInv ==
  ASSUME StoreInv, NEW i \in Intent, NEW s \in IntentStatus \ {"NONE"}, SetStatus(i, s)
  PROVE  StoreInv' /\ LedgerKept
  <1>1. intent \in [Intent -> IntentRow]
    BY DEF StoreInv, StoreTypeOK
  <1>2. \A j \in Intent : /\ intent'[j] \in IntentRow
                          /\ intent'[j].order = intent[j].order
                          /\ intent'[j].status = IF j = i THEN s ELSE intent[j].status
    BY <1>1 DEF SetStatus, IntentRow
  <1>3. intent' \in [Intent -> IntentRow]
    BY <1>1, <1>2 DEF SetStatus
  <1>4. StoreTypeOK' /\ BalancesNonNegative' /\ OneDecisionPerSignalDate' /\ UNCHANGED order
    BY <1>3 DEF SetStatus, StoreInv, StoreTypeOK, BalancesNonNegative, OneDecisionPerSignalDate
  <1>5. \A j \in Intent : intent'[j].status = "NONE" => intent[j].order = None
    BY <1>2 DEF StoreInv, BlankRows
  <1>6. LedgerKept
    BY SameMoney DEF SetStatus
  <1> QED
    BY <1>6, <1>2, <1>4, <1>5, SameOrders

\* A booking that overdraws nothing keeps the balances.
LEMMA BookInv ==
  ASSUME StoreInv, NEW a \in Account, NEW c \in Int, NEW f \in Int, NEW q \in Int,
         Book(a, c, f, q),
         account[a].cash + c >= 0, account[a].frozen + f >= 0, account[a].quantity + q >= 0
  PROVE  /\ account' \in [Account -> AccountRow] /\ ledger' \in [Account -> LedgerRow]
         /\ BalancesNonNegative' /\ LedgerKept
  <1> DEFINE A == Moved(account[a], c, f, q)
             L == Moved(ledger[a], c, f, q)
  <1>1. account \in [Account -> AccountRow] /\ ledger \in [Account -> LedgerRow]
    BY DEF StoreInv, StoreTypeOK
  <1>2. /\ A \in AccountRow /\ A.cash = account[a].cash + c
        /\ A.frozen = account[a].frozen + f /\ A.quantity = account[a].quantity + q
    BY <1>1, MovedAccount
  <1>3. /\ L \in LedgerRow /\ L.cash = ledger[a].cash + c
        /\ L.frozen = ledger[a].frozen + f /\ L.quantity = ledger[a].quantity + q
    BY <1>1, MovedLedger
  <1>4. account' = [account EXCEPT ![a] = A] /\ ledger' = [ledger EXCEPT ![a] = L]
    BY DEF Book
  <1> HIDE DEF A, L
  <1>5. account' \in [Account -> AccountRow] /\ ledger' \in [Account -> LedgerRow]
    BY <1>1, <1>2, <1>3, <1>4
  <1>6. ASSUME NEW b \in Account
        PROVE  account'[b].cash >= 0 /\ account'[b].frozen >= 0 /\ account'[b].quantity >= 0
    <2>1. CASE b = a
      BY <2>1, <1>1, <1>2, <1>4
    <2>2. CASE b # a
      BY <2>2, <1>1, <1>4 DEF StoreInv, BalancesNonNegative
    <2> QED
      BY <2>1, <2>2
  <1>7. ASSUME NEW b \in Account  PROVE DriftsBy(b, 0)
    <2>1. account[b] \in AccountRow /\ ledger[b] \in LedgerRow
      BY <1>1
    <2>2. CASE b = a
      BY <1>1, <1>2, <1>3, <1>4, <2>1, <2>2 DEF DriftsBy, AccountRow, LedgerRow
    <2>3. CASE b # a
      BY <1>1, <1>4, <2>1, <2>3 DEF DriftsBy, AccountRow, LedgerRow
    <2> QED
      BY <2>2, <2>3
  <1> QED
    BY <1>5, <1>6, <1>7 DEF BalancesNonNegative, LedgerKept

\* What an open intent would give back is an amount of money.
LEMMA ReleaseNat ==
  ASSUME StoreInv, NEW i \in Intent
  PROVE  ReleaseAmount(i) \in Nat
  <1>1. Leg[i].quantity \in Nat
    BY LegAssumption DEF LegType
  <1>2. Filled(i) \in Nat /\ Filled(i) <= Leg[i].quantity
    BY <1>1 DEF StoreInv, StoreTypeOK, IntentRow, OrderRow, OrdersBelongToOneIntent,
                FillsWithinOrders, Filled
  <1>3. Remaining(i) \in Nat
    BY <1>1, <1>2 DEF Remaining
  <1> QED
    BY <1>3, AmountTypes DEF ReleaseAmount

\* So is what a set of intents would give back.
LEMMA ReservedNat ==
  ASSUME StoreInv, NEW I \in SUBSET Intent
  PROVE  Reserved(I) \in Nat
  <1> DEFINE f == [i \in Intent |-> ReleaseAmount(i)]
  <1>1. IsFiniteSet(I) /\ \A i \in I : f[i] \in Nat
    BY FiniteAssumption, FS_Subset, ReleaseNat
  <1> HIDE DEF f
  <1>2. SumFunctionOnSet(f, I) \in Nat
    BY <1>1, SumNat
  <1> QED
    BY <1>2 DEF Reserved, f

LEMMA WithdrawnNat ==
  ASSUME StoreInv, NEW a \in Account
  PROVE  Withdrawn(a) \in Nat
  BY ReservedNat DEF Withdrawn, OpenIntents, IntentsOf

\* Releasing an intent.
LEMMA ReleaseInv ==
  ASSUME StoreInv, NEW i \in Intent, NEW s \in TerminalIntent, NEW why \in Reason,
         Release(i, s, why)
  PROVE  StoreInv' /\ LedgerKept
  <1> DEFINE a == Leg[i].account
             r == ReleaseAmount(i)
             R == Closed(i, s, why, intent[i])
  <1>1. a \in Account /\ r \in Nat
    BY LegAssumption, ReleaseNat DEF LegType
  <1>2. account \in [Account -> AccountRow] /\ intent \in [Intent -> IntentRow]
    BY DEF StoreInv, StoreTypeOK
  <1>3. CASE ~IsOpen(i)
    <2>1. UNCHANGED storeVars
      BY <1>3 DEF Release, storeVars
    <2>2. LedgerKept
      BY <2>1, SameMoney DEF storeVars
    <2> QED
      BY <2>1, <2>2 DEF storeVars, StoreInv, StoreTypeOK, BlankRows, OrdersBelongToOneIntent,
                        FillsWithinOrders, BalancesNonNegative, OneDecisionPerSignalDate
  <1>4. CASE IsOpen(i)
    <2>1. /\ Book(a, r, -r, 0) /\ intent' = [intent EXCEPT ![i] = R]
          /\ UNCHANGED <<decision, order>> /\ r <= account[a].frozen
      BY <1>4 DEF Release, ReleaseOK
    <2>2. R \in IntentRow /\ R.status = s /\ R.order = intent[i].order
      <3>1. intent[i] \in IntentRow
        BY <1>2
      <3>2. IsClosed(R, i, s, intent[i])
        BY <3>1, ClosedRow
      <3> HIDE DEF R
      <3> QED
        BY <3>2 DEF IsClosed
    <2> HIDE DEF a, r, R
    <2>3. /\ account[a].cash \in Int /\ account[a].frozen \in Int /\ account[a].quantity \in Int
          /\ account[a].cash >= 0 /\ account[a].quantity >= 0
      BY <1>1, <1>2 DEF AccountRow, StoreInv, BalancesNonNegative
    <2>. -r \in Int /\ account[a].cash + r >= 0 /\ account[a].frozen + (-r) >= 0
         /\ account[a].quantity + 0 >= 0
      BY <1>1, <2>1, <2>3
    <2>4. /\ account' \in [Account -> AccountRow] /\ ledger' \in [Account -> LedgerRow]
          /\ BalancesNonNegative' /\ LedgerKept
      BY <1>1, <2>1, BookInv
    <2>5. intent' \in [Intent -> IntentRow]
      BY <1>2, <2>1, <2>2
    <2>6. StoreTypeOK' /\ OneDecisionPerSignalDate'
      BY <2>1, <2>4, <2>5 DEF StoreInv, StoreTypeOK, OneDecisionPerSignalDate
    <2>7. \A k \in Intent : intent'[k].order = intent[k].order
      BY <1>2, <2>1, <2>2
    <2>8. s # "NONE"
      BY DEF TerminalIntent, TerminalOrder
    <2>9. \A k \in Intent : intent'[k].status = "NONE" => intent[k].order = None
      BY <1>2, <2>1, <2>2, <2>8 DEF StoreInv, BlankRows
    <2> QED
      BY <2>1, <2>4, <2>6, <2>7, <2>9, SameOrders
  <1> QED
    BY <1>3, <1>4

\* Queueing an expired intent again.
LEMMA RequeueInv ==
  ASSUME StoreInv, NEW i \in Intent, Requeue(i)
  PROVE  StoreInv' /\ LedgerKept
  <1> DEFINE a == Leg[i].account
             r == RequeueReserve(i)
             R == Queued(i, intent[i])
  <1>1. account \in [Account -> AccountRow] /\ intent \in [Intent -> IntentRow]
    BY DEF StoreInv, StoreTypeOK
  <1>2. Leg[i] \in LegType
    BY LegAssumption
  <1>3. a \in Account /\ Leg[i].quantity \in Nat
    BY <1>2 DEF LegType
  <1>4. r \in Nat
    BY <1>3, AmountTypes DEF RequeueReserve
  <1>5. Requeued(i) # "NONE"
    BY DEF Requeued
  <1>7. R \in IntentRow /\ R.status = Requeued(i) /\ R.order = intent[i].order
    BY <1>1, QueuedRow
  <1>8. /\ Book(a, -r, r, 0) /\ UNCHANGED <<decision, order>> /\ r <= account[a].cash
        /\ intent' = [intent EXCEPT ![i] = R]
    BY DEF Requeue, RequeueOK
  <1> HIDE DEF a, r, R
  <1>9. /\ account[a].cash \in Int /\ account[a].frozen \in Int /\ account[a].quantity \in Int
        /\ account[a].frozen >= 0 /\ account[a].quantity >= 0
    BY <1>1, <1>3 DEF AccountRow, StoreInv, BalancesNonNegative
  <1>10. /\ account' \in [Account -> AccountRow] /\ ledger' \in [Account -> LedgerRow]
         /\ BalancesNonNegative' /\ LedgerKept
    <2>1. -r \in Int /\ account[a].cash + (-r) >= 0 /\ account[a].frozen + r >= 0
          /\ account[a].quantity + 0 >= 0
      BY <1>4, <1>8, <1>9
    <2> QED
      BY <1>3, <1>4, <1>8, <2>1, BookInv
  <1>11. intent' \in [Intent -> IntentRow]
    BY <1>1, <1>7, <1>8
  <1>12. StoreTypeOK' /\ OneDecisionPerSignalDate'
    BY <1>8, <1>10, <1>11 DEF StoreInv, StoreTypeOK, OneDecisionPerSignalDate
  <1>13. \A k \in Intent : intent'[k].order = intent[k].order
    BY <1>1, <1>7, <1>8
  <1>14. \A k \in Intent : intent'[k].status = "NONE" => intent[k].order = None
    BY <1>1, <1>5, <1>7, <1>8 DEF StoreInv, BlankRows
  <1> QED
    BY <1>8, <1>10, <1>12, <1>13, <1>14, SameOrders

\* Acknowledging an intent.
LEMMA ResolveInv ==
  ASSUME StoreInv, NEW i \in Intent, Resolve(i)
  PROVE  StoreInv' /\ LedgerKept
  <1> DEFINE R == [intent[i] EXCEPT !.attention = FALSE, !.resolved = TRUE]
  <1>1. intent \in [Intent -> IntentRow]
    BY DEF StoreInv, StoreTypeOK
  <1>2. R \in IntentRow /\ R.status = intent[i].status /\ R.order = intent[i].order
    BY <1>1, ResolvedRow
  <1>3. intent' = [intent EXCEPT ![i] = R] /\ UNCHANGED <<account, decision, order, ledger>>
    BY Zenon DEF Resolve
  <1> HIDE DEF R
  <1>4. intent' \in [Intent -> IntentRow]
    BY <1>1, <1>2, <1>3
  <1>5. \A k \in Intent : intent'[k].order = intent[k].order /\ intent'[k].status = intent[k].status
    BY <1>1, <1>2, <1>3
  <1>6. StoreTypeOK' /\ BalancesNonNegative' /\ OneDecisionPerSignalDate'
    BY <1>3, <1>4 DEF StoreInv, StoreTypeOK, BalancesNonNegative, OneDecisionPerSignalDate
  <1>7. \A k \in Intent : intent'[k].status = "NONE" => intent[k].order = None
    BY <1>5 DEF StoreInv, BlankRows
  <1>8. LedgerKept
    BY <1>3, SameMoney
  <1> QED
    BY <1>8, <1>3, <1>5, <1>6, <1>7, SameOrders

\* Marking what earlier processes left without review.
LEMMA BackfillInv ==
  ASSUME StoreInv, Backfill
  PROVE  StoreInv' /\ LedgerKept
  <1> DEFINE late == {i \in Unreviewed : ~Retried(i)}
             Late(i) == [intent[i] EXCEPT !.attention = TRUE, !.reason = "gap"]
             Done(i) == [intent[i] EXCEPT !.resolved = TRUE]
             Stop(a) == WithHealth("BLOCKED", "gap", account[a])
  <1>1. account \in [Account -> AccountRow] /\ intent \in [Intent -> IntentRow]
    BY SMTT(30) DEF StoreInv, StoreTypeOK
  <1>2. \A i \in Intent : /\ Late(i) \in IntentRow /\ Late(i).order = intent[i].order
                          /\ Late(i).status = intent[i].status
    BY <1>1, ReviewRow DEF Reason
  <1>3. \A i \in Intent : /\ Done(i) \in IntentRow /\ Done(i).order = intent[i].order
                          /\ Done(i).status = intent[i].status
    <2> SUFFICES ASSUME NEW i \in Intent
                 PROVE  /\ Done(i) \in IntentRow /\ Done(i).order = intent[i].order
                        /\ Done(i).status = intent[i].status
      OBVIOUS
    <2>1. intent[i] \in IntentRow
      BY <1>1
    <2> QED
      BY <2>1 DEF IntentRow
  <1>4. \A a \in Account : /\ Stop(a) \in AccountRow /\ Stop(a).cash = account[a].cash
                           /\ Stop(a).frozen = account[a].frozen
                           /\ Stop(a).quantity = account[a].quantity
    BY <1>1, HealthRow DEF Error
  <1>5. /\ intent' = [i \in Intent |-> CASE i \in late -> Late(i)
                                        [] i \in Unreviewed \ late -> Done(i)
                                        [] OTHER -> intent[i]]
        /\ account' = [a \in Account |-> IF \E i \in late : Leg[i].account = a
                                          THEN Stop(a) ELSE account[a]]
        /\ UNCHANGED <<decision, order, ledger>>
    BY Zenon DEF Backfill
  <1> HIDE DEF late, Late, Done, Stop
  <1>6. \A i \in Intent : /\ intent'[i] \in IntentRow /\ intent'[i].order = intent[i].order
                          /\ intent'[i].status = intent[i].status
    BY <1>1, <1>2, <1>3, <1>5
  <1>7. \A a \in Account : /\ account'[a] \in AccountRow /\ account'[a].cash = account[a].cash
                           /\ account'[a].frozen = account[a].frozen
                           /\ account'[a].quantity = account[a].quantity
    BY <1>1, <1>4, <1>5
  <1>8. account' \in [Account -> AccountRow] /\ intent' \in [Intent -> IntentRow]
    BY <1>5, <1>6, <1>7
  <1>9. StoreTypeOK' /\ BalancesNonNegative' /\ OneDecisionPerSignalDate'
    BY <1>5, <1>7, <1>8 DEF StoreInv, StoreTypeOK, BalancesNonNegative, OneDecisionPerSignalDate
  <1>10. \A i \in Intent : intent'[i].status = "NONE" => intent[i].order = None
    BY <1>6 DEF StoreInv, BlankRows
  <1>11. LedgerKept
    BY <1>5, <1>7, SameMoney
  <1> QED
    BY <1>11, <1>5, <1>6, <1>9, <1>10, SameOrders


\* The health and the pause of an account leave its money alone.
LEMMA AccountInv ==
  ASSUME StoreInv, NEW a \in Account, NEW R \in AccountRow,
         R.cash = account[a].cash, R.frozen = account[a].frozen,
         R.quantity = account[a].quantity,
         account' = [account EXCEPT ![a] = R], UNCHANGED <<decision, intent, order, ledger>>
  PROVE  StoreInv' /\ LedgerKept
  <1>1. account \in [Account -> AccountRow]
    BY DEF StoreInv, StoreTypeOK
  <1>2. account' \in [Account -> AccountRow]
    BY <1>1
  <1>3. \A b \in Account : /\ account'[b].cash = account[b].cash
                           /\ account'[b].frozen = account[b].frozen
                           /\ account'[b].quantity = account[b].quantity
    BY <1>1
  <1>4. StoreTypeOK' /\ BalancesNonNegative' /\ OneDecisionPerSignalDate'
    BY <1>2, <1>3 DEF StoreInv, StoreTypeOK, BalancesNonNegative, OneDecisionPerSignalDate
  <1>5. LedgerKept
    BY <1>3, SameMoney
  <1> QED
    BY <1>5, <1>4, SameOrders DEF StoreInv, BlankRows

\* Binding an intent to its order.
LEMMA BindInv ==
  ASSUME StoreInv, NEW i \in Intent, NEW o \in OrderId, NEW s \in KnownOrder, Bind(i, o, s)
  PROVE  StoreInv' /\ LedgerKept
  <1> DEFINE R == Bound(o, s, intent[i])
             N == [intent |-> i, status |-> s, filled |-> 0]
             K == [order[o] EXCEPT !.status = s]
             O == IF order[o] = None THEN N ELSE K
  <1>1. intent \in [Intent -> IntentRow] /\ order \in [OrderId -> OrderRow \cup {None}]
    BY DEF StoreInv, StoreTypeOK
  <1>2. s \in IntentStatus /\ s # "NONE" /\ None \notin OrderId
    BY NoneAssumption DEF IntentStatus, KnownOrder, TerminalOrder, ActiveOrder
  <1>a. intent[i] \in IntentRow /\ s \in IntentStatus /\ o \in OrderId
    BY <1>1, <1>2
  <1>3. R \in IntentRow /\ R.status = s /\ R.order = o
    BY <1>a, BoundRow
  <1>4. N \in OrderRow /\ N.intent = i /\ N.filled = 0
    BY DEF OrderRow
  <1>5. ASSUME order[o] # None
        PROVE  K \in OrderRow /\ K.intent = order[o].intent /\ K.filled = order[o].filled
               /\ order[o].intent = i
    <2>1. order[o] \in OrderRow
      BY <1>1, <1>5
    <2> QED
      BY <1>5, <2>1 DEF OrderRow, Bind, BindOK
  <1>6. O \in OrderRow /\ O.intent = i
        /\ (order[o] = None => O.filled = 0) /\ (order[o] # None => O.filled = order[o].filled)
    BY <1>4, <1>5
  <1>7. /\ order' = [order EXCEPT ![o] = O] /\ intent' = [intent EXCEPT ![i] = R]
        /\ UNCHANGED <<account, decision, ledger>> /\ BindOK(i, o)
    BY Zenon DEF Bind
  <1>8. intent[i].order \in {None, o} /\ (order[o] # None => order[o].intent = i)
    BY <1>7 DEF BindOK
  <1>9. O # None
    BY <1>6, NoneAssumption
  <1> HIDE DEF R, N, K, O
  <1>10. order' \in [OrderId -> OrderRow \cup {None}] /\ intent' \in [Intent -> IntentRow]
    BY <1>1, <1>3, <1>6, <1>7
  <1>11. StoreTypeOK' /\ BalancesNonNegative' /\ OneDecisionPerSignalDate'
    BY <1>7, <1>10 DEF StoreInv, StoreTypeOK, BalancesNonNegative, OneDecisionPerSignalDate
  <1>12. BlankRows'
    BY <1>1, <1>2, <1>3, <1>7 DEF StoreInv, BlankRows
  <1>13. ASSUME NEW p \in OrderId, order'[p] # None
         PROVE  /\ intent'[order'[p].intent].order = p
                /\ order'[p].filled <= Leg[order'[p].intent].quantity
    <2>1. CASE p = o
      <3>1. order'[p] = O /\ intent'[i] = R
        BY <1>1, <1>7, <2>1
      <3>2. Leg[i].quantity \in Nat
        BY LegAssumption DEF LegType
      <3>3. order[o] # None => order[o].filled <= Leg[i].quantity
        BY <1>8 DEF StoreInv, FillsWithinOrders
      <3> QED
        BY <1>3, <1>6, <2>1, <3>1, <3>2, <3>3
    <2>2. CASE p # o
      <3>1. order'[p] = order[p] /\ order[p].intent \in Intent
        BY <1>1, <1>7, <1>13, <2>2 DEF OrderRow
      <3>2. intent[order[p].intent].order = p /\ order[p].filled <= Leg[order[p].intent].quantity
        BY <1>13, <3>1 DEF StoreInv, OrdersBelongToOneIntent, FillsWithinOrders
      <3>3. order[p].intent # i
        BY <1>2, <1>8, <2>2, <3>2
      <3>4. intent'[order[p].intent] = intent[order[p].intent]
        BY <1>1, <1>7, <3>1, <3>3
      <3> QED
        BY <3>1, <3>2, <3>4
    <2> QED
      BY <2>1, <2>2
  <1>14. ASSUME NEW k \in Intent, intent'[k].order # None
         PROVE  order'[intent'[k].order] # None /\ order'[intent'[k].order].intent = k
    <2>1. CASE k = i
      BY <1>1, <1>3, <1>6, <1>7, <1>9, <2>1
    <2>2. CASE k # i
      <3>1. intent'[k] = intent[k] /\ intent[k].order \in OrderId
        BY <1>1, <1>7, <1>14, <2>2 DEF IntentRow
      <3>2. order[intent[k].order] # None /\ order[intent[k].order].intent = k
        BY <1>14, <3>1 DEF StoreInv, OrdersBelongToOneIntent
      <3>3. intent[k].order # o
        BY <1>8, <2>2, <3>2
      <3> QED
        BY <1>1, <1>7, <3>1, <3>2, <3>3
    <2> QED
      BY <2>1, <2>2
  <1>15. LedgerKept
    BY <1>7, SameMoney
  <1> QED
    BY <1>15, <1>11, <1>12, <1>13, <1>14 DEF StoreInv, OrdersBelongToOneIntent, FillsWithinOrders

\* Booking a fill.
LEMMA ApplyFillInv ==
  ASSUME StoreInv, NEW o \in OrderId, NEW cum \in Nat, ApplyFill(o, cum)
  PROVE  StoreInv' /\ LedgerKept
  <1> DEFINE i == order[o].intent
             n == cum - order[o].filled
             a == Leg[i].account
             O == [order[o] EXCEPT !.filled = cum]
  <1>1. /\ order \in [OrderId -> OrderRow \cup {None}] /\ account \in [Account -> AccountRow]
        /\ order[o] # None
    BY DEF StoreInv, StoreTypeOK, ApplyFill
  <1>2. i \in Intent /\ order[o].filled \in Nat /\ n \in Int
    BY <1>1 DEF OrderRow
  <1>3. a \in Account /\ Leg[i].quantity \in Nat
    BY <1>2, LegAssumption DEF LegType
  <1>4. O \in OrderRow /\ O.intent = i /\ O.filled = cum /\ O # None
    <2>1. O \in OrderRow /\ O.intent = i /\ O.filled = cum
      BY <1>1 DEF OrderRow
    <2> QED
      BY <2>1, NoneAssumption
  <1>5. CASE n = 0
    <2>1. UNCHANGED storeVars
      BY <1>5 DEF ApplyFill, Increment, storeVars
    <2>2. LedgerKept
      BY <2>1, SameMoney DEF storeVars
    <2> QED
      BY <2>1, <2>2 DEF storeVars, StoreInv, StoreTypeOK, BlankRows, OrdersBelongToOneIntent,
                        FillsWithinOrders, BalancesNonNegative, OneDecisionPerSignalDate
  <1>6. CASE n # 0
    <2>1. /\ order' = [order EXCEPT ![o] = O] /\ UNCHANGED <<decision, intent>>
          /\ n > 0 /\ cum <= Leg[i].quantity
      BY <1>6 DEF ApplyFill, ApplyFillOK, Increment
    <2>2. /\ account[a].cash \in Int /\ account[a].frozen \in Int /\ account[a].quantity \in Int
          /\ account[a].cash >= 0 /\ account[a].frozen >= 0 /\ account[a].quantity >= 0
      BY <1>1, <1>3 DEF AccountRow, StoreInv, BalancesNonNegative
    <2>3. /\ BuyCash(i, n) \in Int /\ SellCash(i, n) \in Int /\ Reserve(i, n) \in Int
      BY <1>2, AmountTypes DEF BuyCash, SellCash
    <2>4. /\ account' \in [Account -> AccountRow] /\ ledger' \in [Account -> LedgerRow]
          /\ BalancesNonNegative' /\ LedgerKept
      <3>1. CASE Leg[i].side = "BUY"
        <4>1. Book(a, BuyCash(i, n), -Reserve(i, n), n)
          BY <1>6, <3>1 DEF ApplyFill, Increment
        <4>2. Reserve(i, n) <= account[a].frozen /\ account[a].cash + BuyCash(i, n) >= 0
          BY <1>6, <3>1 DEF ApplyFill, ApplyFillOK, Increment, FillBuyOK
        <4> HIDE DEF i, n, a
        <4>3. /\ -Reserve(i, n) \in Int /\ account[a].frozen + (-Reserve(i, n)) >= 0
              /\ account[a].quantity + n >= 0
          BY <1>2, <2>1, <2>2, <2>3, <4>2
        <4> QED
          BY <1>2, <1>3, <2>3, <4>1, <4>2, <4>3, BookInv
      <3>2. CASE Leg[i].side # "BUY"
        <4>1. Book(a, SellCash(i, n), 0, -n)
          BY <1>6, <3>2 DEF ApplyFill, Increment
        <4>2. n <= account[a].quantity /\ account[a].cash + SellCash(i, n) >= 0
          BY <1>6, <3>2 DEF ApplyFill, ApplyFillOK, Increment, FillSellOK
        <4> HIDE DEF i, n, a
        <4>3. -n \in Int /\ account[a].frozen + 0 >= 0 /\ account[a].quantity + (-n) >= 0
          BY <1>2, <2>2, <4>2
        <4> QED
          BY <1>3, <2>3, <4>1, <4>2, <4>3, BookInv
      <3> QED
        BY <3>1, <3>2
    <2> HIDE DEF O
    <2>5. order' \in [OrderId -> OrderRow \cup {None}]
      BY <1>1, <1>4, <2>1
    <2>6. StoreTypeOK' /\ OneDecisionPerSignalDate' /\ BlankRows'
      BY <2>1, <2>4, <2>5 DEF StoreInv, StoreTypeOK, OneDecisionPerSignalDate, BlankRows
    <2>7. \A p \in OrderId : order[p] # None =>
            order'[p] # None /\ order'[p].intent = order[p].intent
      BY <1>1, <1>4, <2>1
    <2>8. \A p \in OrderId : order[p] = None => order'[p] = None
      BY <1>1, <2>1
    <2>9. OrdersBelongToOneIntent'
      BY <2>1, <2>7, <2>8, SameOwners
    <2>10. FillsWithinOrders'
      BY <1>1, <1>4, <2>1 DEF StoreInv, FillsWithinOrders
    <2> QED
      BY <2>4, <2>6, <2>9, <2>10 DEF StoreInv
  <1> QED
    BY <1>5, <1>6

\* Noting the status of an order and, while it works, of its intent.
LEMMA ReportInv ==
  ASSUME StoreInv, NEW o \in OrderId, NEW s \in KnownOrder, Report(o, s)
  PROVE  StoreInv' /\ LedgerKept
  <1> DEFINE i == order[o].intent
             O == [order[o] EXCEPT !.status = s]
             R == [intent[i] EXCEPT !.status = s]
  <1>1. /\ order \in [OrderId -> OrderRow \cup {None}] /\ intent \in [Intent -> IntentRow]
        /\ order[o] # None
    BY DEF StoreInv, StoreTypeOK, Report
  <1>2. i \in Intent /\ s \in IntentStatus /\ s # "NONE"
    BY <1>1 DEF OrderRow, IntentStatus, KnownOrder, TerminalOrder, ActiveOrder
  <1>3. O \in OrderRow /\ O.intent = i /\ O.filled = order[o].filled /\ O # None
    <2>1. O \in OrderRow /\ O.intent = i /\ O.filled = order[o].filled
      BY <1>1 DEF OrderRow
    <2> QED
      BY <2>1, NoneAssumption
  <1>4. R \in IntentRow /\ R.status = s /\ R.order = intent[i].order
    BY <1>1, <1>2 DEF IntentRow
  <1>5. /\ order' = [order EXCEPT ![o] = O] /\ UNCHANGED <<account, decision, ledger>>
        /\ intent' = intent \/ intent' = [intent EXCEPT ![i] = R]
    BY DEF Report
  <1> HIDE DEF i, O, R
  <1>6. /\ order' \in [OrderId -> OrderRow \cup {None}] /\ intent' \in [Intent -> IntentRow]
        /\ \A k \in Intent : intent'[k].order = intent[k].order
        /\ \A k \in Intent : intent'[k].status = "NONE" => intent[k].status = "NONE"
    BY <1>1, <1>2, <1>3, <1>4, <1>5
  <1>7. StoreTypeOK' /\ BalancesNonNegative' /\ OneDecisionPerSignalDate' /\ BlankRows'
    BY <1>5, <1>6 DEF StoreInv, StoreTypeOK, BalancesNonNegative, OneDecisionPerSignalDate,
                      BlankRows
  <1>8. \A p \in OrderId : order[p] # None =>
          /\ order'[p] # None /\ order'[p].intent = order[p].intent
          /\ order'[p].filled = order[p].filled
    BY <1>1, <1>3, <1>5 DEF i
  <1>9. \A p \in OrderId : order[p] = None => order'[p] = None
    BY <1>1, <1>5
  <1>10. OrdersBelongToOneIntent'
    BY <1>6, <1>8, <1>9, SameOwners
  <1>11. FillsWithinOrders'
    BY <1>8, <1>9 DEF StoreInv, FillsWithinOrders
  <1>12. LedgerKept
    BY <1>5, SameMoney
  <1> QED
    BY <1>12, <1>7, <1>10, <1>11 DEF StoreInv

\* Saving a decision.
LEMMA SaveDecisionInv ==
  ASSUME StoreInv, NEW d \in Decision, SaveDecision(d)
  PROVE  StoreInv' /\ LedgerKept
  <1> DEFINE a == Plan[d].account
             R == [account[a] EXCEPT !.lastDecision = d]
  <1>1. /\ account \in [Account -> AccountRow] /\ a \in Account
        /\ decision \in [Decision -> {"NONE", "ACTIVE", "SUPERSEDED"}]
    BY PlanAssumption DEF StoreInv, StoreTypeOK
  <1>2. R \in AccountRow /\ R.cash = account[a].cash /\ R.frozen = account[a].frozen
        /\ R.quantity = account[a].quantity
    BY <1>1 DEF AccountRow
  <1>3. /\ account' = [account EXCEPT ![a] = R] /\ UNCHANGED <<intent, order, ledger>>
        /\ decision' = [decision EXCEPT ![d] = "ACTIVE"]
        /\ \A e \in Decision \ {d} : Plan[e] = Plan[d] => decision[e] # "ACTIVE"
    BY DEF SaveDecision, SaveDecisionOK
  <1> HIDE DEF a, R
  <1>4. account' \in [Account -> AccountRow]
    BY <1>1, <1>2, <1>3
  <1>5. BalancesNonNegative'
    BY <1>1, <1>2, <1>3 DEF StoreInv, BalancesNonNegative
  <1>6. OneDecisionPerSignalDate'
    BY <1>1, <1>3 DEF StoreInv, OneDecisionPerSignalDate
  <1>7. StoreTypeOK'
    BY <1>1, <1>3, <1>4 DEF StoreInv, StoreTypeOK
  <1>8. LedgerKept
    <2>1. \A b \in Account : /\ account'[b].cash = account[b].cash
                             /\ account'[b].frozen = account[b].frozen
                             /\ account'[b].quantity = account[b].quantity
      BY <1>1, <1>2, <1>3
    <2> QED
      BY <1>3, <2>1, SameMoney
  <1> QED
    BY <1>8, <1>3, <1>5, <1>6, <1>7, SameOrders DEF StoreInv, BlankRows

\* Storing the intents of a decision.
LEMMA CreateIntentsInv ==
  ASSUME StoreInv, NEW d \in Decision, CreateIntents(d)
  PROVE  /\ StoreInv'
         /\ \A b \in Account :
              DriftsBy(b, IF b = Plan[d].account /\ ~Issued(d) THEN BatchRounding(d) ELSE 0)
  <1> DEFINE a == Plan[d].account
             I == LegsOf(d)
             B == BatchReserve(I)
             W == LedgerReserve(I)
             A == Moved(account[a], -B, B, 0)
             L == Moved(ledger[a], -W, W, 0)
  <1>1. /\ account \in [Account -> AccountRow] /\ ledger \in [Account -> LedgerRow]
        /\ intent \in [Intent -> IntentRow] /\ a \in Account
    BY PlanAssumption DEF StoreInv, StoreTypeOK
  <1>2. B \in Nat /\ W \in Nat
    BY BatchTypes DEF LegsOf
  <1>3. CASE \A i \in I : Created(i)
    <2>1. UNCHANGED storeVars
      BY <1>3 DEF CreateIntents, storeVars
    <2>2. LedgerKept
      BY <2>1, SameMoney DEF storeVars
    <2>3. Issued(d)
      BY <1>3 DEF Issued
    <2> QED
      BY <2>1, <2>2, <2>3
      DEF storeVars, StoreInv, StoreTypeOK, BlankRows, OrdersBelongToOneIntent,
          FillsWithinOrders, BalancesNonNegative, OneDecisionPerSignalDate, LedgerKept
  <1>4. CASE ~(\A i \in I : Created(i))
    <2>1. /\ account' = [account EXCEPT ![a] = A] /\ ledger' = [ledger EXCEPT ![a] = L]
          /\ intent' = [i \in Intent |-> IF i \in I THEN NewIntent(i) ELSE intent[i]]
          /\ UNCHANGED <<decision, order>>
      BY <1>4 DEF CreateIntents
    <2>2. /\ \A i \in I : ~Created(i)
          /\ B <= account[a].cash
      BY <1>4 DEF CreateIntents, CreateOK
    <2>a. BatchRounding(d) = B - W /\ ~Issued(d) /\ a = Plan[d].account
      BY <1>4 DEF BatchRounding, Issued
    <2> HIDE DEF a, B, W
    <2>3. /\ account[a] \in AccountRow /\ ledger[a] \in LedgerRow
          /\ -B \in Int /\ B \in Int /\ -W \in Int /\ W \in Int /\ 0 \in Int
      BY <1>1, <1>2
    <2>4. /\ A \in AccountRow /\ A.cash = account[a].cash + (-B)
          /\ A.frozen = account[a].frozen + B /\ A.quantity = account[a].quantity + 0
      BY <2>3, MovedAccount
    <2>5. /\ L \in LedgerRow /\ L.cash = ledger[a].cash + (-W)
          /\ L.frozen = ledger[a].frozen + W /\ L.quantity = ledger[a].quantity + 0
      BY <2>3, MovedLedger
    <2>6. /\ account[a].cash \in Int /\ account[a].frozen \in Int /\ account[a].quantity \in Int
          /\ account[a].frozen >= 0 /\ account[a].quantity >= 0
      BY <1>1, <2>3 DEF AccountRow, StoreInv, BalancesNonNegative
    <2> HIDE DEF A, L, I
    <2>7. account' \in [Account -> AccountRow] /\ ledger' \in [Account -> LedgerRow]
      BY <1>1, <2>1, <2>4, <2>5
    <2>8. BalancesNonNegative'
      BY <1>1, <1>2, <2>1, <2>2, <2>4, <2>6 DEF StoreInv, BalancesNonNegative
    <2>9. \A i \in Intent : /\ NewIntent(i) \in IntentRow /\ NewIntent(i).order = None
                            /\ NewIntent(i).status # "NONE"
      BY DEF NewIntent, IntentRow, IntentStatus, Unsent, Reason
    <2>10. \A i \in Intent : /\ intent'[i] \in IntentRow /\ intent'[i].order = intent[i].order
                             /\ intent'[i].status = "NONE" => intent[i].order = None
      BY <1>1, <2>1, <2>2, <2>9 DEF StoreInv, BlankRows, Created
    <2>11. intent' \in [Intent -> IntentRow]
      BY <2>1, <2>10
    <2>12. StoreTypeOK' /\ OneDecisionPerSignalDate'
      BY <2>1, <2>7, <2>11 DEF StoreInv, StoreTypeOK, OneDecisionPerSignalDate
    <2>13. ASSUME NEW b \in Account
           PROVE  DriftsBy(b, IF b = a THEN B - W ELSE 0)
      <3>1. account[b] \in AccountRow /\ ledger[b] \in LedgerRow
        BY <1>1
      <3>2. CASE b = a
        BY <1>1, <1>2, <2>1, <2>4, <2>5, <3>1, <3>2 DEF DriftsBy, AccountRow, LedgerRow
      <3>3. CASE b # a
        BY <1>1, <2>1, <3>1, <3>3 DEF DriftsBy, AccountRow, LedgerRow
      <3> QED
        BY <3>2, <3>3
    <2>14. StoreInv'
      BY <2>1, <2>8, <2>10, <2>12, SameOrders
    <2> QED
      BY <2>a, <2>13, <2>14
  <1> QED
    BY <1>3, <1>4


\* Replacing a decision: the withdrawal of every open intent of the account and
\* the new intents move one amount each.
LEMMA SupersedeInv ==
  ASSUME StoreInv, NEW old \in Decision, NEW d \in Decision, Supersede(old, d)
  PROVE  /\ StoreInv'
         /\ \A b \in Account :
              DriftsBy(b, IF b = Plan[d].account /\ ~account[b].paused THEN BatchRounding(d) ELSE 0)
  <1> DEFINE a == Plan[d].account
             I == IF account[a].paused THEN {} ELSE LegsOf(d)
             B == IF account[a].paused THEN 0 ELSE BatchReserve(I)
             W == IF account[a].paused THEN 0 ELSE LedgerReserve(I)
             cash == Withdrawn(a) - B
             rows == Withdrawn(a) - W
             M == Moved(account[a], cash, -cash, 0)
             A == [M EXCEPT !.lastDecision = d]
             L == Moved(ledger[a], rows, -rows, 0)
             C(i) == Closed(i, "SUPERSEDED", "none", intent[i])
  <1>1. /\ account \in [Account -> AccountRow] /\ ledger \in [Account -> LedgerRow]
        /\ intent \in [Intent -> IntentRow] /\ a \in Account
        /\ decision \in [Decision -> {"NONE", "ACTIVE", "SUPERSEDED"}]
    BY PlanAssumption DEF StoreInv, StoreTypeOK
  <1>2. B \in Nat /\ W \in Nat /\ Withdrawn(a) \in Nat
    BY <1>1, BatchTypes, WithdrawnNat DEF LegsOf
  <1>3. a = Plan[d].account /\ B - W = IF account[a].paused THEN 0 ELSE BatchRounding(d)
    BY DEF BatchRounding
  <1>4. B <= account[a].cash + Withdrawn(a) /\ Withdrawn(a) <= account[a].frozen
        /\ \A i \in I : ~Created(i)
    <2>1. Withdrawn(a) <= account[a].frozen /\ \A i \in I : ~Created(i)
      BY DEF Supersede, SupersedeOK
    <2>2. CASE account[a].paused
      <3>1. account[a].cash \in Int /\ account[a].cash >= 0
        BY <1>1 DEF AccountRow, StoreInv, BalancesNonNegative
      <3> QED
        BY <1>2, <2>1, <2>2, <3>1
    <2>3. CASE ~account[a].paused
      BY <2>1, <2>3 DEF Supersede, SupersedeOK
    <2> QED
      BY <2>2, <2>3
  <1>5. /\ account' = [account EXCEPT ![a] = A] /\ ledger' = [ledger EXCEPT ![a] = L]
        /\ UNCHANGED order
        /\ decision' = [decision EXCEPT ![old] = "SUPERSEDED", ![d] = "ACTIVE"]
    BY DEF Supersede, Switched
  <1>6. intent' = [i \in Intent |-> CASE i \in I -> NewIntent(i)
                                      [] i \in OpenIntents(a) -> C(i)
                                      [] OTHER -> intent[i]]
    BY DEF Supersede
  <1>7. \A e \in Decision \ {old, d} : Plan[e] = Plan[d] => decision[e] # "ACTIVE"
    BY DEF Supersede, SupersedeOK
  <1> HIDE DEF a, I, B, W
  <1>8. /\ account[a] \in AccountRow /\ ledger[a] \in LedgerRow
        /\ cash \in Int /\ -cash \in Int /\ rows \in Int /\ -rows \in Int /\ 0 \in Int
    BY <1>1, <1>2
  <1>9. /\ account[a].cash \in Int /\ account[a].frozen \in Int /\ account[a].quantity \in Int
        /\ account[a].quantity >= 0
    BY <1>1, <1>8 DEF AccountRow, StoreInv, BalancesNonNegative
  <1>10. account[a].cash + cash >= 0 /\ account[a].frozen + (-cash) >= 0
    BY <1>2, <1>4, <1>9
  <1>11. rows - cash = B - W
    BY <1>2
  <1> HIDE DEF cash, rows
  <1>12. /\ M \in AccountRow /\ M.cash = account[a].cash + cash
         /\ M.frozen = account[a].frozen + (-cash) /\ M.quantity = account[a].quantity + 0
    BY <1>8, MovedAccount
  <1>13. /\ L \in LedgerRow /\ L.cash = ledger[a].cash + rows
         /\ L.frozen = ledger[a].frozen + (-rows) /\ L.quantity = ledger[a].quantity + 0
    <2> DEFINE row == ledger[a]
               back == -rows
    <2>1. row \in LedgerRow /\ rows \in Int /\ back \in Int /\ 0 \in Int
      BY <1>8
    <2>2. L = Moved(row, rows, back, 0)
      OBVIOUS
    <2> HIDE DEF M, A, L, C, row, back
    <2>3. /\ L \in LedgerRow /\ L.cash = row.cash + rows
          /\ L.frozen = row.frozen + back /\ L.quantity = row.quantity + 0
      BY <2>1, <2>2, MovedLedger
    <2> QED
      BY <2>3 DEF row, back
  <1> HIDE DEF M, L
  <1>14. /\ A \in AccountRow /\ A.cash = account[a].cash + cash
         /\ A.frozen = account[a].frozen + (-cash) /\ A.quantity = account[a].quantity + 0
    BY <1>12 DEF AccountRow
  <1> HIDE DEF A
  <1>15. account' \in [Account -> AccountRow] /\ ledger' \in [Account -> LedgerRow]
    BY <1>1, <1>5, <1>13, <1>14
  <1>16. BalancesNonNegative'
    BY <1>1, <1>5, <1>9, <1>10, <1>14 DEF StoreInv, BalancesNonNegative
  <1>17. decision' \in [Decision -> {"NONE", "ACTIVE", "SUPERSEDED"}] /\ OneDecisionPerSignalDate'
    <2>1. \A e \in Decision : decision'[e] =
            IF e = d THEN "ACTIVE" ELSE IF e = old THEN "SUPERSEDED" ELSE decision[e]
      BY <1>1, <1>5
    <2>2. decision' \in [Decision -> {"NONE", "ACTIVE", "SUPERSEDED"}]
      BY <1>1, <1>5
    <2> QED
      BY <1>7, <2>1, <2>2 DEF StoreInv, OneDecisionPerSignalDate
  <1>18. \A i \in Intent : /\ NewIntent(i) \in IntentRow /\ NewIntent(i).order = None
                           /\ NewIntent(i).status # "NONE"
    BY DEF NewIntent, IntentRow, IntentStatus, Unsent, Reason
  <1>19. \A i \in Intent : /\ C(i) \in IntentRow /\ C(i).order = intent[i].order
                           /\ C(i).status = "SUPERSEDED"
    <2>1. "SUPERSEDED" \in TerminalIntent /\ "none" \in Reason
      BY DEF TerminalIntent, Reason
    <2> QED
      <3> SUFFICES ASSUME NEW i \in Intent
                   PROVE  /\ C(i) \in IntentRow /\ C(i).order = intent[i].order
                          /\ C(i).status = "SUPERSEDED"
        OBVIOUS
      <3>1. intent[i] \in IntentRow
        BY <1>1
      <3>2. IsClosed(C(i), i, "SUPERSEDED", intent[i])
        BY <2>1, <3>1, ClosedRow
      <3> HIDE DEF C
      <3> QED
        BY <3>2 DEF IsClosed
  <1> HIDE DEF C
  <1>20. \A i \in Intent : /\ intent'[i] \in IntentRow /\ intent'[i].order = intent[i].order
                           /\ intent'[i].status = "NONE" => intent[i].order = None
    <2> SUFFICES ASSUME NEW i \in Intent
                 PROVE  /\ intent'[i] \in IntentRow /\ intent'[i].order = intent[i].order
                        /\ intent'[i].status = "NONE" => intent[i].order = None
      OBVIOUS
    <2>1. CASE i \in I
      <3>1. i \notin OpenIntents(a)
        BY <1>4, <2>1 DEF OpenIntents, IntentsOf, Created
      <3>2. intent'[i] = NewIntent(i)
        BY <1>6, <2>1, <3>1
      <3>3. intent[i].order = None
        BY <1>4, <2>1 DEF StoreInv, BlankRows, Created
      <3> QED
        BY <1>18, <3>2, <3>3
    <2>2. CASE i \notin I /\ i \in OpenIntents(a)
      <3>1. intent'[i] = C(i)
        BY <1>6, <2>2
      <3> QED
        BY <1>19, <3>1
    <2>3. CASE i \notin I /\ i \notin OpenIntents(a)
      <3>1. intent'[i] = intent[i]
        BY <1>6, <2>3
      <3> QED
        BY <1>1, <3>1 DEF StoreInv, BlankRows
    <2> QED
      BY <2>1, <2>2, <2>3
  <1>21. intent' \in [Intent -> IntentRow]
    BY <1>6, <1>20
  <1>22. StoreTypeOK'
    BY <1>5, <1>15, <1>17, <1>21 DEF StoreInv, StoreTypeOK
  <1>23. ASSUME NEW b \in Account
         PROVE  DriftsBy(b, IF b = a THEN rows - cash ELSE 0)
    <2>1. account[b] \in AccountRow /\ ledger[b] \in LedgerRow
      BY <1>1
    <2>2. CASE b = a
      BY <1>1, <1>5, <1>8, <1>13, <1>14, <2>1, <2>2 DEF DriftsBy, AccountRow, LedgerRow
    <2>3. CASE b # a
      BY <1>1, <1>5, <2>1, <2>3 DEF DriftsBy, AccountRow, LedgerRow
    <2> QED
      BY <2>2, <2>3
  <1>24. StoreInv'
    BY <1>5, <1>16, <1>17, <1>20, <1>22, SameOrders
  <1> QED
    BY <1>3, <1>11, <1>23, <1>24

-----------------------------------------------------------------------------
(* What a method writes, row by row.                                       *)

OnlyIntent(i) == \A j \in Intent \ {i} : intent'[j] = intent[j]
MovesFrozen(a, f) ==
  \A b \in Account : account'[b].frozen = IF b = a THEN account[b].frozen + f
                                                    ELSE account[b].frozen
MovesLots(a, q) ==
  \A b \in Account : account'[b].quantity = IF b = a THEN account[b].quantity + q
                                                      ELSE account[b].quantity
KeepsFrozen == \A b \in Account : account'[b].frozen = account[b].frozen
KeepsLots == \A b \in Account : account'[b].quantity = account[b].quantity
KeepsSwitches == \A b \in Account : SameSwitches(account'[b], account[b])
KeepsRow(i) ==
  /\ intent'[i].status = intent[i].status /\ intent'[i].order = intent[i].order
  /\ SameReserve(intent'[i], intent[i])

\* Booking.
LEMMA BookEffect ==
  ASSUME StoreInv, NEW a \in Account, NEW c \in Int, NEW f \in Int, NEW q \in Int,
         Book(a, c, f, q)
  PROVE  MovesFrozen(a, f) /\ MovesLots(a, q) /\ KeepsSwitches
  <1> DEFINE A == Moved(account[a], c, f, q)
  <1>1. account \in [Account -> AccountRow]
    BY DEF StoreInv, StoreTypeOK
  <1>2. account' = [account EXCEPT ![a] = A]
    BY DEF Book
  <1>3. account[a] \in AccountRow /\ c \in Int /\ f \in Int /\ q \in Int
    BY <1>1
  <1>4. /\ A.frozen = account[a].frozen + f /\ A.quantity = account[a].quantity + q
        /\ SameSwitches(A, account[a])
    BY <1>3, MovedAccount
  <1> HIDE DEF A
  <1> QED
    BY <1>1, <1>2, <1>4 DEF MovesFrozen, MovesLots, KeepsSwitches, SameSwitches

\* Setting a status.
StatusSet(i, s) ==
  /\ OnlyIntent(i) /\ intent'[i].status = s /\ intent'[i].order = intent[i].order
  /\ SameReserve(intent'[i], intent[i]) /\ SameReview(intent'[i], intent[i])
LEMMA SetStatusEffect ==
  ASSUME StoreInv, NEW i \in Intent, NEW s, intent' = [intent EXCEPT ![i].status = s]
  PROVE  StatusSet(i, s)
  <1>1. intent \in [Intent -> IntentRow]
    BY DEF StoreInv, StoreTypeOK
  <1> QED
    BY <1>1 DEF StatusSet, OnlyIntent, SameReserve, SameReview, IntentRow

\* Releasing an intent that is open.
LEMMA ReleaseEffect ==
  ASSUME StoreInv, NEW i \in Intent, NEW s \in TerminalIntent, NEW why \in Reason,
         Release(i, s, why), IsOpen(i)
  PROVE  /\ OnlyIntent(i) /\ IsClosed(intent'[i], i, s, intent[i])
         /\ MovesFrozen(Leg[i].account, -ReleaseAmount(i)) /\ KeepsLots /\ KeepsSwitches
         /\ UNCHANGED <<decision, order>>
  <1> DEFINE a == Leg[i].account
             r == ReleaseAmount(i)
             R == Closed(i, s, why, intent[i])
  <1>1. intent \in [Intent -> IntentRow] /\ account \in [Account -> AccountRow]
        /\ a \in Account /\ r \in Nat
    BY LegAssumption, ReleaseNat DEF StoreInv, StoreTypeOK, LegType
  <1>2. Book(a, r, -r, 0) /\ intent' = [intent EXCEPT ![i] = R] /\ UNCHANGED <<decision, order>>
    BY DEF Release
  <1>3. intent[i] \in IntentRow
    BY <1>1
  <1>4. IsClosed(R, i, s, intent[i])
    BY <1>3, ClosedRow
  <1> HIDE DEF a, r, R
  <1>5. OnlyIntent(i) /\ IsClosed(intent'[i], i, s, intent[i])
    <2>1. intent'[i] = R /\ OnlyIntent(i)
      BY <1>1, <1>2 DEF OnlyIntent
    <2> QED
      BY <1>4, <2>1
  <1>6. -r \in Int /\ 0 \in Int
    BY <1>1
  <1>7. MovesFrozen(a, -r) /\ MovesLots(a, 0) /\ KeepsSwitches
    BY <1>1, <1>2, <1>6, BookEffect
  <1>8. KeepsLots
    BY <1>1, <1>7 DEF MovesLots, KeepsLots, AccountRow
  <1> QED
    BY <1>2, <1>5, <1>7, <1>8 DEF a, r

\* Queueing again.
RowQueued(i) ==
  /\ intent'[i].status = Requeued(i) /\ intent'[i].order = intent[i].order
  /\ intent'[i].attention = FALSE /\ intent'[i].resolved = TRUE
  /\ intent'[i].released = intent[i].released
  /\ intent'[i].generation = IF Leg[i].side = "BUY" THEN intent[i].generation + 1
                                                    ELSE intent[i].generation
LEMMA RequeueEffect ==
  ASSUME StoreInv, NEW i \in Intent, Requeue(i)
  PROVE  /\ OnlyIntent(i) /\ RowQueued(i)
         /\ MovesFrozen(Leg[i].account, RequeueReserve(i)) /\ KeepsLots /\ KeepsSwitches
         /\ UNCHANGED <<decision, order>> /\ RequeueReserve(i) \in Nat
  <1> DEFINE a == Leg[i].account
             r == RequeueReserve(i)
             R == Queued(i, intent[i])
  <1>1. intent \in [Intent -> IntentRow] /\ account \in [Account -> AccountRow]
        /\ a \in Account /\ Leg[i].quantity \in Nat
    BY LegAssumption DEF StoreInv, StoreTypeOK, LegType
  <1>2. r \in Nat
    BY <1>1, AmountTypes DEF RequeueReserve
  <1>3. Book(a, -r, r, 0) /\ intent' = [intent EXCEPT ![i] = R] /\ UNCHANGED <<decision, order>>
    BY DEF Requeue
  <1>4. intent[i] \in IntentRow
    BY <1>1
  <1>5. /\ R.status = Requeued(i) /\ R.order = intent[i].order
        /\ R.attention = FALSE /\ R.resolved = TRUE /\ R.released = intent[i].released
        /\ R.generation = IF Leg[i].side = "BUY" THEN intent[i].generation + 1
                                                 ELSE intent[i].generation
    BY <1>4, QueuedRow
  <1> HIDE DEF a, r, R
  <1>6. intent'[i] = R /\ OnlyIntent(i)
    BY <1>1, <1>3 DEF OnlyIntent
  <1>7. -r \in Int /\ r \in Int /\ 0 \in Int
    BY <1>2
  <1>8. MovesFrozen(a, r) /\ MovesLots(a, 0) /\ KeepsSwitches
    BY <1>1, <1>3, <1>7, BookEffect
  <1>9. KeepsLots
    BY <1>1, <1>8 DEF MovesLots, KeepsLots, AccountRow
  <1> QED
    BY <1>2, <1>3, <1>5, <1>6, <1>8, <1>9 DEF a, r, RowQueued

\* Acknowledging.
LEMMA ResolveEffect ==
  ASSUME StoreInv, NEW i \in Intent, Resolve(i)
  PROVE  /\ OnlyIntent(i) /\ KeepsRow(i)
         /\ intent'[i].attention = FALSE /\ intent'[i].resolved = TRUE
         /\ UNCHANGED <<account, decision, order, ledger>>
  <1> DEFINE R == [intent[i] EXCEPT !.attention = FALSE, !.resolved = TRUE]
  <1>1. intent \in [Intent -> IntentRow]
    BY DEF StoreInv, StoreTypeOK
  <1>2. /\ R.status = intent[i].status /\ R.order = intent[i].order
        /\ R.attention = FALSE /\ R.resolved = TRUE /\ SameReserve(R, intent[i])
    BY <1>1, ResolvedRow
  <1>3. intent' = [intent EXCEPT ![i] = R] /\ UNCHANGED <<account, decision, order, ledger>>
    BY Zenon DEF Resolve
  <1> HIDE DEF R
  <1> QED
    BY <1>1, <1>2, <1>3 DEF OnlyIntent, KeepsRow, SameReserve

\* The marks that are made when the store is opened.
LEMMA BackfillEffect ==
  ASSUME StoreInv, Backfill
  PROVE  /\ \A i \in Intent : KeepsRow(i)
         /\ \A i \in Intent : i \notin Unreviewed => intent'[i] = intent[i]
         /\ \A i \in Unreviewed : intent'[i].attention \/ intent'[i].resolved
         /\ \A i \in Unreviewed : intent'[i].attention =>
              account'[Leg[i].account].health = "BLOCKED"
         /\ \A b \in Account : account'[b].health \in {account[b].health, "BLOCKED"}
         /\ KeepsFrozen /\ KeepsLots
         /\ UNCHANGED <<decision, order, ledger>>
  <1> DEFINE late == {i \in Unreviewed : ~Retried(i)}
             Late(i) == [intent[i] EXCEPT !.attention = TRUE, !.reason = "gap"]
             Done(i) == [intent[i] EXCEPT !.resolved = TRUE]
             Stop(a) == WithHealth("BLOCKED", "gap", account[a])
  <1>1. account \in [Account -> AccountRow] /\ intent \in [Intent -> IntentRow]
    BY DEF StoreInv, StoreTypeOK
  <1>2. \A i \in Intent : /\ Late(i).order = intent[i].order /\ Late(i).attention = TRUE
                          /\ Late(i).status = intent[i].status /\ SameReserve(Late(i), intent[i])
    <2> SUFFICES ASSUME NEW i \in Intent
                 PROVE  /\ Late(i).order = intent[i].order /\ Late(i).attention = TRUE
                        /\ Late(i).status = intent[i].status /\ SameReserve(Late(i), intent[i])
      OBVIOUS
    <2>1. intent[i] \in IntentRow /\ "gap" \in Reason
      BY <1>1 DEF Reason
    <2> QED
      BY <2>1, ReviewRow
  <1>3. \A i \in Intent : /\ Done(i).order = intent[i].order /\ Done(i).resolved = TRUE
                          /\ Done(i).attention = intent[i].attention
                          /\ Done(i).status = intent[i].status /\ SameReserve(Done(i), intent[i])
    <2> SUFFICES ASSUME NEW i \in Intent
                 PROVE  /\ Done(i).order = intent[i].order /\ Done(i).resolved = TRUE
                        /\ Done(i).attention = intent[i].attention
                        /\ Done(i).status = intent[i].status /\ SameReserve(Done(i), intent[i])
      OBVIOUS
    <2>1. intent[i] \in IntentRow
      BY <1>1
    <2> QED
      BY <2>1 DEF IntentRow, SameReserve
  <1>4. \A a \in Account : /\ Stop(a).health = "BLOCKED" /\ Stop(a).frozen = account[a].frozen
                           /\ Stop(a).quantity = account[a].quantity
    <2> SUFFICES ASSUME NEW a \in Account
                 PROVE  /\ Stop(a).health = "BLOCKED" /\ Stop(a).frozen = account[a].frozen
                        /\ Stop(a).quantity = account[a].quantity
      OBVIOUS
    <2>1. account[a] \in AccountRow /\ "gap" \in Error
      BY <1>1 DEF Error
    <2> QED
      BY <2>1, HealthRow
  <1>5. /\ intent' = [i \in Intent |-> CASE i \in late -> Late(i)
                                        [] i \in Unreviewed \ late -> Done(i)
                                        [] OTHER -> intent[i]]
        /\ account' = [a \in Account |-> IF \E i \in late : Leg[i].account = a
                                          THEN Stop(a) ELSE account[a]]
        /\ UNCHANGED <<decision, order, ledger>>
    BY Zenon DEF Backfill
  <1>6. late \subseteq Unreviewed /\ Unreviewed \subseteq Intent
        /\ (\A i \in Intent : Leg[i].account \in Account)
        /\ \A i \in Unreviewed : intent[i].attention # TRUE
    BY <1>1, LegAssumption DEF Unreviewed, LegType, IntentRow
  <1> HIDE DEF late, Late, Done, Stop
  <1>7. \A i \in Intent : \/ i \in late /\ intent'[i] = Late(i)
                          \/ i \in Unreviewed \ late /\ intent'[i] = Done(i)
                          \/ i \notin Unreviewed /\ intent'[i] = intent[i]
    BY <1>5, <1>6
  <1>8. \A i \in Intent : KeepsRow(i)
    BY <1>2, <1>3, <1>7 DEF KeepsRow, SameReserve
  <1>9. \A i \in Intent : i \notin Unreviewed => intent'[i] = intent[i]
    BY <1>6, <1>7
  <1>10. \A i \in Unreviewed : intent'[i].attention \/ intent'[i].resolved
    BY <1>2, <1>3, <1>6, <1>7
  <1>11. \A i \in Unreviewed : intent'[i].attention =>
            account'[Leg[i].account].health = "BLOCKED"
    <2> SUFFICES ASSUME NEW i \in Unreviewed, intent'[i].attention
                 PROVE  account'[Leg[i].account].health = "BLOCKED"
      OBVIOUS
    <2>1. i \in late
      <3> SUFFICES ASSUME i \notin late  PROVE FALSE
        OBVIOUS
      <3>1. intent'[i].attention = intent[i].attention /\ intent[i].attention \in BOOLEAN
        BY <1>1, <1>3, <1>6, <1>7 DEF IntentRow
      <3> QED
        BY <1>6, <3>1
    <2>2. Leg[i].account \in Account /\ account'[Leg[i].account] = Stop(Leg[i].account)
      BY <1>5, <1>6, <2>1
    <2> QED
      BY <1>4, <2>2
  <1>12. \A b \in Account : account'[b] \in {account[b], Stop(b)}
    BY <1>5
  <1>13. \A b \in Account : account'[b].health \in {account[b].health, "BLOCKED"}
    BY <1>4, <1>12
  <1>14. KeepsFrozen /\ KeepsLots
    BY <1>4, <1>12 DEF KeepsFrozen, KeepsLots
  <1> QED
    BY <1>5, <1>8, <1>9, <1>10, <1>11, <1>13, <1>14

\* Binding.
OrderBound(i, o, s) ==
  /\ \A p \in OrderId \ {o} : order'[p] = order[p]
  /\ order'[o] # None /\ order'[o].intent = i /\ order'[o].status = s
  /\ order'[o].filled = IF order[o] = None THEN 0 ELSE order[o].filled
LEMMA BindEffect ==
  ASSUME StoreInv, NEW i \in Intent, NEW o \in OrderId, NEW s \in KnownOrder, Bind(i, o, s)
  PROVE  /\ OnlyIntent(i) /\ intent'[i].status = s /\ intent'[i].order = o
         /\ SameReserve(intent'[i], intent[i]) /\ SameReview(intent'[i], intent[i])
         /\ OrderBound(i, o, s) /\ UNCHANGED <<account, decision, ledger>>
         /\ (order[o] # None => order[o].intent = i /\ intent[i].order = o)
         /\ (intent[i].order # None => intent[i].order = o /\ order[o] # None)
  <1> DEFINE R == Bound(o, s, intent[i])
             N == [intent |-> i, status |-> s, filled |-> 0]
             K == [order[o] EXCEPT !.status = s]
             O == IF order[o] = None THEN N ELSE K
  <1>1. intent \in [Intent -> IntentRow] /\ order \in [OrderId -> OrderRow \cup {None}]
    BY DEF StoreInv, StoreTypeOK
  <1>2. s \in IntentStatus /\ intent[i] \in IntentRow
    BY <1>1 DEF IntentStatus
  <1>3. R.status = s /\ R.order = o /\ SameReserve(R, intent[i]) /\ SameReview(R, intent[i])
    BY <1>2, BoundRow
  <1>4. /\ order' = [order EXCEPT ![o] = O] /\ intent' = [intent EXCEPT ![i] = R]
        /\ UNCHANGED <<account, decision, ledger>> /\ BindOK(i, o)
    BY Zenon DEF Bind
  <1>5. intent[i].order \in {None, o} /\ (order[o] # None => order[o].intent = i)
    BY <1>4 DEF BindOK
  <1>6. (order[o] # None => intent[i].order = o)
        /\ (intent[i].order # None => intent[i].order = o /\ order[o] # None)
    BY <1>5 DEF StoreInv, OrdersBelongToOneIntent
  <1>7. O \in OrderRow /\ O.intent = i /\ O.status = s
        /\ O.filled = IF order[o] = None THEN 0 ELSE order[o].filled
    <2>1. CASE order[o] = None
      BY <2>1 DEF OrderRow
    <2>2. CASE order[o] # None
      <3>1. order[o] \in OrderRow
        BY <1>1, <2>2
      <3> QED
        BY <1>5, <2>2, <3>1 DEF OrderRow
    <2> QED
      BY <2>1, <2>2
  <1> HIDE DEF R, N, K, O
  <1>8. OrderBound(i, o, s)
    BY <1>1, <1>4, <1>7, NoneAssumption DEF OrderBound
  <1>9. OnlyIntent(i) /\ intent'[i] = R
    BY <1>1, <1>4 DEF OnlyIntent
  <1> QED
    BY <1>3, <1>4, <1>5, <1>6, <1>8, <1>9

\* Booking a fill that adds something.
OrderFilled(o, cum) ==
  /\ \A p \in OrderId \ {o} : order'[p] = order[p]
  /\ order'[o] # None /\ order'[o].intent = order[o].intent
  /\ order'[o].status = order[o].status /\ order'[o].filled = cum
LEMMA ApplyFillEffect ==
  ASSUME StoreInv, NEW o \in OrderId, NEW cum \in Nat, ApplyFill(o, cum)
  PROVE  LET i == order[o].intent
             n == Increment(o, cum)
         IN  /\ order[o] # None /\ i \in Intent /\ n \in Nat /\ cum = order[o].filled + n
             /\ n = 0 => UNCHANGED storeVars
             /\ n # 0 => /\ OrderFilled(o, cum) /\ UNCHANGED <<decision, intent>>
                         /\ KeepsSwitches /\ cum <= Leg[i].quantity
                         /\ Leg[i].side = "BUY" =>
                              /\ MovesFrozen(Leg[i].account, -Reserve(i, n))
                              /\ MovesLots(Leg[i].account, n)
                         /\ Leg[i].side # "BUY" => KeepsFrozen /\ MovesLots(Leg[i].account, -n)
  <1> DEFINE i == order[o].intent
             n == Increment(o, cum)
             a == Leg[i].account
             O == [order[o] EXCEPT !.filled = cum]
  <1>1. /\ order \in [OrderId -> OrderRow \cup {None}] /\ account \in [Account -> AccountRow]
        /\ order[o] # None
    BY DEF StoreInv, StoreTypeOK, ApplyFill
  <1>2. order[o] \in OrderRow
    BY <1>1
  <1>3. i \in Intent /\ order[o].filled \in Nat /\ n \in Int /\ n = cum - order[o].filled
        /\ Leg[i].account \in Account
    BY <1>2, LegAssumption DEF OrderRow, Increment, LegType
  <1>4. n = 0 \/ n > 0
    BY DEF ApplyFill, ApplyFillOK
  <1>5. n \in Nat /\ cum = order[o].filled + n
    BY <1>3, <1>4
  <1>6. ASSUME n = 0  PROVE UNCHANGED storeVars
    BY <1>6 DEF ApplyFill, storeVars
  <1>7. ASSUME n # 0
        PROVE  /\ OrderFilled(o, cum) /\ UNCHANGED <<decision, intent>>
               /\ KeepsSwitches /\ cum <= Leg[i].quantity
               /\ Leg[i].side = "BUY" => /\ MovesFrozen(a, -Reserve(i, n))
                                         /\ MovesLots(a, n)
               /\ Leg[i].side # "BUY" => KeepsFrozen /\ MovesLots(a, -n)
    <2>1. order' = [order EXCEPT ![o] = O] /\ UNCHANGED <<decision, intent>>
          /\ cum <= Leg[i].quantity
      BY <1>7 DEF ApplyFill, ApplyFillOK
    <2>2. O \in OrderRow /\ O.intent = i /\ O.status = order[o].status /\ O.filled = cum
      BY <1>2 DEF OrderRow
    <2>3. OrderFilled(o, cum)
      <3> HIDE DEF O
      <3> QED
        BY <1>1, <2>1, <2>2, NoneAssumption DEF OrderFilled
    <2>4. BuyCash(i, n) \in Int /\ SellCash(i, n) \in Int /\ Reserve(i, n) \in Int
      BY <1>3, AmountTypes DEF BuyCash, SellCash
    <2>5. CASE Leg[i].side = "BUY"
      <3>1. Book(a, BuyCash(i, n), -Reserve(i, n), n)
        BY <1>7, <2>5 DEF ApplyFill
      <3>2. -Reserve(i, n) \in Int
        BY <2>4
      <3> HIDE DEF i, n, a
      <3>3. MovesFrozen(a, -Reserve(i, n)) /\ MovesLots(a, n) /\ KeepsSwitches
        BY <1>3, <2>4, <3>1, <3>2, BookEffect DEF a
      <3> QED
        BY <2>1, <2>3, <2>5, <3>3 DEF a
    <2>6. CASE Leg[i].side # "BUY"
      <3>1. Book(a, SellCash(i, n), 0, -n)
        BY <1>7, <2>6 DEF ApplyFill
      <3> HIDE DEF i, n, a
      <3>2. -n \in Int /\ 0 \in Int
        BY <1>3
      <3>3. MovesFrozen(a, 0) /\ MovesLots(a, -n) /\ KeepsSwitches
        BY <1>3, <2>4, <3>1, <3>2, BookEffect DEF a
      <3>4. KeepsFrozen
        BY <1>1, <3>3 DEF KeepsFrozen, MovesFrozen, AccountRow
      <3> QED
        BY <2>1, <2>3, <2>6, <3>3, <3>4 DEF a
    <2> QED
      BY <2>5, <2>6
  <1> QED
    BY <1>1, <1>3, <1>5, <1>6, <1>7

\* Noting a report.
OrderReported(o, s) ==
  /\ \A p \in OrderId \ {o} : order'[p] = order[p]
  /\ order'[o] # None /\ order'[o].intent = order[o].intent
  /\ order'[o].status = s /\ order'[o].filled = order[o].filled
LEMMA ReportEffect ==
  ASSUME StoreInv, NEW o \in OrderId, NEW s \in KnownOrder, Report(o, s)
  PROVE  /\ OrderReported(o, s) /\ UNCHANGED <<account, decision, ledger>>
         /\ s \in TerminalOrder => UNCHANGED intent
         /\ s \notin TerminalOrder => StatusSet(order[o].intent, s)
         /\ order[o] # None /\ order[o].intent \in Intent
  <1> DEFINE O == [order[o] EXCEPT !.status = s]
  <1>1. order \in [OrderId -> OrderRow \cup {None}] /\ order[o] # None
    BY DEF StoreInv, StoreTypeOK, Report
  <1>2. order[o] \in OrderRow
    BY <1>1
  <1>3. O \in OrderRow /\ O.intent = order[o].intent /\ O.filled = order[o].filled /\ O.status = s
    BY <1>2 DEF OrderRow
  <1>4. order' = [order EXCEPT ![o] = O] /\ UNCHANGED <<account, decision, ledger>>
    BY DEF Report
  <1>5. OrderReported(o, s)
    <2> HIDE DEF O
    <2> QED
      BY <1>1, <1>3, <1>4, NoneAssumption DEF OrderReported
  <1>6. order[o].intent \in Intent
    BY <1>2 DEF OrderRow
  <1>7. ASSUME s \notin TerminalOrder  PROVE StatusSet(order[o].intent, s)
    <2>1. intent' = [intent EXCEPT ![order[o].intent].status = s]
      BY <1>7 DEF Report
    <2> QED
      BY <1>6, <2>1, SetStatusEffect
  <1>8. s \in TerminalOrder => UNCHANGED intent
    BY DEF Report
  <1> QED
    BY <1>1, <1>4, <1>5, <1>6, <1>7, <1>8

\* Saving a decision.
LEMMA SaveDecisionEffect ==
  ASSUME StoreInv, NEW d \in Decision, SaveDecision(d)
  PROVE  UNCHANGED <<intent, order, ledger>> /\ KeepsFrozen /\ KeepsLots /\ KeepsSwitches
  <1>1. account \in [Account -> AccountRow]
    BY DEF StoreInv, StoreTypeOK
  <1>2. /\ account' = [account EXCEPT ![Plan[d].account].lastDecision = d]
        /\ UNCHANGED <<intent, order, ledger>>
    BY DEF SaveDecision
  <1> QED
    BY <1>1, <1>2 DEF KeepsFrozen, KeepsLots, KeepsSwitches, SameSwitches, AccountRow

\* The health and the pause of an account.
LEMMA SetHealthEffect ==
  ASSUME StoreInv, NEW a \in Account, NEW h \in {"READY", "OK", "BLOCKED"}, NEW e \in Error,
         SetHealth(a, h, e)
  PROVE  /\ UNCHANGED <<decision, intent, order, ledger>> /\ KeepsFrozen /\ KeepsLots
         /\ account'[a].health = h /\ account'[a].error = e
         /\ \A b \in Account \ {a} : account'[b] = account[b]
  <1> DEFINE A == WithHealth(h, e, account[a])
  <1>1. account \in [Account -> AccountRow]
    BY DEF StoreInv, StoreTypeOK
  <1>2. account[a] \in AccountRow
    BY <1>1
  <1>3. /\ A.frozen = account[a].frozen /\ A.quantity = account[a].quantity
        /\ A.health = h /\ A.error = e
    BY <1>2, HealthRow
  <1>4. account' = [account EXCEPT ![a] = A] /\ UNCHANGED <<decision, intent, order, ledger>>
    BY DEF SetHealth
  <1> HIDE DEF A
  <1> QED
    BY <1>1, <1>3, <1>4 DEF KeepsFrozen, KeepsLots

LEMMA SetPausedEffect ==
  ASSUME StoreInv, NEW a \in Account, NEW p, account' = [account EXCEPT ![a].paused = p]
  PROVE  /\ KeepsFrozen /\ KeepsLots
         /\ \A b \in Account : account'[b].health = account[b].health
                               /\ account'[b].error = account[b].error
  <1>1. account \in [Account -> AccountRow]
    BY DEF StoreInv, StoreTypeOK
  <1> QED
    BY <1>1 DEF KeepsFrozen, KeepsLots, AccountRow

\* Storing the intents of a decision.
LEMMA CreateEffect ==
  ASSUME StoreInv, NEW d \in Decision, CreateIntents(d), ~(\A i \in LegsOf(d) : Created(i))
  PROVE  /\ \A i \in LegsOf(d) : ~Created(i) /\ intent[i].order = None /\ intent'[i] = NewIntent(i)
         /\ \A i \in Intent \ LegsOf(d) : intent'[i] = intent[i]
         /\ MovesFrozen(Plan[d].account, BatchReserve(LegsOf(d))) /\ KeepsLots /\ KeepsSwitches
         /\ UNCHANGED <<decision, order>> /\ CreateOK(d)
  <1> DEFINE a == Plan[d].account
             I == LegsOf(d)
             B == BatchReserve(I)
             A == Moved(account[a], -B, B, 0)
  <1>1. account \in [Account -> AccountRow] /\ a \in Account /\ B \in Nat /\ I \subseteq Intent
    BY PlanAssumption, BatchTypes DEF StoreInv, StoreTypeOK, LegsOf
  <1>2. /\ account' = [account EXCEPT ![a] = A] /\ UNCHANGED <<decision, order>>
        /\ intent' = [i \in Intent |-> IF i \in I THEN NewIntent(i) ELSE intent[i]]
        /\ CreateOK(d) /\ \A i \in I : ~Created(i)
    BY DEF CreateIntents, CreateOK
  <1>3. \A i \in I : intent[i].order = None
    BY <1>1, <1>2 DEF StoreInv, BlankRows, Created
  <1> HIDE DEF a, I, B
  <1>4. account[a] \in AccountRow /\ -B \in Int /\ B \in Int /\ 0 \in Int
    BY <1>1
  <1>5. /\ A.frozen = account[a].frozen + B /\ A.quantity = account[a].quantity + 0
        /\ SameSwitches(A, account[a])
    BY <1>4, MovedAccount
  <1> HIDE DEF A
  <1>6. MovesFrozen(a, B) /\ KeepsLots /\ KeepsSwitches
    BY <1>1, <1>2, <1>5 DEF MovesFrozen, KeepsLots, KeepsSwitches, SameSwitches, AccountRow
  <1>7. /\ \A i \in I : intent'[i] = NewIntent(i)
        /\ \A i \in Intent \ I : intent'[i] = intent[i]
    BY <1>1, <1>2
  <1> QED
    BY <1>2, <1>3, <1>6, <1>7 DEF a, I, B

\* Replacing a decision.
Fresh(d) == IF account[Plan[d].account].paused THEN {} ELSE LegsOf(d)
FreshReserve(d) == IF account[Plan[d].account].paused THEN 0 ELSE BatchReserve(LegsOf(d))
LEMMA SupersedeEffect ==
  ASSUME StoreInv, NEW old \in Decision, NEW d \in Decision, Supersede(old, d)
  PROVE  LET a == Plan[d].account
         IN  /\ \A i \in Fresh(d) : ~Created(i) /\ intent[i].order = None
                                    /\ intent'[i] = NewIntent(i)
             /\ \A i \in OpenIntents(a) :
                  IsClosed(intent'[i], i, "SUPERSEDED", intent[i]) /\ Replaceable(i, old)
             /\ \A i \in Intent \ (Fresh(d) \cup OpenIntents(a)) : intent'[i] = intent[i]
             /\ MovesFrozen(a, FreshReserve(d) - Withdrawn(a)) /\ KeepsLots /\ KeepsSwitches
             /\ FreshReserve(d) \in Nat /\ Withdrawn(a) \in Nat
             /\ UNCHANGED order /\ SupersedeOK(old, d)
  <1> DEFINE a == Plan[d].account
             I == Fresh(d)
             B == FreshReserve(d)
             cash == Withdrawn(a) - B
             M == Moved(account[a], cash, -cash, 0)
             A == [M EXCEPT !.lastDecision = d]
             C(i) == Closed(i, "SUPERSEDED", "none", intent[i])
  <1>1. account \in [Account -> AccountRow] /\ a \in Account /\ intent \in [Intent -> IntentRow]
        /\ I \subseteq Intent
    BY PlanAssumption DEF StoreInv, StoreTypeOK, Fresh, LegsOf
  <1>2. B \in Nat /\ Withdrawn(a) \in Nat
    BY <1>1, BatchTypes, WithdrawnNat DEF FreshReserve, LegsOf
  <1>3. /\ account' = [account EXCEPT ![a] = A] /\ UNCHANGED order /\ SupersedeOK(old, d)
        /\ intent' = [i \in Intent |-> CASE i \in I -> NewIntent(i)
                                         [] i \in OpenIntents(a) -> C(i)
                                         [] OTHER -> intent[i]]
    BY DEF Supersede, Fresh, FreshReserve
  <1>4. /\ \A i \in I : ~Created(i)
        /\ \A i \in OpenIntents(a) : Replaceable(i, old)
    BY <1>3 DEF SupersedeOK, Fresh
  <1>5. \A i \in I : intent[i].order = None /\ i \notin OpenIntents(a)
    BY <1>1, <1>4 DEF StoreInv, BlankRows, Created, OpenIntents, IntentsOf
  <1>6. \A i \in Intent : IsClosed(C(i), i, "SUPERSEDED", intent[i])
    <2> SUFFICES ASSUME NEW i \in Intent  PROVE IsClosed(C(i), i, "SUPERSEDED", intent[i])
      OBVIOUS
    <2>1. "SUPERSEDED" \in TerminalIntent /\ "none" \in Reason /\ intent[i] \in IntentRow
      BY <1>1 DEF TerminalIntent, Reason
    <2> QED
      BY <2>1, ClosedRow
  <1>7. OpenIntents(a) \subseteq Intent
    BY DEF OpenIntents, IntentsOf
  <1> HIDE DEF a, I, B, C
  <1>8. account[a] \in AccountRow /\ cash \in Int /\ -cash \in Int /\ 0 \in Int
        /\ -cash = B - Withdrawn(a)
    BY <1>1, <1>2
  <1> HIDE DEF cash
  <1>9. /\ M \in AccountRow /\ M.frozen = account[a].frozen + (-cash)
        /\ M.quantity = account[a].quantity + 0 /\ SameSwitches(M, account[a])
    BY <1>8, MovedAccount
  <1> HIDE DEF M
  <1>10. /\ A.frozen = account[a].frozen + (-cash) /\ A.quantity = account[a].quantity + 0
         /\ SameSwitches(A, account[a])
    BY <1>9 DEF AccountRow, SameSwitches
  <1> HIDE DEF A
  <1>11. MovesFrozen(a, B - Withdrawn(a)) /\ KeepsLots /\ KeepsSwitches
    BY <1>1, <1>3, <1>8, <1>10 DEF MovesFrozen, KeepsLots, KeepsSwitches, SameSwitches, AccountRow
  <1>12. /\ \A i \in I : intent'[i] = NewIntent(i)
         /\ \A i \in OpenIntents(a) : intent'[i] = C(i)
         /\ \A i \in Intent \ (I \cup OpenIntents(a)) : intent'[i] = intent[i]
    BY <1>1, <1>3, <1>5, <1>7
  <1>13. \A i \in OpenIntents(a) : IsClosed(intent'[i], i, "SUPERSEDED", intent[i])
    BY <1>6, <1>7, <1>12
  <1> QED
    BY <1>2, <1>3, <1>4, <1>5, <1>11, <1>12, <1>13 DEF a, I, B

-----------------------------------------------------------------------------
(* The store.                                                              *)

\* The initial rows, those of an older release included.
LEMMA StoreInitInv ==
  ASSUME StoreInit
  PROVE  StoreInv /\ LedgerAgrees
  <1>1. account \in [Account -> AccountRow]
    <2>1. \A a \in Account : LegacyOf(a) # {} =>
            Leg[CHOOSE i \in LegacyOf(a) : TRUE].decision \in Decision
      BY LegAssumption, LegacyAssumption DEF LegacyOf, LegType
    <2> QED
      BY <2>1, InitialAssumption DEF StoreInit, AccountRow, Error
  <1>2. \A i \in Intent : LegacyIntent(i) \in IntentRow /\ LegacyIntent(i).order = None
    <2>1. Cardinality({}) = 0 /\ Cardinality({1}) = 1
      BY FS_EmptySet, FS_Singleton
    <2> QED
      BY <2>1 DEF LegacyIntent, IntentRow, IntentStatus, TerminalIntent, Reason
  <1>3. NoIntent \in IntentRow /\ NoIntent.order = None
    BY DEF NoIntent, IntentRow, IntentStatus, Unsent, Reason
  <1>4. intent \in [Intent -> IntentRow] /\ \A i \in Intent : intent[i].order = None
    BY <1>2, <1>3 DEF StoreInit
  <1>5. decision \in [Decision -> {"NONE", "ACTIVE", "SUPERSEDED"}]
    BY DEF StoreInit
  <1>6. order \in [OrderId -> OrderRow \cup {None}] /\ \A o \in OrderId : order[o] = None
    BY DEF StoreInit
  <1>7. ledger \in [Account -> LedgerRow]
    BY DEF StoreInit, LedgerRow
  <1>8. BalancesNonNegative /\ LedgerAgrees
    BY InitialAssumption DEF StoreInit, BalancesNonNegative, LedgerAgrees, LedgerViolated
  <1>9. OneDecisionPerSignalDate
    BY LegacyDatesAssumption DEF StoreInit, OneDecisionPerSignalDate
  <1> QED
    BY <1>1, <1>4, <1>5, <1>6, <1>7, <1>8, <1>9
    DEF StoreInv, StoreTypeOK, BlankRows, OrdersBelongToOneIntent, FillsWithinOrders

\* Every method preserves the invariant.
LEMMA StoreStep ==
  ASSUME StoreInv, [StoreNext]_storeVars
  PROVE  StoreInv'
  <1>1. CASE UNCHANGED storeVars
    BY <1>1 DEF storeVars, StoreInv, StoreTypeOK, BlankRows, OrdersBelongToOneIntent,
                FillsWithinOrders, BalancesNonNegative, OneDecisionPerSignalDate
  <1>2. CASE Backfill
    BY <1>2, BackfillInv
  <1>3. ASSUME NEW i \in Intent, IntentStep(i)
        PROVE  StoreInv'
    <2>1. CASE Claim(i) \/ Activate(i)
      BY <2>1, SetStatusInv DEF Claim, Activate, IntentStatus, Unsent, KnownOrder, ActiveOrder
    <2>2. CASE Requeue(i)
      BY <2>2, RequeueInv
    <2>3. CASE Resolve(i)
      BY <2>3, ResolveInv
    <2>4. CASE \E s \in TerminalIntent, why \in Reason : Release(i, s, why)
      BY <2>4, ReleaseInv
    <2>5. CASE \E s \in KnownOrder \cup {"SUBMISSION_UNCERTAIN"} : SetStatus(i, s)
      <3>1. PICK s \in KnownOrder \cup {"SUBMISSION_UNCERTAIN"} : SetStatus(i, s)
        BY <2>5
      <3>2. s \in IntentStatus \ {"NONE"}
        BY DEF IntentStatus, KnownOrder, TerminalOrder, ActiveOrder
      <3> QED
        BY <3>1, <3>2, SetStatusInv
    <2>6. CASE \E o \in OrderId, s \in KnownOrder : Bind(i, o, s)
      BY <2>6, BindInv
    <2> QED
      BY <1>3, <2>1, <2>2, <2>3, <2>4, <2>5, <2>6 DEF IntentStep
  <1>4. ASSUME NEW o \in OrderId, order[o] # None, OrderStep(o)
        PROVE  StoreInv'
    <2>1. CASE \E n \in 1 .. Leg[order[o].intent].quantity : ApplyFill(o, n)
      <3>1. PICK n \in 1 .. Leg[order[o].intent].quantity : ApplyFill(o, n)
        BY <2>1
      <3>2. order[o] \in OrderRow
        BY <1>4 DEF StoreInv, StoreTypeOK
      <3>3. Leg[order[o].intent].quantity \in Nat
        BY <3>2, LegAssumption DEF OrderRow, LegType
      <3>4. n \in Nat
        BY <3>3
      <3> QED
        BY <3>1, <3>4, ApplyFillInv
    <2>2. CASE \E s \in KnownOrder : Report(o, s)
      BY <2>2, ReportInv
    <2> QED
      BY <1>4, <2>1, <2>2 DEF OrderStep
  <1>5. ASSUME NEW a \in Account, AccountStep(a)
        PROVE  StoreInv'
    <2>1. account[a] \in AccountRow
      BY DEF StoreInv, StoreTypeOK
    <2>2. CASE \E h \in {"OK", "BLOCKED"}, e \in Error : SetHealth(a, h, e)
      <3>1. PICK h \in {"OK", "BLOCKED"}, e \in Error : SetHealth(a, h, e)
        BY <2>2
      <3> DEFINE R == WithHealth(h, e, account[a])
      <3>2. /\ R \in AccountRow /\ R.cash = account[a].cash
            /\ R.frozen = account[a].frozen /\ R.quantity = account[a].quantity
        BY <2>1, HealthRow
      <3>3. account' = [account EXCEPT ![a] = R] /\ UNCHANGED <<decision, intent, order, ledger>>
        BY <3>1 DEF SetHealth
      <3> HIDE DEF R
      <3> QED
        BY <3>2, <3>3, AccountInv
    <2>3. CASE \E p \in BOOLEAN : SetPaused(a, p)
      <3>1. PICK p \in BOOLEAN : SetPaused(a, p)
        BY <2>3
      <3> DEFINE R == [account[a] EXCEPT !.paused = p]
      <3>2. /\ R \in AccountRow /\ R.cash = account[a].cash
            /\ R.frozen = account[a].frozen /\ R.quantity = account[a].quantity
        BY <2>1 DEF AccountRow
      <3>3. account' = [account EXCEPT ![a] = R] /\ UNCHANGED <<decision, intent, order, ledger>>
        BY <3>1 DEF SetPaused
      <3> HIDE DEF R
      <3> QED
        BY <3>2, <3>3, AccountInv
    <2> QED
      BY <1>5, <2>2, <2>3 DEF AccountStep
  <1>6. ASSUME NEW d \in Decision, DecisionStep(d)
        PROVE  StoreInv'
    BY <1>6, SaveDecisionInv, CreateIntentsInv, SupersedeInv DEF DecisionStep
  <1> QED
    BY <1>1, <1>2, <1>3, <1>4, <1>5, <1>6 DEF StoreNext

\* The position and the orders' fills move together: a step that books no fill
\* changes neither, and binds orders with nothing filled.
KeepsFills ==
  \A p \in OrderId :
    /\ order[p] # None => /\ order'[p] # None /\ order'[p].intent = order[p].intent
                          /\ order'[p].filled = order[p].filled
    /\ order[p] = None /\ order'[p] # None => order'[p].filled = 0
LEMMA FillsStep ==
  ASSUME StoreInv, [StoreNext]_storeVars
  PROVE  \/ KeepsFills /\ KeepsLots
         \/ \E o \in OrderId, cum \in Nat : order[o] # None /\ ApplyFill(o, cum)
  <1> DEFINE Keeps == KeepsFills /\ KeepsLots
  <1>0. UNCHANGED order => KeepsFills
    BY DEF KeepsFills
  <1>1. CASE UNCHANGED storeVars
    BY <1>1, <1>0 DEF storeVars, KeepsLots
  <1>2. CASE Backfill
    BY <1>2, <1>0, BackfillEffect
  <1>3. ASSUME NEW i \in Intent, IntentStep(i)
        PROVE  Keeps
    <2>1. CASE Claim(i) \/ Activate(i) \/ \E s : SetStatus(i, s)
      <3>1. UNCHANGED <<account, order>>
        BY <2>1 DEF Claim, Activate, SetStatus
      <3> QED
        BY <1>0, <3>1 DEF KeepsLots
    <2>2. CASE Requeue(i)
      BY <1>0, <2>2, RequeueEffect
    <2>3. CASE Resolve(i)
      BY <1>0, <2>3, ResolveEffect DEF KeepsLots
    <2>4. ASSUME NEW s \in TerminalIntent, NEW why \in Reason, Release(i, s, why)
          PROVE  Keeps
      <3>1. CASE IsOpen(i)
        BY <1>0, <2>4, <3>1, ReleaseEffect
      <3>2. CASE ~IsOpen(i)
        BY <1>0, <2>4, <3>2 DEF Release, KeepsLots
      <3> QED
        BY <3>1, <3>2
    <2>5. ASSUME NEW o \in OrderId, NEW s \in KnownOrder, Bind(i, o, s)
          PROVE  Keeps
      <3>1. UNCHANGED account /\ OrderBound(i, o, s) /\ (order[o] # None => order[o].intent = i)
        BY <2>5, BindEffect
      <3> QED
        BY <3>1 DEF OrderBound, KeepsFills, KeepsLots
    <2> QED
      BY <1>3, <2>1, <2>2, <2>3, <2>4, <2>5 DEF IntentStep
  <1>4. ASSUME NEW o \in OrderId, order[o] # None, OrderStep(o)
        PROVE  Keeps \/ \E cum \in Nat : ApplyFill(o, cum)
    <2>1. CASE \E n \in 1 .. Leg[order[o].intent].quantity : ApplyFill(o, n)
      <3>1. order[o] \in OrderRow
        BY <1>4 DEF StoreInv, StoreTypeOK
      <3>2. Leg[order[o].intent].quantity \in Nat
        BY <3>1, LegAssumption DEF OrderRow, LegType
      <3> QED
        BY <2>1, <3>2
    <2>2. CASE \E s \in KnownOrder : Report(o, s)
      <3>1. UNCHANGED account /\ \E s \in KnownOrder : OrderReported(o, s)
        BY <2>2, ReportEffect
      <3> QED
        BY <1>4, <3>1 DEF OrderReported, KeepsFills, KeepsLots
    <2> QED
      BY <1>4, <2>1, <2>2 DEF OrderStep
  <1>5. ASSUME NEW a \in Account, AccountStep(a)
        PROVE  Keeps
    <2>1. CASE \E h \in {"OK", "BLOCKED"}, e \in Error : SetHealth(a, h, e)
      BY <1>0, <2>1, SetHealthEffect
    <2>2. CASE \E p \in BOOLEAN : SetPaused(a, p)
      BY <1>0, <2>2, SetPausedEffect DEF SetPaused
    <2> QED
      BY <1>5, <2>1, <2>2 DEF AccountStep
  <1>6. ASSUME NEW d \in Decision, DecisionStep(d)
        PROVE  Keeps
    <2>1. CASE SaveDecision(d)
      BY <1>0, <2>1, SaveDecisionEffect
    <2>2. CASE CreateIntents(d)
      <3>1. CASE \A i \in LegsOf(d) : Created(i)
        BY <1>0, <2>2, <3>1 DEF CreateIntents, KeepsLots
      <3>2. CASE ~(\A i \in LegsOf(d) : Created(i))
        BY <1>0, <2>2, <3>2, CreateEffect
      <3> QED
        BY <3>1, <3>2
    <2>3. ASSUME NEW old \in Decision, Supersede(old, d)
          PROVE  Keeps
      BY <1>0, <2>3, SupersedeEffect
    <2> QED
      BY <1>6, <2>1, <2>2, <2>3 DEF DecisionStep
  <1> QED
    BY <1>1, <1>2, <1>3, <1>4, <1>5, <1>6 DEF StoreNext

\* Everything the store's methods preserve, together.
THEOREM StoreInvariant == StoreSpec => []StoreInv
  <1>1. StoreInit => StoreInv
    BY StoreInitInv
  <1>2. StoreInv /\ [StoreNext]_storeVars => StoreInv'
    BY StoreStep
  <1> QED
    BY <1>1, <1>2, PTL DEF StoreSpec

\* Every row keeps to the columns and the values the code writes.
THEOREM StoreTypes == StoreSpec => []StoreTypeOK
  <1>1. StoreInv => StoreTypeOK
    BY DEF StoreInv
  <1> QED
    BY <1>1, StoreInvariant, PTL

\* Order rows and intent rows point at each other, in whatever order
\* submissions, fills and reports are written.
THEOREM OrdersAndIntentsMatch == StoreSpec => []OrdersBelongToOneIntent
  <1>1. StoreInv => OrdersBelongToOneIntent
    BY DEF StoreInv
  <1> QED
    BY <1>1, StoreInvariant, PTL

\* No sequence of methods drives cash, frozen cash or position below zero,
\* whatever the prices and the fee rate.
THEOREM NoOverdraft == StoreSpec => []BalancesNonNegative
  <1>1. StoreInv => BalancesNonNegative
    BY DEF StoreInv
  <1> QED
    BY <1>1, StoreInvariant, PTL

\* A signal date never has two active decisions.
THEOREM OneActiveDecision == StoreSpec => []OneDecisionPerSignalDate
  <1>1. StoreInv => OneDecisionPerSignalDate
    BY DEF StoreInv
  <1> QED
    BY <1>1, StoreInvariant, PTL

-----------------------------------------------------------------------------
(* The ledger: how far rounding can take it from the balances.             *)

\* Rounding to the grid moves a number by half a tick at most.
LEMMA RoundNear ==
  ASSUME NEW n \in Int, NEW d \in Nat \ {0}
  PROVE  /\ RoundHalfEven(n, d) \in Int
         /\ 2 * (d * RoundHalfEven(n, d)) - 2 * n <= d
         /\ 2 * n - 2 * (d * RoundHalfEven(n, d)) <= d
  <1> DEFINE q == n \div d
             r == n % d
  <1>1. q \in Int /\ r \in Int /\ n = d * q + r /\ 0 <= r /\ r < d
    OBVIOUS
  <1>2. RoundHalfEven(n, d) = IF 2 * r > d \/ (2 * r = d /\ q % 2 = 1) THEN q + 1 ELSE q
    BY DEF RoundHalfEven
  <1> HIDE DEF q, r
  <1>3. d * (q + 1) = d * q + d /\ d * q \in Int
    BY <1>1
  <1>4. CASE 2 * r > d \/ (2 * r = d /\ q % 2 = 1)
    <2>1. RoundHalfEven(n, d) = q + 1 /\ 2 * r >= d
      BY <1>1, <1>2, <1>4
    <2> QED
      BY <1>1, <1>3, <2>1
  <1>5. CASE ~(2 * r > d \/ (2 * r = d /\ q % 2 = 1))
    <2>1. RoundHalfEven(n, d) = q /\ 2 * r <= d
      BY <1>1, <1>2, <1>5
    <2> QED
      BY <1>1, <1>3, <2>1
  <1> QED
    BY <1>4, <1>5

\* A sum of numbers rounded one by one is off by half a tick per number.
LEMMA SumNear ==
  ASSUME NEW x, NEW y, NEW S, IsFiniteSet(S), NEW d \in Nat \ {0},
         \A i \in S : /\ x[i] \in Int /\ y[i] \in Int
                      /\ 2 * (d * y[i]) - 2 * x[i] <= d /\ 2 * x[i] - 2 * (d * y[i]) <= d
  PROVE  LET X == SumFunctionOnSet(x, S)
             Y == SumFunctionOnSet(y, S)
         IN  /\ 2 * (d * Y) - 2 * X <= d * Cardinality(S)
             /\ 2 * X - 2 * (d * Y) <= d * Cardinality(S)
  <1> DEFINE Total(f, T) == SumFunctionOnSet(f, T)
             Near(T) == /\ 2 * (d * Total(y, T)) - 2 * Total(x, T) <= d * Cardinality(T)
                        /\ 2 * Total(x, T) - 2 * (d * Total(y, T)) <= d * Cardinality(T)
             Bad == {T \in SUBSET S : ~Near(T)}
  <1>1. SUFFICES ASSUME Bad # {}  PROVE FALSE
    OBVIOUS
  <1>2. PICK T \in Bad : \A U \in Bad : U \subseteq T => U = T
    <2>1. Bad \subseteq SUBSET S
      OBVIOUS
    <2> HIDE DEF Bad
    <2> QED
      BY <1>1, <2>1, MinimalSubset
  <1>3. IsFiniteSet(T) /\ T \subseteq S /\ ~Near(T)
    BY <1>2, FS_Subset
  <1>4. T # {}
    <2>1. SUFFICES ASSUME T = {}  PROVE FALSE
      OBVIOUS
    <2>2. Total(x, T) = 0 /\ Total(y, T) = 0 /\ Cardinality(T) = 0
      BY <2>1, SumEmpty, FS_EmptySet
    <2> QED
      BY <1>3, <2>2
  <1> DEFINE p == Pick(T)
             u == T \ {p}
  <1>5. p \in T /\ IsFiniteSet(u) /\ u \subseteq S /\ u # T
    BY <1>3, <1>4, Picks, FS_Subset
  <1>6. Near(u)
    BY <1>2, <1>5
  <1>7. Total(x, T) = x[p] + Total(x, u) /\ Total(y, T) = y[p] + Total(y, u)
    BY <1>3, <1>4, SumPick
  <1>8. Cardinality(u) \in Nat /\ Cardinality(T) = Cardinality(u) + 1
    <2>1. Cardinality(u) = Cardinality(T) - 1 /\ Cardinality(T) \in Nat
      BY <1>3, <1>5, FS_RemoveElement, FS_CardinalityType
    <2>2. Cardinality(u) \in Nat
      BY <1>5, FS_CardinalityType
    <2> QED
      BY <2>1, <2>2
  <1>9. Total(x, u) \in Int /\ Total(y, u) \in Int
    <2> HIDE DEF u
    <2> QED
      BY <1>5, SumInt
  <1>10. /\ x[p] \in Int /\ y[p] \in Int
         /\ 2 * (d * y[p]) - 2 * x[p] <= d /\ 2 * x[p] - 2 * (d * y[p]) <= d
    BY <1>3, <1>5
  <1> DEFINE c == Cardinality(u)
             X == Total(x, u)
             Y == Total(y, u)
             m == x[p]
             n == y[p]
  <1>11. /\ 2 * (d * Y) - 2 * X <= d * c /\ 2 * X - 2 * (d * Y) <= d * c
         /\ ~(/\ 2 * (d * (n + Y)) - 2 * (m + X) <= d * (c + 1)
              /\ 2 * (m + X) - 2 * (d * (n + Y)) <= d * (c + 1))
    BY <1>3, <1>6, <1>7, <1>8
  <1>12. c \in Nat /\ X \in Int /\ Y \in Int /\ m \in Int /\ n \in Int
    BY <1>8, <1>9, <1>10
  <1>13. 2 * (d * n) - 2 * m <= d /\ 2 * m - 2 * (d * n) <= d
    BY <1>10
  <1> HIDE DEF Total, Near, Bad, c, X, Y, m, n, p, u
  <1>14. /\ d * (n + Y) = d * n + d * Y /\ d * (c + 1) = d * c + d
         /\ d * n \in Int /\ d * Y \in Int /\ d * c \in Int
    BY <1>12
  <1> QED
    BY <1>11, <1>12, <1>13, <1>14

\* So the one rounding of a batch differs from those of its legs by at most
\* half a tick for each buy and another half.
LEMMA BatchRoundingSmall ==
  ASSUME NEW d \in Decision
  PROVE  /\ BatchRounding(d) \in Int
         /\ 2 * BatchRounding(d) <= Cardinality(Buys(LegsOf(d))) + 1
         /\ -2 * BatchRounding(d) <= Cardinality(Buys(LegsOf(d))) + 1
  <1> DEFINE x == [i \in Intent |-> Notional(i, Leg[i].quantity) * (FeeDen + FeeNum)]
             y == [i \in Intent |-> Reserve(i, Leg[i].quantity)]
             S == Buys(LegsOf(d))
             X == SumFunctionOnSet(x, S)
             B == RoundHalfEven(X, FeeDen)
             L == SumFunctionOnSet(y, S)
  <1>1. IsFiniteSet(S) /\ S \subseteq Intent /\ FeeDen \in Nat \ {0} /\ FeeNum \in Nat
    BY FiniteAssumption, FeeAssumption, FS_Subset DEF Buys, LegsOf
  <1>2. BatchRounding(d) = B - L
    BY DEF BatchRounding, BatchReserve, LedgerReserve
  <1>3. ASSUME NEW i \in S
        PROVE  /\ x[i] \in Int /\ y[i] \in Int
               /\ 2 * (FeeDen * y[i]) - 2 * x[i] <= FeeDen
               /\ 2 * x[i] - 2 * (FeeDen * y[i]) <= FeeDen
    <2>1. i \in Intent /\ Leg[i].quantity \in Nat
      BY <1>1, LegAssumption DEF LegType
    <2>2. Notional(i, Leg[i].quantity) \in Int
      BY <2>1, AmountTypes
    <2>3. x[i] \in Int /\ x[i] = Notional(i, Leg[i].quantity) * (FeeDen + FeeNum)
      BY <1>1, <2>1, <2>2
    <2>4. y[i] = RoundHalfEven(x[i], FeeDen)
      BY <2>1, <2>3 DEF Reserve
    <2> HIDE DEF x, y
    <2> QED
      BY <1>1, <2>3, <2>4, RoundNear
  <1> HIDE DEF x, y, S
  <1>4. X \in Int /\ L \in Int /\ Cardinality(S) \in Nat
    BY <1>1, <1>3, SumInt, FS_CardinalityType
  <1>5. /\ 2 * (FeeDen * L) - 2 * X <= FeeDen * Cardinality(S)
        /\ 2 * X - 2 * (FeeDen * L) <= FeeDen * Cardinality(S)
    BY <1>1, <1>3, SumNear
  <1>6. B \in Int /\ 2 * (FeeDen * B) - 2 * X <= FeeDen /\ 2 * X - 2 * (FeeDen * B) <= FeeDen
    <2> HIDE DEF X
    <2> QED
      BY <1>1, <1>4, RoundNear
  <1> DEFINE c == Cardinality(S)
  <1>7. /\ c \in Nat /\ c = Cardinality(Buys(LegsOf(d)))
        /\ 2 * (FeeDen * L) - 2 * X <= FeeDen * c /\ 2 * X - 2 * (FeeDen * L) <= FeeDen * c
    BY <1>4, <1>5 DEF S
  <1> HIDE DEF X, B, L, c
  <1>8. PICK fb \in Int, fl \in Int, fc \in Int :
          fb = FeeDen * B /\ fl = FeeDen * L /\ fc = FeeDen * c
    BY <1>1, <1>4, <1>6, <1>7
  <1>9. FeeDen * (2 * (B - L)) <= FeeDen * (c + 1) /\ FeeDen * (2 * (L - B)) <= FeeDen * (c + 1)
    <2>1. /\ FeeDen * (2 * (L - B)) = 2 * fl - 2 * fb
          /\ FeeDen * (2 * (B - L)) = 2 * fb - 2 * fl
          /\ FeeDen * (c + 1) = fc + FeeDen
      BY <1>1, <1>4, <1>6, <1>7, <1>8
    <2>2. /\ 2 * fl - 2 * X <= fc /\ 2 * X - 2 * fl <= fc
          /\ 2 * fb - 2 * X <= FeeDen /\ 2 * X - 2 * fb <= FeeDen
      BY <1>6, <1>7, <1>8
    <2>3. 2 * fl - 2 * fb <= fc + FeeDen /\ 2 * fb - 2 * fl <= fc + FeeDen
      BY <1>1, <1>4, <1>8, <2>2
    <2> QED
      BY <2>1, <2>3
  <1>10. \A k \in Nat \ {0} : \A m, n \in Int : k * m <= k * n => m <= n
    <2> SUFFICES ASSUME NEW k \in Nat \ {0}, NEW m \in Int, NEW n \in Int, m > n
                 PROVE  k * m > k * n
      OBVIOUS
    <2>1. k * (m - n) >= 1
      OBVIOUS
    <2>2. k * (m - n) = k * m - k * n
      OBVIOUS
    <2> QED
      BY <2>1, <2>2
  <1>11. 2 * (B - L) <= c + 1 /\ 2 * (L - B) <= c + 1
    BY <1>1, <1>4, <1>6, <1>7, <1>9, <1>10
  <1> QED
    BY <1>2, <1>4, <1>6, <1>7, <1>11

\* What the batches in the set C of stored intents have added for account a.
RoundingOf(a, C) ==
  SumFunctionOnSet([d \in Decision |-> IF Plan[d].account = a /\ LegsOf(d) \subseteq C
                                       THEN BatchRounding(d) ELSE 0], Decision)
Stored == {i \in Intent : Created(i)}

LEMMA NoLegsNoRounding ==
  ASSUME NEW d \in Decision, LegsOf(d) = {}  PROVE BatchRounding(d) = 0
  <1>1. \A i \in Buys(LegsOf(d)) : FALSE
    BY DEF Buys
  <1>2. LedgerReserve(LegsOf(d)) = 0 /\ BatchReserve(LegsOf(d)) = RoundHalfEven(0, FeeDen)
    BY <1>1, SumEmpty DEF LedgerReserve, BatchReserve
  <1>3. RoundHalfEven(0, FeeDen) = 0
    <2>1. 0 \div FeeDen = 0 /\ 0 % FeeDen = 0 /\ FeeDen \in Nat \ {0}
      BY FeeAssumption
    <2> QED
      BY <2>1 DEF RoundHalfEven
  <1> QED
    BY <1>2, <1>3 DEF BatchRounding

LEMMA RoundingInt == ASSUME NEW a, NEW C \in SUBSET Intent  PROVE RoundingOf(a, C) \in Int
  <1> DEFINE f == [e \in Decision |-> IF Plan[e].account = a /\ LegsOf(e) \subseteq C
                                      THEN BatchRounding(e) ELSE 0]
  <1>1. IsFiniteSet(Decision) /\ \A e \in Decision : f[e] \in Int
    BY FiniteAssumption, BatchRoundingSmall
  <1>2. RoundingOf(a, C) = SumFunctionOnSet(f, Decision)
    BY DEF RoundingOf
  <1> HIDE DEF f
  <1> QED
    BY <1>1, <1>2, SumInt

LEMMA RoundingAdds ==
  ASSUME NEW a, NEW C \in SUBSET Intent, NEW d \in Decision, LegsOf(d) \cap C = {}
  PROVE  /\ RoundingOf(a, C) \in Int
         /\ RoundingOf(a, C \cup LegsOf(d)) =
              RoundingOf(a, C) + (IF Plan[d].account = a THEN BatchRounding(d) ELSE 0)
  <1> DEFINE f == [e \in Decision |-> IF Plan[e].account = a /\ LegsOf(e) \subseteq C
                                      THEN BatchRounding(e) ELSE 0]
             g == [e \in Decision |-> IF Plan[e].account = a /\ LegsOf(e) \subseteq C \cup LegsOf(d)
                                      THEN BatchRounding(e) ELSE 0]
  <1>1. IsFiniteSet(Decision) /\ \A e \in Decision : f[e] \in Int /\ g[e] \in Int
    BY FiniteAssumption, BatchRoundingSmall
  <1>2. \A e \in Decision \ {d} : f[e] = g[e]
    BY DEF LegsOf
  <1>3. LegsOf(d) = {} => BatchRounding(d) = 0
    BY NoLegsNoRounding
  <1>4. g[d] = f[d] + (IF Plan[d].account = a THEN BatchRounding(d) ELSE 0)
    <2>1. g[d] = IF Plan[d].account = a THEN BatchRounding(d) ELSE 0
      OBVIOUS
    <2>2. f[d] = 0
      BY <1>3
    <2> QED
      BY <1>1, <2>1, <2>2
  <1>5. RoundingOf(a, C) = SumFunctionOnSet(f, Decision)
        /\ RoundingOf(a, C \cup LegsOf(d)) = SumFunctionOnSet(g, Decision)
    BY DEF RoundingOf
  <1> HIDE DEF f, g
  <1>6. SumFunctionOnSet(f, Decision) \in Int
    BY <1>1, SumInt
  <1>7. SumFunctionOnSet(g, Decision) = SumFunctionOnSet(f, Decision) + g[d] - f[d]
    BY <1>1, <1>2, SumChange
  <1>8. BatchRounding(d) \in Int
    BY BatchRoundingSmall
  <1> QED
    BY <1>1, <1>4, <1>5, <1>6, <1>7, <1>8

\* A step stores no intent, or all of one batch.
SameRows == \A i \in Intent : intent'[i].status = "NONE" <=> intent[i].status = "NONE"
StoresBatch(d) ==
  /\ LegsOf(d) \cap Stored = {} /\ Stored' = Stored \cup LegsOf(d)
  /\ \A b \in Account : DriftsBy(b, IF b = Plan[d].account THEN BatchRounding(d) ELSE 0)

LEMMA StoredStep ==
  ASSUME StoreInv, [StoreNext]_storeVars
  PROVE  \/ LedgerKept /\ Stored' = Stored
         \/ \E d \in Decision : StoresBatch(d)
  <1> DEFINE Keeps == LedgerKept /\ SameRows
  <1>0. /\ SameRows => Stored' = Stored
        /\ UNCHANGED intent => SameRows
    BY DEF SameRows, Stored, Created
  <1>1. CASE UNCHANGED storeVars
    BY <1>0, <1>1, SameMoney DEF storeVars
  <1>2. CASE Backfill
    BY <1>0, <1>2, BackfillInv, BackfillEffect DEF SameRows, KeepsRow
  <1>3. ASSUME NEW i \in Intent, IntentStep(i)
        PROVE  Keeps
    <2>1. ASSUME NEW s \in IntentStatus \ {"NONE"}, SetStatus(i, s), Created(i)
          PROVE  Keeps
      <3>1. StatusSet(i, s)
        BY <2>1, SetStatusEffect DEF SetStatus
      <3>2. LedgerKept
        BY <2>1, SetStatusInv
      <3> QED
        BY <2>1, <3>1, <3>2 DEF StatusSet, OnlyIntent, SameRows, Created
    <2>2. CASE Claim(i) \/ Activate(i)
      BY <2>1, <2>2 DEF Claim, Activate, Created, IntentStatus, Unsent, KnownOrder, ActiveOrder
    <2>3. CASE Requeue(i)
      <3>1. OnlyIntent(i) /\ intent'[i].status = Requeued(i) /\ intent[i].status = "EXPIRED"
        BY <2>3, RequeueEffect DEF RowQueued, Requeue, RequeueOK, Recoverable
      <3> QED
        BY <2>3, <3>1, RequeueInv DEF SameRows, OnlyIntent, Requeued
    <2>4. CASE Resolve(i)
      BY <2>4, ResolveInv, ResolveEffect DEF SameRows, OnlyIntent, KeepsRow
    <2>5. ASSUME NEW s \in TerminalIntent, NEW why \in Reason, Release(i, s, why)
          PROVE  Keeps
      <3>1. CASE IsOpen(i)
        <4>1. OnlyIntent(i) /\ intent'[i].status = s
          BY <2>5, <3>1, ReleaseEffect DEF IsClosed
        <4>2. s # "NONE" /\ intent[i].status # "NONE"
          BY <3>1 DEF IsOpen, TerminalIntent, TerminalOrder
        <4> QED
          BY <2>5, <4>1, <4>2, ReleaseInv DEF SameRows, OnlyIntent
      <3>2. CASE ~IsOpen(i)
        BY <1>0, <2>5, <3>2, ReleaseInv DEF Release
      <3> QED
        BY <3>1, <3>2
    <2>6. ASSUME NEW s \in KnownOrder \cup {"SUBMISSION_UNCERTAIN"}, Created(i), SetStatus(i, s)
          PROVE  Keeps
      <3>1. s \in IntentStatus \ {"NONE"}
        BY DEF IntentStatus, KnownOrder, TerminalOrder, ActiveOrder
      <3> QED
        BY <2>1, <2>6, <3>1
    <2>7. ASSUME NEW o \in OrderId, NEW s \in KnownOrder, Bind(i, o, s)
          PROVE  Keeps
      <3>1. OnlyIntent(i) /\ intent'[i].status = s
        BY <2>7, BindEffect
      <3>2. s # "NONE" /\ intent[i].status # "NONE"
        BY <2>7 DEF Bind, BindOK, KnownOrder, TerminalOrder, ActiveOrder
      <3> QED
        BY <2>7, <3>1, <3>2, BindInv DEF SameRows, OnlyIntent
    <2> QED
      BY <1>3, <2>2, <2>3, <2>4, <2>5, <2>6, <2>7 DEF IntentStep
  <1>4. ASSUME NEW o \in OrderId, order[o] # None, OrderStep(o)
        PROVE  Keeps
    <2>1. order[o] \in OrderRow /\ order[o].intent \in Intent
          /\ Leg[order[o].intent].quantity \in Nat
      BY <1>4, LegAssumption DEF StoreInv, StoreTypeOK, OrderRow, LegType
    <2>2. ASSUME NEW n \in 1 .. Leg[order[o].intent].quantity, ApplyFill(o, n)
          PROVE  Keeps
      <3>1. n \in Nat /\ UNCHANGED intent
        BY <2>1, <2>2 DEF ApplyFill
      <3> QED
        BY <1>0, <2>2, <3>1, ApplyFillInv
    <2>3. ASSUME NEW s \in KnownOrder, Report(o, s)
          PROVE  Keeps
      <3>1. LedgerKept
        BY <2>3, ReportInv
      <3>2. CASE s \in TerminalOrder
        BY <1>0, <2>3, <3>1, <3>2 DEF Report
      <3>3. CASE s \notin TerminalOrder
        <4>1. StatusSet(order[o].intent, s)
          BY <2>3, <3>3, ReportEffect
        <4>2. s # "NONE"
          BY DEF KnownOrder, TerminalOrder, ActiveOrder
        <4>3. intent[order[o].intent].status # "NONE"
          BY <1>4, <2>1, NoneAssumption DEF StoreInv, BlankRows, OrdersBelongToOneIntent
        <4> QED
          BY <3>1, <4>1, <4>2, <4>3 DEF StatusSet, OnlyIntent, SameRows
      <3> QED
        BY <3>2, <3>3
    <2> QED
      BY <1>4, <2>2, <2>3 DEF OrderStep
  <1>5. ASSUME NEW a \in Account, AccountStep(a)
        PROVE  Keeps
    <2>1. UNCHANGED <<intent, ledger>>
      BY <1>5 DEF AccountStep, SetHealth, SetPaused
    <2>2. /\ account \in [Account -> AccountRow]
          /\ \E row : /\ account' = [account EXCEPT ![a] = row] /\ row.cash = account[a].cash
                      /\ row.frozen = account[a].frozen /\ row.quantity = account[a].quantity
      <3>1. account[a] \in AccountRow
        BY DEF StoreInv, StoreTypeOK
      <3>2. CASE \E h \in {"OK", "BLOCKED"}, e \in Error : SetHealth(a, h, e)
        <4>1. PICK h \in {"OK", "BLOCKED"}, e \in Error : SetHealth(a, h, e)
          BY <3>2
        <4>2. account' = [account EXCEPT ![a] = WithHealth(h, e, account[a])]
          BY <4>1 DEF SetHealth
        <4>3. /\ WithHealth(h, e, account[a]).cash = account[a].cash
              /\ WithHealth(h, e, account[a]).frozen = account[a].frozen
              /\ WithHealth(h, e, account[a]).quantity = account[a].quantity
          BY <3>1, HealthRow
        <4> QED
          BY <4>2, <4>3 DEF StoreInv, StoreTypeOK
      <3>3. CASE \E p \in BOOLEAN : SetPaused(a, p)
        BY <3>1, <3>3 DEF SetPaused, AccountRow, StoreInv, StoreTypeOK
      <3> QED
        BY <1>5, <3>2, <3>3 DEF AccountStep
    <2>3. LedgerKept
      BY <2>1, <2>2, SameMoney
    <2> QED
      BY <1>0, <2>1, <2>3
  <1>6. ASSUME NEW d \in Decision, DecisionStep(d)
        PROVE  Keeps \/ StoresBatch(d)
    <2>1. CASE SaveDecision(d)
      BY <1>0, <2>1, SaveDecisionInv DEF SaveDecision
    <2>2. CASE CreateIntents(d)
      <3>1. \A b \in Account :
              DriftsBy(b, IF b = Plan[d].account /\ ~Issued(d) THEN BatchRounding(d) ELSE 0)
        BY <2>2, CreateIntentsInv
      <3>2. CASE Issued(d)
        <4>1. LedgerKept
          BY <3>1, <3>2 DEF LedgerKept
        <4>2. UNCHANGED intent
          BY <2>2, <3>2 DEF CreateIntents, Issued
        <4> QED
          BY <1>0, <4>1, <4>2
      <3>3. CASE ~Issued(d)
        <4>1. /\ \A i \in LegsOf(d) : ~Created(i) /\ intent'[i] = NewIntent(i)
              /\ \A i \in Intent \ LegsOf(d) : intent'[i] = intent[i]
          BY <2>2, <3>3, CreateEffect DEF Issued
        <4>2. \A i \in Intent : NewIntent(i).status # "NONE"
          BY DEF NewIntent
        <4>3. LegsOf(d) \cap Stored = {} /\ Stored' = Stored \cup LegsOf(d)
          BY <4>1, <4>2 DEF Stored, Created, LegsOf
        <4> QED
          BY <3>1, <3>3, <4>3 DEF StoresBatch
      <3> QED
        BY <3>2, <3>3
    <2>3. ASSUME NEW old \in Decision, Supersede(old, d)
          PROVE  Keeps \/ StoresBatch(d)
      <3> DEFINE a == Plan[d].account
      <3>1. \A b \in Account :
              DriftsBy(b, IF b = a /\ ~account[b].paused THEN BatchRounding(d) ELSE 0)
        BY <2>3, SupersedeInv
      <3>2. /\ \A i \in Fresh(d) : ~Created(i) /\ intent'[i] = NewIntent(i)
            /\ \A i \in OpenIntents(a) : intent'[i].status = "SUPERSEDED"
            /\ \A i \in Intent \ (Fresh(d) \cup OpenIntents(a)) : intent'[i] = intent[i]
        BY <2>3, SupersedeEffect, ZenonT(60) DEF IsClosed
      <3>3. \A i \in OpenIntents(a) : i \in Intent /\ Created(i)
        BY DEF OpenIntents, IntentsOf, Created
      <3>4. \A i \in Intent : NewIntent(i).status # "NONE"
        BY DEF NewIntent
      <3>5. Fresh(d) \subseteq Intent /\ a \in Account
        BY PlanAssumption DEF Fresh, LegsOf
      <3> HIDE DEF a
      <3>6. Fresh(d) \cap Stored = {} /\ Stored' = Stored \cup Fresh(d)
        BY <3>2, <3>3, <3>4, <3>5 DEF Stored, Created
      <3>7. CASE account[a].paused
        <4>1. LedgerKept
          BY <3>1, <3>7 DEF LedgerKept
        <4>2. Fresh(d) = {}
          BY <3>7 DEF Fresh, a
        <4>3. SameRows
          BY <3>2, <3>3, <4>2 DEF SameRows, Created
        <4> QED
          BY <4>1, <4>3
      <3>8. CASE ~account[a].paused
        <4>1. Fresh(d) = LegsOf(d)
          BY <3>8 DEF Fresh, a
        <4>2. \A b \in Account : DriftsBy(b, IF b = Plan[d].account THEN BatchRounding(d) ELSE 0)
          BY <3>1, <3>8 DEF a
        <4> QED
          BY <3>6, <4>1, <4>2 DEF StoresBatch
      <3> QED
        BY <3>7, <3>8
    <2> QED
      BY <1>6, <2>1, <2>2, <2>3 DEF DecisionStep
  <1> QED
    BY <1>0, <1>1, <1>2, <1>3, <1>4, <1>5, <1>6 DEF StoreNext

\* The intents stored since the first opening, but for those it found.
NewlyStored == Stored \ Legacy

\* What the ledger says of the position is exact, and so is what it says of cash
\* and frozen cash together.  Frozen cash is off by what the batches were
\* rounded to, and by nothing else: fills, releases, expiries, requeues and
\* replacements never add to it.
LedgerDrift ==
  \A a \in Account :
    /\ account[a].quantity = InitialQuantity + ledger[a].quantity
    /\ account[a].cash + account[a].frozen = InitialCash + ledger[a].cash + ledger[a].frozen
    /\ account[a].frozen = ledger[a].frozen + RoundingOf(a, NewlyStored)
\* Its three equations after a step, with x for the rounding.
AgreesNext(a, x) ==
  /\ account'[a].quantity = InitialQuantity + ledger'[a].quantity
  /\ account'[a].cash + account'[a].frozen = InitialCash + ledger'[a].cash + ledger'[a].frozen
  /\ account'[a].frozen = ledger'[a].frozen + x

LEMMA NoRounding == ASSUME NEW a  PROVE RoundingOf(a, {}) = 0
  <1> DEFINE f == [d \in Decision |-> IF Plan[d].account = a /\ LegsOf(d) \subseteq {}
                                      THEN BatchRounding(d) ELSE 0]
  <1>1. \A d \in Decision : f[d] = 0
    <2> SUFFICES ASSUME NEW d \in Decision, LegsOf(d) = {}
                 PROVE  BatchRounding(d) = 0
      OBVIOUS
    <2> QED
      BY NoLegsNoRounding
  <1>2. IsFiniteSet(Decision) /\ {} \in SUBSET Decision
    BY FiniteAssumption
  <1>3. RoundingOf(a, {}) = SumFunctionOnSet(f, Decision)
    BY DEF RoundingOf
  <1> HIDE DEF f
  <1>4. SumFunctionOnSet(f, Decision) = SumFunctionOnSet(f, {})
    BY <1>1, <1>2, SumZeros
  <1> QED
    BY <1>3, <1>4, SumEmpty

LEMMA DriftInit == StoreInit => LedgerDrift /\ Legacy \subseteq Stored
  <1> SUFFICES ASSUME StoreInit  PROVE LedgerDrift /\ Legacy \subseteq Stored
    OBVIOUS
  <1>1. \A i \in Intent : intent[i] = IF i \in Legacy THEN LegacyIntent(i) ELSE NoIntent
    BY DEF StoreInit
  <1>2. Stored = Legacy
    <2>1. \A i : LegacyIntent(i).status = "EXPIRED" /\ NoIntent.status = "NONE"
      BY DEF LegacyIntent, NoIntent
    <2> QED
      BY <1>1, <2>1, LegacyAssumption DEF Stored, Created
  <1>3. NewlyStored = {}
    BY <1>2 DEF NewlyStored
  <1>4. ASSUME NEW a \in Account
        PROVE  /\ account[a].cash = InitialCash /\ account[a].frozen = 0
               /\ account[a].quantity = InitialQuantity
               /\ ledger[a].cash = 0 /\ ledger[a].frozen = 0 /\ ledger[a].quantity = 0
    BY DEF StoreInit
  <1>5. \A a \in Account : RoundingOf(a, NewlyStored) = 0
    BY <1>3, NoRounding
  <1> QED
    BY <1>2, <1>4, <1>5, InitialAssumption DEF LedgerDrift

LEMMA DriftStep ==
  ASSUME StoreInv, LedgerDrift, Legacy \subseteq Stored, [StoreNext]_storeVars
  PROVE  LedgerDrift' /\ (Legacy \subseteq Stored)'
  <1>1. StoreInv'
    BY StoreStep
  <1>2. ASSUME NEW a \in Account
        PROVE  /\ account[a].cash \in Int /\ account[a].frozen \in Int
               /\ account[a].quantity \in Int
               /\ ledger[a].cash \in Int /\ ledger[a].frozen \in Int /\ ledger[a].quantity \in Int
               /\ account'[a].cash \in Int /\ account'[a].frozen \in Int
               /\ account'[a].quantity \in Int
               /\ ledger'[a].cash \in Int /\ ledger'[a].frozen \in Int
               /\ ledger'[a].quantity \in Int
    <2>1. account[a] \in AccountRow /\ ledger[a] \in LedgerRow
      BY DEF StoreInv, StoreTypeOK
    <2>2. account'[a] \in AccountRow /\ ledger'[a] \in LedgerRow
      BY <1>1 DEF StoreInv, StoreTypeOK
    <2> QED
      BY <2>1, <2>2 DEF AccountRow, LedgerRow
  <1>3. NewlyStored \in SUBSET Intent
    BY DEF NewlyStored, Stored
  <1>4. ASSUME NEW a \in Account, NEW x \in Int, DriftsBy(a, x)
        PROVE  AgreesNext(a, RoundingOf(a, NewlyStored) + x)
    <2> DEFINE r == RoundingOf(a, NewlyStored)
    <2>1. r \in Int
      BY <1>3, RoundingInt
    <2>2. /\ account[a].quantity = InitialQuantity + ledger[a].quantity
          /\ account[a].cash + account[a].frozen = InitialCash + ledger[a].cash + ledger[a].frozen
          /\ account[a].frozen = ledger[a].frozen + r
      BY DEF LedgerDrift
    <2> HIDE DEF r
    <2>3. /\ account'[a].quantity - ledger'[a].quantity = account[a].quantity - ledger[a].quantity
          /\ account'[a].cash + account'[a].frozen - ledger'[a].cash - ledger'[a].frozen
               = account[a].cash + account[a].frozen - ledger[a].cash - ledger[a].frozen
          /\ account'[a].frozen - ledger'[a].frozen = account[a].frozen - ledger[a].frozen + x
      BY <1>4 DEF DriftsBy
    <2>4. InitialCash \in Int /\ InitialQuantity \in Int
      BY InitialAssumption
    <2>5. account'[a].quantity = InitialQuantity + ledger'[a].quantity
      BY <1>2, <2>2, <2>3, <2>4
    <2>6. account'[a].cash + account'[a].frozen = InitialCash + ledger'[a].cash + ledger'[a].frozen
      <3>1. \A p, q, s, t, u, v, w, z, c \in Int :
              p + q - s - t = u + v - w - z /\ u + v = c + w + z => p + q = c + s + t
        OBVIOUS
      <3> DEFINE p == account'[a].cash
                 q == account'[a].frozen
                 u == account[a].cash
                 v == account[a].frozen
                 s == ledger'[a].cash
                 t == ledger'[a].frozen
                 w == ledger[a].cash
                 z == ledger[a].frozen
      <3>2. p \in Int /\ q \in Int /\ u \in Int /\ v \in Int
            /\ s \in Int /\ t \in Int /\ w \in Int /\ z \in Int
        BY <1>2
      <3>3. p + q - s - t = u + v - w - z /\ u + v = InitialCash + w + z
        BY <2>2, <2>3
      <3> HIDE DEF p, q, u, v, s, t, w, z
      <3>4. p + q = InitialCash + s + t
        BY <2>4, <3>1, <3>2, <3>3
      <3> QED
        BY <3>4 DEF p, q, s, t
    <2>7. account'[a].frozen = ledger'[a].frozen + (r + x)
      BY <1>2, <2>1, <2>2, <2>3
    <2> QED
      BY <2>5, <2>6, <2>7 DEF AgreesNext, r
  <1>5. CASE LedgerKept /\ Stored' = Stored
    <2>1. NewlyStored' = NewlyStored
      BY <1>5 DEF NewlyStored
    <2>2. \A a : RoundingOf(a, NewlyStored)' = RoundingOf(a, NewlyStored)
      BY <2>1 DEF RoundingOf
    <2>3. ASSUME NEW a \in Account
          PROVE  AgreesNext(a, RoundingOf(a, NewlyStored))
      <3>1. AgreesNext(a, RoundingOf(a, NewlyStored) + 0)
        BY <1>4, <1>5 DEF LedgerKept
      <3>2. RoundingOf(a, NewlyStored) \in Int
        BY <1>3, RoundingInt
      <3> QED
        BY <3>1, <3>2
    <2> QED
      BY <1>5, <2>2, <2>3 DEF LedgerDrift, AgreesNext
  <1>6. ASSUME NEW d \in Decision, StoresBatch(d)
        PROVE  LedgerDrift' /\ (Legacy \subseteq Stored)'
    <2>1. NewlyStored' = NewlyStored \cup LegsOf(d) /\ LegsOf(d) \cap NewlyStored = {}
      <3>1. Stored' = Stored \cup LegsOf(d) /\ LegsOf(d) \cap Stored = {}
        BY <1>6 DEF StoresBatch
      <3> QED
        BY <3>1 DEF NewlyStored
    <2>2. \A a : RoundingOf(a, NewlyStored)' = RoundingOf(a, NewlyStored \cup LegsOf(d))
      BY <2>1 DEF RoundingOf
    <2>3. ASSUME NEW a \in Account
          PROVE  AgreesNext(a, RoundingOf(a, NewlyStored \cup LegsOf(d)))
      <3> DEFINE x == IF a = Plan[d].account THEN BatchRounding(d) ELSE 0
      <3>1. DriftsBy(a, x)
        BY <1>6 DEF StoresBatch
      <3>2. RoundingOf(a, NewlyStored \cup LegsOf(d)) = RoundingOf(a, NewlyStored) + x
        BY <1>3, <2>1, RoundingAdds
      <3>3. x \in Int
        BY BatchRoundingSmall
      <3> QED
        BY <1>4, <3>1, <3>2, <3>3
    <2>4. (Legacy \subseteq Stored)'
      BY <1>6 DEF StoresBatch
    <2> QED
      BY <2>2, <2>3, <2>4 DEF LedgerDrift, AgreesNext
  <1> QED
    BY <1>5, <1>6, StoredStep

\* The ledger against the balances, at any price and fee rate: the position and
\* the total of cash agree to the tick; what is reserved differs by the rounding
\* of the batches alone, at most half a tick for each buy leg and for the batch.
THEOREM LedgerExplained ==
  /\ StoreSpec => []LedgerDrift
  /\ \A d \in Decision : /\ 2 * BatchRounding(d) <= Cardinality(Buys(LegsOf(d))) + 1
                         /\ -2 * BatchRounding(d) <= Cardinality(Buys(LegsOf(d))) + 1
  <1> DEFINE D == LedgerDrift /\ Legacy \subseteq Stored
  <1>1. StoreInit => D
    BY DriftInit
  <1>2. StoreInv /\ D /\ [StoreNext]_storeVars => D'
    BY DriftStep
  <1>3. D => LedgerDrift
    OBVIOUS
  <1>4. StoreSpec => []LedgerDrift
    <2> HIDE DEF D
    <2> QED
      BY <1>1, <1>2, <1>3, StoreInvariant, PTL DEF StoreSpec
  <1> QED
    BY <1>4, BatchRoundingSmall

=============================================================================
