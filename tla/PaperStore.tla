----------------------------- MODULE PaperStore -----------------------------
(***************************************************************************)
(* The SQLite runtime store of the paper trading engine: virtual accounts, *)
(* decisions, order intents, channel orders and the account ledger.  Every *)
(* operator "X" below that primes variables is one method of PaperStore,   *)
(* which runs as one transaction under the store lock; "XOK" is the        *)
(* condition under which the method commits instead of raising (a raise    *)
(* rolls the transaction back).  Callers decide what a raise means.        *)
(*                                                                         *)
(* Money is an integer number of ticks of the Decimal("0.0001") grid and   *)
(* quantities are lots; fills happen at the limit price.                   *)
(***************************************************************************)
EXTENDS Integers, FiniteSets, Functions

CONSTANTS Account, Decision, Intent, OrderId, None,
          Leg,             \* what each intent asks for (see LegAssumption)
          Plan,            \* the account and the signal date of each decision
          InitialCash, InitialQuantity,
          FeeNum, FeeDen,  \* the fee rate FeeNum / FeeDen
          Legacy           \* intents that an older release expired too early

Side == {"BUY", "SELL"}

LegType ==
  [account : Account, decision : Decision, sequence : Nat, side : Side,
   quantity : Nat \ {0}, price : Nat \ {0}, session : Nat,
   planned : BOOLEAN, after : Nat, before : Nat,
   dependency : Intent \cup {None}, setup : BOOLEAN]

\* The tables of the store are finite.
ASSUME FiniteAssumption ==
  IsFiniteSet(Account) /\ IsFiniteSet(Decision) /\ IsFiniteSet(Intent) /\ IsFiniteSet(OrderId)
ASSUME FeeAssumption == FeeNum \in Nat /\ FeeDen \in Nat \ {0}
ASSUME LegAssumption == Leg \in [Intent -> LegType]
ASSUME PlanAssumption == Plan \in [Decision -> [account : Account, signalDate : Nat]]
ASSUME OwnerAssumption == \A i \in Intent : Leg[i].account = Plan[Leg[i].decision].account
ASSUME InitialAssumption == InitialCash \in Nat /\ InitialQuantity \in Nat
ASSUME LegacyAssumption == Legacy \subseteq {i \in Intent : Leg[i].planned}
ASSUME LegacyDatesAssumption ==
  \A i, j \in Legacy : Plan[Leg[i].decision] = Plan[Leg[j].decision]
                         => Leg[i].decision = Leg[j].decision

TerminalOrder == {"SUBMIT_FAILED", "FILLED_ALL", "CANCELLED_PART", "CANCELLED_ALL",
                  "FAILED", "DISABLED", "DELETED", "FILL_CANCELLED"}
ActiveOrder == {"UNSUBMITTED", "WAITING_SUBMIT", "SUBMITTING", "SUBMITTED", "FILLED_PART",
                "CANCELLING_PART", "CANCELLING_ALL", "TIMEOUT"}
KnownOrder == TerminalOrder \cup ActiveOrder
AttentionRequired == (TerminalOrder \ {"FILLED_ALL"})
                       \cup {"REJECTED", "SUBMISSION_FAILED", "EXPIRED"}
TerminalIntent == TerminalOrder \cup {"REJECTED", "SUBMISSION_FAILED", "EXPIRED", "SUPERSEDED"}
UnresolvedIntent == {"SUBMITTING", "SUBMISSION_UNCERTAIN", "TIMEOUT"}

\* "NONE" is an intent that has not been inserted.
Unsent == {"NONE", "PENDING_SUBMIT", "WAITING_DEPENDENCY"}
IntentStatus == Unsent \cup KnownOrder \cup TerminalIntent \cup {"SUBMISSION_UNCERTAIN"}

OrderRow == [intent : Intent, status : KnownOrder, filled : Nat]
ASSUME NoneAssumption == None \notin Intent \cup OrderId \cup Decision \cup OrderRow

VARIABLES
  account,   \* virtual_accounts rows
  decision,  \* decisions rows: the status column, "NONE" before insertion
  intent,    \* intents rows
  order,     \* orders rows, None before insertion
  ledger     \* per account, the sums of the deltas of its account_ledger rows

storeVars == <<account, decision, intent, order, ledger>>

-----------------------------------------------------------------------------
(* Money.                                                                  *)

\* Decimal.quantize: n / d rounded to the grid, ties to the even neighbour.
RoundHalfEven(n, d) ==
  LET q == n \div d
      r == n % d
  IN  IF 2 * r > d \/ (2 * r = d /\ q % 2 = 1) THEN q + 1 ELSE q

Notional(i, n) == Leg[i].price * n
Fee(value) == RoundHalfEven(value * FeeNum, FeeDen)

\* What buying n lots of i freezes: price, quantity and fee, rounded once.
Reserve(i, n) == RoundHalfEven(Notional(i, n) * (FeeDen + FeeNum), FeeDen)

LegsOf(d) == {i \in Intent : Leg[i].decision = d}
Buys(I) == {i \in I : Leg[i].side = "BUY"}

BatchReserveNoFee(I) ==   \* mutant
  SumFunctionOnSet([i \in Intent |-> Notional(i, Leg[i].quantity)], Buys(I))

\* The reservation of a whole batch is rounded after the legs are added up ...
BatchReserve(I) ==
  RoundHalfEven(SumFunctionOnSet([i \in Intent |->
                  Notional(i, Leg[i].quantity) * (FeeDen + FeeNum)], Buys(I)), FeeDen)
\* ... while the ledger rows of the batch are rounded one by one.
LedgerReserve(I) ==
  SumFunctionOnSet([i \in Intent |-> Reserve(i, Leg[i].quantity)], Buys(I))

-----------------------------------------------------------------------------
(* Reading the store.                                                      *)

IsOpen(i) == intent[i].status \notin TerminalIntent \cup {"NONE"}
IsTerminal(i) == intent[i].status \in TerminalIntent
IntentsOf(a) == {i \in Intent : Leg[i].account = a /\ intent[i].status # "NONE"}
OpenIntents(a) == {i \in IntentsOf(a) : IsOpen(i)}
WithStatus(s) == {i \in Intent : intent[i].status = s}
AttentionIntents(a) == {i \in IntentsOf(a) : intent[i].attention}
UnresolvedIntents(a) == {i \in IntentsOf(a) : intent[i].status \in UnresolvedIntent}

Filled(i) == IF intent[i].order = None THEN 0 ELSE order[intent[i].order].filled
Remaining(i) == Leg[i].quantity - Filled(i)

\* Sell intents that no longer hold back position; CANCELLED_PART is not listed.
SellReleased == {"REJECTED", "SUBMISSION_FAILED", "SUBMIT_FAILED", "EXPIRED", "CANCELLED_ALL",
                 "FAILED", "DISABLED", "DELETED", "FILL_CANCELLED", "FILLED_ALL", "SUPERSEDED"}
HoldsBack(i) == Leg[i].side = "SELL" /\ intent[i].status \notin SellReleased
RemainingOf(I) == SumFunctionOnSet([i \in Intent |-> Remaining(i)], I)
ReservedSell(a) == RemainingOf({i \in IntentsOf(a) : HoldsBack(i)})
PlannedSell(d) ==
  SumFunctionOnSet([i \in Intent |-> Leg[i].quantity], LegsOf(d) \ Buys(LegsOf(d)))

\* account_invariant_violations: the ledger does not add up to the balances.
LedgerViolated(a) ==
  \/ account[a].cash # InitialCash + ledger[a].cash
  \/ account[a].frozen # ledger[a].frozen
  \/ account[a].quantity # InitialQuantity + ledger[a].quantity

-----------------------------------------------------------------------------
(* Writing the store.  Book moves money and lots of an account together    *)
(* with the ledger row that explains the move.                             *)

Moved(row, c, f, q) ==
  [row EXCEPT !.cash = @ + c, !.frozen = @ + f, !.quantity = @ + q]
Book(a, c, f, q) ==
  /\ account' = [account EXCEPT ![a] = Moved(@, c, f, q)]
  /\ ledger' = [ledger EXCEPT ![a] = Moved(@, c, f, q)]

WithHealthSwapped(h, e, row) == [row EXCEPT !.health = e, !.error = h]   \* mutant
WithHealth(h, e, row) == [row EXCEPT !.health = h, !.error = e]
SetHealth(a, h, e) ==
  /\ account' = [account EXCEPT ![a] = WithHealth(h, e, @)]
  /\ UNCHANGED <<decision, intent, order, ledger>>

SetPaused(a, p) ==
  /\ account' = [account EXCEPT ![a].paused = p]
  /\ UNCHANGED <<decision, intent, order, ledger>>

SetStatus(i, s) ==
  /\ intent' = [intent EXCEPT ![i].status = s]
  /\ UNCHANGED <<account, decision, order, ledger>>

\* Compare-and-set of one status, the only locks between submitters.
Claim(i) == intent[i].status = "PENDING_SUBMIT" /\ SetStatus(i, "SUBMITTING")
Activate(i) == intent[i].status = "WAITING_DEPENDENCY" /\ SetStatus(i, "PENDING_SUBMIT")

\* The reservation of what was not filled.
ReleaseAmount(i) == IF Leg[i].side = "BUY" THEN Reserve(i, Remaining(i)) ELSE 0

\* The release row of a reservation generation is a primary key of the ledger.
ReleaseOK(i) ==
  IsOpen(i) => /\ ReleaseAmount(i) <= account[Leg[i].account].frozen
               /\ ReleaseAmount(i) > 0 => intent[i].generation \notin intent[i].released

\* Mutant: nobody is asked to look at what ended incompletely.
ClosedUnreviewed(i, s, why, row) ==
  [row EXCEPT !.status = s, !.attention = FALSE, !.reason = "none", !.resolved = FALSE,
              !.released = IF ReleaseAmount(i) > 0 THEN @ \cup {row.generation} ELSE @]
Closed(i, s, why, row) ==
  [row EXCEPT !.status = s, !.attention = s \in AttentionRequired,
              !.reason = IF s \in AttentionRequired THEN why ELSE "none",
              !.resolved = FALSE,
              !.released = IF ReleaseAmount(i) > 0 THEN @ \cup {row.generation} ELSE @]

\* Mutant: the whole reservation is given back, whatever the fills have used.
ReleaseWhole(i, s, why) ==
  LET whole == IF Leg[i].side = "BUY" THEN Reserve(i, Leg[i].quantity) ELSE 0
  IN  /\ ReleaseOK(i)
      /\ IF IsOpen(i)
         THEN /\ Book(Leg[i].account, whole, -whole, 0)
              /\ intent' = [intent EXCEPT ![i] = Closed(i, s, why, @)]
         ELSE UNCHANGED <<account, intent, ledger>>
      /\ UNCHANGED <<decision, order>>
Release(i, s, why) ==
  /\ ReleaseOK(i)
  /\ IF IsOpen(i)
     THEN /\ Book(Leg[i].account, ReleaseAmount(i), -ReleaseAmount(i), 0)
          /\ intent' = [intent EXCEPT ![i] = Closed(i, s, why, @)]
     ELSE UNCHANGED <<account, intent, ledger>>
  /\ UNCHANGED <<decision, order>>

\* recover_future_planned_intent: queue again what an older clock rule expired.
Recoverable(i) ==
  /\ intent[i].status = "EXPIRED" /\ intent[i].attention /\ intent[i].order = None
  /\ intent[i].reason = "deadline" /\ Leg[i].planned
Requeued(i) == IF Leg[i].dependency = None THEN "PENDING_SUBMIT" ELSE "WAITING_DEPENDENCY"
RequeueReserveNoFee(i) ==   \* mutant
  IF Leg[i].side = "BUY" THEN Notional(i, Leg[i].quantity) ELSE 0
RequeueReserve(i) == IF Leg[i].side = "BUY" THEN Reserve(i, Leg[i].quantity) ELSE 0

\* Mutant: the reservation that is taken again keeps its old generation.
QueuedSameGeneration(i, row) ==
  [row EXCEPT !.status = Requeued(i), !.attention = FALSE, !.reason = "none", !.resolved = TRUE]
Queued(i, row) ==
  [row EXCEPT !.status = Requeued(i), !.attention = FALSE, !.reason = "none", !.resolved = TRUE,
              !.generation = IF Leg[i].side = "BUY" THEN @ + 1 ELSE @]

RequeueOK(i) == Recoverable(i) /\ RequeueReserve(i) <= account[Leg[i].account].cash
\* Mutant: the reservation is taken again without a ledger row.
RequeueUnlogged(i) ==
  /\ RequeueOK(i)
  /\ account' = [account EXCEPT ![Leg[i].account] = Moved(@, -RequeueReserve(i), RequeueReserve(i), 0)]
  /\ intent' = [intent EXCEPT ![i] = Queued(i, @)]
  /\ UNCHANGED <<decision, order, ledger>>
Requeue(i) ==
  /\ RequeueOK(i)
  /\ Book(Leg[i].account, -RequeueReserve(i), RequeueReserve(i), 0)
  /\ intent' = [intent EXCEPT ![i] = Queued(i, @)]
  /\ UNCHANGED <<decision, order>>

ResolveOK(i) == IsTerminal(i) /\ intent[i].attention
\* Mutant: the acknowledged intent is tried again.
ResolveRequeued(i) ==
  /\ ResolveOK(i)
  /\ intent' = [intent EXCEPT ![i] = [@ EXCEPT !.attention = FALSE, !.status = "PENDING_SUBMIT"]]
  /\ UNCHANGED <<account, decision, order, ledger>>
Resolve(i) ==
  /\ ResolveOK(i)
  /\ intent' = [intent EXCEPT ![i] = [@ EXCEPT !.attention = FALSE, !.resolved = TRUE]]
  /\ UNCHANGED <<account, decision, order, ledger>>

\* _backfill_intent_attention, on every opening of the store.
Unreviewed == {i \in Intent : intent[i].status \in AttentionRequired
                              /\ ~intent[i].attention /\ ~intent[i].resolved}
Retried(i) == \E j \in LegsOf(Leg[i].decision) :
                /\ Leg[j].account = Leg[i].account
                /\ Leg[j].sequence > Leg[i].sequence
                /\ intent[j].status = "FILLED_ALL"
Backfill ==
  LET late == {i \in Unreviewed : ~Retried(i)}
  IN  /\ intent' = [i \in Intent |->
                      CASE i \in late -> [intent[i] EXCEPT !.attention = TRUE, !.reason = "gap"]
                        [] i \in Unreviewed \ late -> [intent[i] EXCEPT !.resolved = TRUE]
                        [] OTHER -> intent[i]]
      /\ account' = [a \in Account |->
                       IF \E i \in late : Leg[i].account = a
                       THEN WithHealth("BLOCKED", "gap", account[a])
                       ELSE account[a]]
      /\ UNCHANGED <<decision, order, ledger>>
-----------------------------------------------------------------------------
(* Channel orders.                                                         *)

\* Mutant: a lost response is final.
BindOKSubmitting(i, o) ==
  /\ intent[i].status = "SUBMITTING"
  /\ order[o] # None => order[o].intent = i
  /\ intent[i].order \in {None, o}
BindOK(i, o) ==
  /\ intent[i].status \in {"SUBMITTING", "SUBMISSION_UNCERTAIN"}
  /\ order[o] # None => order[o].intent = i
  /\ intent[i].order \in {None, o}
BoundUnlinked(o, s, row) == [row EXCEPT !.status = s]   \* mutant
Bound(o, s, row) == [row EXCEPT !.status = s, !.order = o]
Bind(i, o, s) ==
  /\ BindOK(i, o)
  /\ order' = [order EXCEPT ![o] = IF @ = None THEN [intent |-> i, status |-> s, filled |-> 0]
                                                ELSE [@ EXCEPT !.status = s]]
  /\ intent' = [intent EXCEPT ![i] = Bound(o, s, @)]
  /\ UNCHANGED <<account, decision, ledger>>

\* apply_fill_increment: raises unless the cumulative fill can be booked.
\* Mutant: with the check of the whole order.
FillBuyWhole(i, n) == Reserve(i, Leg[i].quantity) <= account[Leg[i].account].frozen
FillBuyOK(i, n) == Reserve(i, n) <= account[Leg[i].account].frozen
FillSellOK(i, n) == n <= account[Leg[i].account].quantity
SetupFlat(i, o) == Leg[i].setup => account[Leg[i].account].quantity = order[o].filled
\* What a cumulative quantity adds; as a mutant, the quantity itself.
IncrementWhole(o, cum) == cum
Increment(o, cum) == cum - order[o].filled

BuyCash(i, n) == Reserve(i, n) - Notional(i, n) - Fee(Notional(i, n))
SellCash(i, n) == Notional(i, n) - Fee(Notional(i, n))

ApplyFillOK(o, cum) ==
  LET i == order[o].intent
      n == Increment(o, cum)
  IN  \/ n = 0
      \/ /\ n > 0 /\ cum <= Leg[i].quantity
         /\ SetupFlat(i, o)
         /\ IF Leg[i].side = "BUY"
            THEN FillBuyOK(i, n) /\ account[Leg[i].account].cash + BuyCash(i, n) >= 0
            ELSE FillSellOK(i, n) /\ account[Leg[i].account].cash + SellCash(i, n) >= 0

ApplyFill(o, cum) ==
  LET i == order[o].intent
      n == Increment(o, cum)
  IN  /\ order[o] # None
      /\ ApplyFillOK(o, cum)
      /\ IF n = 0
         THEN UNCHANGED <<account, order, ledger>>
         ELSE /\ IF Leg[i].side = "BUY"
                 THEN Book(Leg[i].account, BuyCash(i, n), -Reserve(i, n), n)
                 ELSE Book(Leg[i].account, SellCash(i, n), 0, -n)
              /\ order' = [order EXCEPT ![o].filled = cum]
      /\ UNCHANGED <<decision, intent>>

\* The first transaction of update_channel_order_report; the release of a
\* terminal report is a second one.
Report(o, s) ==
  /\ order[o] # None
  /\ order' = [order EXCEPT ![o].status = s]
  /\ IF s \in TerminalOrder
     THEN UNCHANGED intent
     ELSE intent' = [intent EXCEPT ![order[o].intent].status = s]
  /\ UNCHANGED <<account, decision, ledger>>
-----------------------------------------------------------------------------
(* Decisions and their intents.                                            *)

SaveDecisionOK(d) ==
  /\ decision[d] # "SUPERSEDED"
  /\ \A e \in Decision \ {d} : Plan[e] = Plan[d] => decision[e] # "ACTIVE"
SaveDecision(d) ==
  /\ SaveDecisionOK(d)
  /\ decision' = [decision EXCEPT ![d] = "ACTIVE"]
  /\ account' = [account EXCEPT ![Plan[d].account].lastDecision = d]
  /\ UNCHANGED <<intent, order, ledger>>

Created(i) == intent[i].status # "NONE"

\* create_account_plan_intents and create_account_immediate_intents: all legs
\* of the decision or, when they are already stored, none; a part of them is
\* an error.
CreateOK(d) ==
  LET a == Plan[d].account
  IN  \/ \A i \in LegsOf(d) : Created(i)
      \/ /\ \A i \in LegsOf(d) : ~Created(i)
         /\ account[a].health # "BLOCKED" /\ ~account[a].paused
         /\ BatchReserve(LegsOf(d)) <= account[a].cash
         /\ ReservedSell(a) + PlannedSell(d) <= account[a].quantity

NewIntent(i) ==
  [status |-> IF Leg[i].dependency = None THEN "PENDING_SUBMIT" ELSE "WAITING_DEPENDENCY",
   attention |-> FALSE, reason |-> "none", resolved |-> FALSE,
   generation |-> IF Leg[i].side = "BUY" THEN 1 ELSE 0, released |-> {}, order |-> None]

CreateIntents(d) ==
  LET a == Plan[d].account
      I == LegsOf(d)
  IN  /\ CreateOK(d)
      /\ IF \A i \in I : Created(i)
         THEN UNCHANGED <<account, intent, ledger>>
         ELSE /\ account' = [account EXCEPT ![a] = Moved(@, -BatchReserve(I), BatchReserve(I), 0)]
              /\ ledger' = [ledger EXCEPT ![a] = Moved(@, -LedgerReserve(I), LedgerReserve(I), 0)]
              /\ intent' = [i \in Intent |-> IF i \in I THEN NewIntent(i) ELSE intent[i]]
      /\ UNCHANGED <<decision, order>>

\* atomic_decision_update: one transaction withdraws every open intent of the
\* account, supersedes the decision old and stores d with its intents.
\* Mutant: an intent that is being submitted is withdrawn as well.
ReplaceableInFlight(i, old) ==
  /\ Leg[i].decision = old
  /\ intent[i].status \in {"PENDING_SUBMIT", "WAITING_DEPENDENCY", "SUBMITTING"}
  /\ intent[i].order = None
Replaceable(i, old) ==
  /\ Leg[i].decision = old
  /\ intent[i].status \in {"PENDING_SUBMIT", "WAITING_DEPENDENCY"}
  /\ intent[i].order = None

Reserved(I) == SumFunctionOnSet([i \in Intent |-> ReleaseAmount(i)], I)
Withdrawn(a) == Reserved(OpenIntents(a))

SupersedeOK(old, d) ==
  LET a == Plan[d].account
  IN  /\ d # old /\ decision[old] = "ACTIVE" /\ decision[d] # "SUPERSEDED"
      /\ \A e \in Decision \ {old, d} : Plan[e] = Plan[d] => decision[e] # "ACTIVE"
      /\ \A i \in OpenIntents(a) : Replaceable(i, old) /\ ReleaseOK(i)
      /\ Withdrawn(a) <= account[a].frozen
      /\ \A i \in LegsOf(d) : ~Created(i)
      /\ ~account[a].paused =>
           /\ account[a].health # "BLOCKED"
           /\ BatchReserve(LegsOf(d)) <= account[a].cash + Withdrawn(a)
           /\ RemainingOf({i \in IntentsOf(a) \ OpenIntents(a) : HoldsBack(i)})
                + PlannedSell(d) <= account[a].quantity

SwitchedKeepingOld(old, d) == [decision EXCEPT ![d] = "ACTIVE"]   \* mutant
Switched(old, d) == [decision EXCEPT ![old] = "SUPERSEDED", ![d] = "ACTIVE"]

\* A paused account stores the decision and creates no intents.
Supersede(old, d) ==
  LET a == Plan[d].account
      I == IF account[a].paused THEN {} ELSE LegsOf(d)
      cash == Withdrawn(a) - (IF account[a].paused THEN 0 ELSE BatchReserve(I))
      rows == Withdrawn(a) - (IF account[a].paused THEN 0 ELSE LedgerReserve(I))
  IN  /\ SupersedeOK(old, d)
      /\ account' = [account EXCEPT ![a] = [Moved(@, cash, -cash, 0) EXCEPT !.lastDecision = d]]
      /\ ledger' = [ledger EXCEPT ![a] = Moved(@, rows, -rows, 0)]
      /\ intent' = [i \in Intent |->
                      CASE i \in I -> NewIntent(i)
                        [] i \in OpenIntents(a) -> Closed(i, "SUPERSEDED", "none", intent[i])
                        [] OTHER -> intent[i]]
      /\ decision' = Switched(old, d)
      /\ UNCHANGED order
-----------------------------------------------------------------------------
(* The store seen alone: any method, at any time, with any legal argument. *)

NoIntent == [status |-> "NONE", attention |-> FALSE, reason |-> "none", resolved |-> FALSE,
             generation |-> 0, released |-> {}, order |-> None]
LegacyIntent(i) ==
  LET g == IF Leg[i].side = "BUY" THEN {1} ELSE {}
  IN  [status |-> "EXPIRED", attention |-> TRUE, reason |-> "deadline", resolved |-> FALSE,
       generation |-> Cardinality(g), released |-> g, order |-> None]
LegacyOf(a) == {i \in Legacy : Leg[i].account = a}

StoreInit ==
  /\ account = [a \in Account |->
       [cash |-> InitialCash, frozen |-> 0, quantity |-> InitialQuantity,
        health |-> IF LegacyOf(a) = {} THEN "READY" ELSE "BLOCKED",
        error |-> IF LegacyOf(a) = {} THEN "none" ELSE "gap",
        paused |-> FALSE,
        lastDecision |-> IF LegacyOf(a) = {} THEN None
                         ELSE Leg[CHOOSE i \in LegacyOf(a) : TRUE].decision]]
  /\ decision = [d \in Decision |-> IF \E i \in Legacy : Leg[i].decision = d
                                     THEN "ACTIVE" ELSE "NONE"]
  /\ intent = [i \in Intent |-> IF i \in Legacy THEN LegacyIntent(i) ELSE NoIntent]
  /\ order = [o \in OrderId |-> None]
  /\ ledger = [a \in Account |-> [cash |-> 0, frozen |-> 0, quantity |-> 0]]

Error == {"none", "gap", "transient", "missing", "cancel", "ledger"}
Reason == {"none", "deadline", "gap"}

IntentStep(i) ==
  \/ Claim(i) \/ Activate(i) \/ Requeue(i) \/ Resolve(i)
  \/ \E s \in TerminalIntent, why \in Reason : Release(i, s, why)
  \/ Created(i) /\ \E s \in KnownOrder \cup {"SUBMISSION_UNCERTAIN"} : SetStatus(i, s)
  \/ \E o \in OrderId, s \in KnownOrder : Bind(i, o, s)
OrderStep(o) ==
  \/ \E n \in 1 .. Leg[order[o].intent].quantity : ApplyFill(o, n)
  \/ \E s \in KnownOrder : Report(o, s)
AccountStep(a) ==
  \/ \E h \in {"OK", "BLOCKED"}, e \in Error : SetHealth(a, h, e)
  \/ \E p \in BOOLEAN : SetPaused(a, p)
DecisionStep(d) ==
  \/ SaveDecision(d)
  \/ CreateIntents(d)
  \/ \E old \in Decision : Supersede(old, d)

StoreNext ==
  \/ Backfill
  \/ \E i \in Intent : IntentStep(i)
  \/ \E o \in OrderId : order[o] # None /\ OrderStep(o)
  \/ \E a \in Account : AccountStep(a)
  \/ \E d \in Decision : DecisionStep(d)

StoreSpec == StoreInit /\ [][StoreNext]_storeVars
-----------------------------------------------------------------------------
(* Properties.                                                             *)

AccountRow == [cash : Int, frozen : Int, quantity : Int, health : {"READY", "OK", "BLOCKED"},
               error : Error, paused : BOOLEAN, lastDecision : Decision \cup {None}]
IntentRow == [status : IntentStatus, attention : BOOLEAN, reason : Reason, resolved : BOOLEAN,
              generation : Nat, released : SUBSET Nat, order : OrderId \cup {None}]
LedgerRow == [cash : Int, frozen : Int, quantity : Int]

\* Every row has the columns and the values the code writes.
StoreTypeOK ==
  /\ account \in [Account -> AccountRow]
  /\ decision \in [Decision -> {"NONE", "ACTIVE", "SUPERSEDED"}]
  /\ intent \in [Intent -> IntentRow]
  /\ order \in [OrderId -> OrderRow \cup {None}]
  /\ ledger \in [Account -> LedgerRow]

\* The ledger explains the balances (account_invariant_violations is empty).
LedgerAgrees == \A a \in Account : ~LedgerViolated(a)

\* Balances never go negative.
BalancesNonNegative ==
  \A a \in Account : account[a].cash >= 0 /\ account[a].frozen >= 0 /\ account[a].quantity >= 0

\* One account never has two active decisions for the same signal date.
OneDecisionPerSignalDate ==
  \A d, e \in Decision : Plan[d] = Plan[e] /\ decision[d] = "ACTIVE" /\ decision[e] = "ACTIVE"
                         => d = e

\* An order row and an intent row point at each other, or neither does.
OrdersBelongToOneIntent ==
  /\ \A o \in OrderId : order[o] # None => intent[order[o].intent].order = o
  /\ \A i \in Intent : intent[i].order # None =>
       order[intent[i].order] # None /\ order[intent[i].order].intent = i
=============================================================================
