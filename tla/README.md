# The paper trading engine in TLA+

This directory holds TLA+ models of the stateful parts of `czsc_trader`: the
paper trading engine (PTE) under `packages/paper_trading_engine`, which takes
the decisions of strategies, turns them into orders on a Futu simulation
account and keeps a virtual account per strategy in one SQLite file; how its
releases are deployed and kept running; and the governance that brings a
strategy from a research candidate to a version the engine may trade. File
names below are relative to
`packages/paper_trading_engine/src/paper_trading_engine/` unless they say more.

## The system

### Inventory

| Component | State it keeps | Operations | What makes it correct |
|---|---|---|---|
| Runtime store (`store.py`, `broker.py`) | virtual accounts, decisions, intents, orders, fills, account ledger, settings | about forty methods, one transaction each, under one re-entrant lock | balances never negative and explained by the ledger; a reservation is taken and given back once; an order belongs to one intent |
| Futu execution (`futu_execution.py`, `trading_window.py`) | the last account snapshot; everything else is in the store and at Futu | `refresh_orders`, `submit_pending`, `acknowledge_execution_gap`, `resume`, `pause`, `confirm_cancel`, `repair_account_ledger` | an intent becomes at most one order; every outcome is booked; nothing trades over an unreviewed gap |
| Futu gateway and Futu (`futu_gateway.py`) | the orders and positions of one channel account, shared by all virtual accounts | `place_order`, `cancel_order`, `order_snapshot`, `historical_order_snapshot`, `account_snapshot` | external; a call may take effect although it raises |
| Account engine (`account_engine.py`, `account_strategy_cycle.py`) | a decision lock, a lock per account | `refresh_account`, `drive_account_decision` | a decision replaces another completely or not at all |
| Coordinator (`coordinator.py`) | the connection to the channel | `startup`, `refresh`, `refresh_orders`, pausing | a lost connection is found again; a safety failure stops the start |
| Scheduler (`scheduler.py`) | due times, failures with retry times | the fast loop (account, orders), the daily lane with a worker per account | an operation that fails is tried again, one that hangs does not stop the others |
| Web console (`web.py`, `web_api.py`) | none | one thread per request, calling the coordinator | - |
| Watchdog (`watchdog.py`, `windows_service.py`) | failure counts | restart of a dead or deaf process | the service comes back |
| Runtime lock (`runtime_lock.py`) | a lock file | acquire, release | one writing process |
| Releases (`release_cli.py`, `runtime_release.py`) | installed releases, a pointer to the current one and the one before | publish, activate, deploy, roll back | the active release can start on the database there is |
| Advice client, audit, charts, export | files, audit rows | presentation and subprocesses | - |
| Strategy manager (`packages/strategy_manager`) | per strategy family: credentials (chains of seals), versions, evidence, lifecycle events | admission, sealing and freezing under a lock nobody waits for | each seal is about the submission it follows; one approval freezes one version |
| Research pipeline, governance part (`src/czsc_trader/application`) | candidates, release packages, deployment receipts | `candidate review`, `evaluate`, `freeze`, `strategy deploy`, with roll-backs outside the lock | what may be traded was approved and sealed |
| Strategy runtime (`packages/strategy_runtime`) | prepared data, deployments | preparation, advice, execution planning | the same inputs give the same advice |
| Trading execution engine (`packages/trading_execution_engine`) | a ledger while it replays | replay of planned orders over daily bars | no order is filled outside its bar |
| Evaluator, data flows, catalogues, experiments, the rest of the research pipeline | tables and reports | batch computations | numeric; out of a model checker's reach |

`PROJECT.json` lists every component with its status.

### How the parts interact

One process serves. The fast loop of the scheduler calls
`coordinator.refresh_orders` every few seconds, that is `refresh_orders` and
then `submit_pending`; the daily lane lets strategies decide, in a thread per
account; each request of the console (`ThreadingHTTPServer`) runs on a thread
of its own and calls the same objects. There is no lock around an operation:
only single store transactions and single broker calls are atomic. Futu changes
its orders by itself and sends nothing; the process learns of it by asking for
snapshots. When the process dies, the watchdog starts it again, and `startup`
has to complete a refresh and a submission before it serves.

The hard parts follow from this: operations of two threads interleave between
transactions, snapshots are old when they are used, calls to Futu may take
effect and still raise, and a crash may fall between two transactions that
belong together. `PROJECT.json` lists these hazards by line.

Around the process, `pte-release` commands of an administrator replace the
release while the watchdog starts, probes and stops processes on threads of its
own; commands of the command line open the same database, some without the
lock. Before a strategy is traded at all, sessions of `tdr candidate` commands
work on the files of one family, with long computations between reading a
credential and sealing it, and with roll-backs that run outside the lock.

## The modules

| Module | What it is |
|---|---|
| `PaperStore` | The store. One operator per method, as one atomic step; `StoreSpec` lets every method run at any time with any legal argument. It is also the abstract specification that the execution must implement. |
| `FutuExecution` | The execution over the store, with its threads, Futu, the clock, crashes and restarts. |
| `CashReconciliation` | The cash of the Futu account against the books: fees, checkpoint, the reconciliation account and the alerts, with refreshes, Futu, crashes. |
| `DecisionBook` | What the engine promises of the decisions of an account, without threads, locks or crashes: the second abstract specification. |
| `DecisionCycle` | How a decision comes about: the daily lane, the operator's drive and `pte once`, the locks, the call to the strategy, the store, draining, crashes. Implements `DecisionBook`. |
| `Deployment` | Releases, `pte serve` processes, the runtime lock, the watchdog, the service and the administrator's commands. |
| `StrategyGovernance` | The files of one strategy family and the sessions that review, evaluate, freeze and deploy its candidates. |
| `PaperStoreProofs`, `DecisionBookProofs` | Theorems about the two abstract specifications, with their proofs. |
| `FutuExecutionProofs`, `DecisionCycleProofs` | That the execution and the decision cycle implement them, and what else holds of both. |
| `DeploymentProofs`, `StrategyGovernanceProofs`, `CashReconciliationProofs` | Theorems about the deployment, the governance of a family and the reconciliation of cash. |
| `MCPaperStore`, `MCFutuExecution`, `MCCashReconciliation`, `MCDecisionCycle`, `MCDeployment`, `MCStrategyGovernance` | Small instances: plans of orders, sessions, releases, symmetry and bounds. |

The modules meet at narrow interfaces. `FutuExecution` extends `PaperStore`
and is proved to implement it. `DecisionCycle` looks at the same account from the side of the decision and
keeps of the orders only what the decision sees: that they wait, were sent,
ended or were withdrawn. `FutuExecution` has their details and takes the plan as arbitrary.
`CashReconciliation` is the end of the refresh of `FutuExecution`, where an order fills whole
and costs a fee that Futu chooses.
`up` and the restarts of both are what `Deployment` models as processes, and
that at most one process trades (`OneWriter`) is what entitles the other two to
one process. `StrategyGovernance` ends where the engine asks whether a version
may be traded.

### `PaperStore`

| Variable | Code |
|---|---|
| `account` | `virtual_accounts`: `cash`, `frozen_cash`, `quantity`, `health`, `last_error` (its kind), `paused`, `last_decision_id` |
| `decision` | `decisions.status` |
| `intent` | `intents`: `status`, `attention_required`, the kind of `attention_message`, whether the gap was resolved, `reservation_generation`, the generations with a release row, the bound order |
| `order` | `orders`: intent, status and `cumulative_filled_quantity` |
| `ledger` | for each account the sums of `cash_delta`, `frozen_delta` and `quantity_delta` over `account_ledger` |

`Claim`, `Activate`, `Release`, `Requeue`, `Resolve`, `Bind`, `ApplyFill`,
`Report`, `SaveDecision`, `CreateIntents`, `Supersede`, `SetHealth`,
`SetPaused`, `SetStatus` and `Backfill` are the methods. Where a method raises,
`XOK` is false and the caller decides what follows. `Supersede` is the one
transaction of several methods in the code (`atomic_decision_update`).
`update_channel_order_report` is two transactions there, so `Report` is only
the first.

Abstractions. What an intent asks for (`Leg`) is a constant, since an intents
row never changes it. Money is an integer number of ticks of the grid that
`quantize(Decimal("0.0001"))` uses, and every rounding in the code is a
rounding in the model, half to even; quantities are lots. A fill happens at the
limit price: average prices, the check of the fill price and market sells are
left out. `InitialCash` and `InitialQuantity` stand for an account with some
history (the code creates accounts with no position). `Legacy` names intents
that an older release expired too early: the state that
`recover_future_planned_intent` was written for.

### `FutuExecution`

`th[t]` is the stack of a thread: its program counter and locals. `broker` is
what Futu holds, `channel` and `pausedAll` are two settings, `up` says whether
the process is down, starting or serving, `now` is the clock. An action is one
transaction or one broker call with the local computation up to the next.

| Actions | Code |
|---|---|
| `Expire` | `_expire_unsubmitted_intents`, `_expire_planned_intent` |
| `Snapshot`, `History` | `_order_snapshot` |
| `LookUp`, `BindFound`, `FillFound`, `ReportFound`, `SettleFound` | the loop of `refresh_orders` over the snapshot |
| `CancelScan`, `CancelSend`, `CancelMark` | `_cancel_expired_planned_orders` |
| `MissingCheck`, `Positions`, `Compare` | the checks at the end of `refresh_orders` |
| `Recover`, `RecoverSet` | `_recover_transient_account_health` |
| `Gate`, `Consider`, `ClaimNext`, `Send`, `Placed`, `Uncertain`, `Reject`, `SubmitDone` | `submit_pending` |
| `RequeueNext`, `RequeueHealth` | `_recover_future_plan_expiries` |
| `ActivateScan`, `ActivateNext` | `_activate_dependency_intents` |
| `ResolveGap`, `AckCheck`, `AckSet` | `acknowledge_execution_gap` |
| `Unpause`, `Pause`, `CancelOrder` | `resume`, `pause`, `_set_virtual_paused`, `confirm_cancel` |
| `Drive`, `SaveNext`, `CreateNext` | `AccountEngine._refresh_account`, `_persist_generated_decision` |
| `Block` | the `set_virtual_health(..., "BLOCKED", ...)` that follows the step before it |
| `BrokerFill`, `BrokerCancel`, `BrokerFail`, `BrokerTimeout` | Futu |
| `Tick`, `Crash`, `Open` | time, the end of the process, the watchdog with the opening of the store |

`Send` has five outcomes: accepted; accepted with the response lost; never
accepted with an unknown error; rejected; and failed before submission. The order that an
accepted call returns (`Answers`) shows any status it has had since Futu took it,
and `Placed` stores that one, also when the order has ended. Loops
over a query take its rows in any order, which covers the order of the code.
Steps taken together that are several in the code: the store read and the
historical query in `History`, the reads of the store and the writes of health and channel status in
`Compare`. Steps of one day do not span the night (`Tick`).

The threads of the runs: the scheduler's fast loop submits, and so does
`startup`; request threads refresh, acknowledge, resume, pause, cancel and
drive decisions.

### `CashReconciliation`

| Variable | Code |
|---|---|
| `order` | `intents.status`: none, pending, unresolved (sent, the answer lost), sent, booked with its end |
| `fills`, `checkpoint` | `fills` in order of rowid; `futu_cash_reconciliation_checkpoint`: the last row and Futu's cash then |
| `recon` | the account of type `CHANNEL_RECONCILIATION` and its ledger rows by reference |
| `status`, `channel` | `futu_cash_reconciliation_status`, `channel_reconciliation_status` |
| `snapshot` | `FutuExecution._snapshot` |
| `broker` | Futu's cash and the fees of the orders it has filled |
| `thread` | a refresh and the submission after it, with what it has read |

| Actions | Code |
|---|---|
| `Begin`, `Orders`, `Book`, `Account`, `Assign`, `Compare` | `refresh_orders` up to the positions, `refresh_account` |
| `ReadAccounts`, `Measure`, `WriteCheckpoint`, `WriteOK` | `_reconcile_broker_fees` |
| `ReadRecon`, `ApplyVariance` | `apply_channel_fee_variance`: a read, then the transaction |
| `Require`, `Settle`, `Gate`, `Send` | `_require_cash_reconciliation`, the ledger check, the gates of `submit_pending` and its orders |
| `Decide`, `OpenRecon`, `Fill`, `MoveForeign`, `Crash` | a decision, the operator, Futu, the end of the process |

Amounts are integers; one allowance per order stands for the two rates of the
envelope. There is one symbol, so that `Compare` compares one number. An order whose answer is
lost is one that Futu has.

### `DecisionBook` and `DecisionCycle`

`book` is the sequence of an account's decisions; an entry has its plan,
whether it is in force, and the state of its orders. A new decision waits until
no older one has orders under way (`Decide`), gets all orders at once
(`CreateOrders`), or replaces the last one while its orders are unsent
(`Replace`).

| Variable of `DecisionCycle` | Code |
|---|---|
| `now`, `up`, `draining` | half days (before and after 20:30); the process; `AccountEngine._draining` |
| `account` | `virtual_accounts`: `health` (`GAP`: what an acknowledgement clears, `BATCH`: what `refresh` wrote), `paused`, the quantity, the number of fee bookings |
| `decision` | `decisions` in order of insertion, with the state of their intents and whether they were `SKIPPED_PAUSED` |
| `done`, `skip`, `retry` | `last_account_decision_date`, `last_account_schedule_skip_date`, a persisted failure that is not due |
| `accountLock`, `decisionLock` | `AccountStrategyCycle._account_locks`, `AccountEngine._decision_lock` |
| `thread`, `todo` | what each thread does, with what it has read; the accounts `pte once` has left |

| Actions | Code |
|---|---|
| `StartWorker`, `RetryDue` | `tick_daily` and `_guard` of `scheduler.py` |
| `Drive` | `run_latest` of `account_strategy_cycle.py`, called by the console |
| `Once`, `StartBatch`, `BatchEnds` | `pte once`: `PteCoordinator.refresh` |
| `Prepare` | `_run_locked` up to the preparation of the data |
| `Gate`, `Answer` | `_refresh_account` before and after the strategy call |
| `Save`, `Create`, `Replace` | `_persist_generated_decision`: two transactions, or `atomic_decision_update` |
| `Mark`, `Fail` | the end of `_run_locked`; an exception |
| `Send`, `Fill`, `BookFee`, `End`, `Expire`, `Acknowledge`, `SetPaused` | the execution and the operator, as the decision sees them |
| `BeginShutdown`, `Stop`, `Crash`, `Serve`, `Tick` | draining, the end and the start of the process, time |

The identity of a plan is its date, the position and the sizes, which is what
the plan identity of the code depends on; the advice is a function of date and portfolio,
since SRT is deterministic. Two plans that get one id because they were made
in the same minute are counted as a failing call.

### `Deployment`

| Variable | Code |
|---|---|
| `files`, `hosts` | `releases/<id>` (absent, without manifest, loadable); the releases whose service host is initialised |
| `active` | `active-release.json` with `previous_release_id` |
| `schema` | `runtime_database_schema_version` of `runtime.db` |
| `lock` | `runtime.db.lock` |
| `proc` | `pte serve` processes: phase, release, left behind by a dead service or not |
| `watchdog`, `stop` | the loop of `Watchdog.run` with its child and failures; `SvcStop` |
| `admin` | the running `pte-release` command, step by step |

| Actions | Code |
|---|---|
| `TakeLock`, `OpenStore`, `Listen`, `CloseEngine`, `ReturnZero` | `serve` of `cli.py`, `RuntimeDatabaseLock`, the schema check of `PaperStore.__init__` |
| `Spawn`, `Wake`, `CheckExited`, `Probe`, `DelayEnds`, `RunEnds` | `start_child`, `check_once`, `_restart_child`, `run` |
| `SetStopEvent`, `SvcStop`, `ServiceStarts`, `ServiceStartedAgain`, `ServiceDies` | `windows_service.py` |
| `Publish`, `WriteManifest`, `InitializeHost`, `PublishFails` | `publish_release` |
| `Activate` | `pte-release activate` |
| `Deploy`, `DeployActivate`, `ControlOpen`, `ControlAsk`, `ControlPoll`, `DeployCheck`, `RollbackCheck`, `Reactivate` | `deploy_release` with the `pte control restart` it runs; roll-back deploys the previous release |
| `StoreCommand` | commands that open the store without the lock |
| `Crash`, `Hang`, `DrainFails`, `AdminDies` | faults |

Assumed: one administrator's command at a time; store commands are those of
the active release; a process that hangs answers nothing; a process that starts
misses fewer probes than the threshold (`StartProbes`), or the watchdog would
kill every start.

### `StrategyGovernance`

| Variable | Code |
|---|---|
| `home`, `cred` | the family's directory; its one credential, a chain of seals |
| `versions`, `evidence`, `events` | `versions/vN.json`, `evidence.jsonl`, `lifecycle.jsonl` |
| `candidates`, `packages`, `receipts` | admitted candidates, release packages, deployment receipts |
| `lock` | `.registry.lock` |
| `session` | the running commands with what they have read and must undo |

| Actions | Code |
|---|---|
| `Snapshot`, `Promote` | `promote_research_registration` of `research_registration.py` |
| `Admit`, `MoveCandidate`, `Submit`, `Record` | `review_candidate`, `open_freeze_review` |
| `Evaluate`, `Judge` | `candidate evaluate` |
| `Build`, `Place` | `_build_release_package` |
| `ReadCredential`, `Approve` | `freeze_review_candidate` |
| `WriteVersion`, `WriteEvidence`, `WriteEvent`, `StampCredential` | `create_frozen_version_from_credential` of `registry.py`, with `RestoreFiles` as its compensation |
| `Undo` | the except clauses: `rollback_research_promotion`, removing a copy or a package |
| `Deploy`, `Tradable` | `deploy_strategy`; `strategy info` as the engine asks for it |
| `WriteFails`, `RestoreFails`, `Raise`, `Kill`, `KillPromotion` | faults |

A hash stands for what it is the hash of; a candidate stands for its package
and mandate. `AppendSeal` is one step because it holds the lock throughout;
`Rollback` is one step although it restores file by file. The family has one
research credential, because `open_research_credential` refuses two.

## What is checked

Bounds of the runs of `PaperStore` and `FutuExecution`: one account; two intents and two orders (or one of each); quantities of
one or two lots, so that a partial fill exists where it matters; a session of
two or three clock ticks of which the first two allow submission, so that both
an order past its deadline and an order of an earlier session occur; up to three
operator requests (`MaxRequests`), up to two crashes (`MaxCrashes`). Two orders
are enough for an intent to be sent twice, two intents for a dependency and for
one intent to hurt the other, and one account because accounts share nothing but
Futu's position. Orders are interchangeable, and the runs without liveness use
that symmetry.

`Cash`: three orders, so that a sell follows a buy and two batches are measured
together; a modelled fee of 3 and charges of 2 and 8, that is below and above, within the tolerance
of 1 and outside; one foreign movement, larger than any fee (`Dividend` has one that is
not); one crash; one thread. `Decision`: one account, two threads, so that a worker meets an operator or the
batch; two sessions with a closed day between them, so that a date is skipped
and orders expire over it; one fill, one fee booking, one fault and two
requests, which is what it takes to change the portfolio once under each read.
Accounts share only the decision lock; more than one would need a fair lock
for `EveningDecides`. `Deploy`: three processes (the old one, the new one and
one left behind), three releases (two that open each other's database and one
that opens only its own), a threshold of two probes, three commands, two
faults. `Governance`: two sessions (each a command of somebody), two candidates,
two versions, five commands, two faults: enough to freeze, tear and retry, and to
submit a second candidate while the first is judged. Sessions are
interchangeable and the runs use that symmetry.

### Runs that pass

| Run | What it shows |
|---|---|
| `Rotation` | A plan that buys and sells after the buy, over the night, with every operator call, lost responses, orders that have ended when they are first stored, and a crash: never two orders for an intent (`AtMostOneOrder`), the sell only after the buy has filled (`DependencyFilledFirst`), every fill can be booked, the position is the sum of the fills, no balance is negative, what has ended stays ended but for the repair of an early expiry, and nothing that an outage left in the queue is sent in a later session (`OrdersInSession`). |
| `Concurrent` | Two threads: the scheduler submits while a request refreshes, acknowledges or replaces the decision. A superseded intent has no order, what was refused or superseded stays so (`RefusedStaysRefused`), no booked fill is one that Futu does not have, one decision of a signal date is active, orders and intents stay paired, every frozen tick belongs to the open part of a reservation (`FrozenIsOutstanding`), and each step is one transaction of the store or none (`StoreSpec`). |
| `Restarts` | The recovery of a plan that expired too early (the incident of `docs/incidents/2026-09-14-s003-pte-price-ledger.md`) and its execution, with lost responses and two crashes anywhere: open buys are funded, the ledger adds up to the balances and the reservations to the frozen cash, an open intent can be closed (the second reservation too), every outcome is booked in the end, an order that the store knows and that ends incompletely comes before the operator (`IncompleteEndsAreReviewed`), and each step, opening the store included, is one of `StoreSpec`. |
| `Cash` | The reconciliation account holds the difference between charged and modelled fees of each fill it has settled once, although a crash may part the booking from the checkpoint (`BookedOnce`); no order is sent over a measured difference (`SentOnBalancedBooks`); whatever Futu charges, the books are closed again (`BooksClose`). |
| `Decision` | Every step of the cycle is a step of `DecisionBook` or none (`ImplementsBook`), by the mapping at the end of the module. A date is marked done only when its decision has all its orders (`DoneMeansIssued`); waiting orders were sized for the position there is (`PendingFitsPosition`); nothing is decided once draining is visible (`DrainedIsQuiet`); in the evening of a session every account gets a decision unless it is blocked or older orders are under way (`EveningDecides`). |
| `Deploy` | One process at most works on the database (`OneWriter`), nothing outlives a stopped service but what a dead one left (`NothingOutlivesStop`), and the service returns after exits, hangs, failed deployments and its own death (`ServiceReturns`). |
| `Governance` | Whatever two sessions, failures and kills do: a seal is about the submission before it (`SealsFitSubmission`), one approval freezes one version (`ApprovalFreezesOnce`), a final seal has its version, evidence and event (`SealedIsComplete`), and a failed freeze that was compensated can be tried again (`ApprovedCanResume`). |

### Runs that refute what the code says of itself

Each of these checks one property that a comment, a document or an error
message states, and ends in a counterexample. `PROJECT.json` quotes the lines.

| Run | Counterexample |
|---|---|
| `LostRelease` | Crash between report and release, then the night: the order is missing for ever and `startup` aborts each time. |
| `CrashGap` | Crash between `release_account_intent(REJECTED)` and `set_virtual_health(BLOCKED)` (`futu_execution.py:726`): the next process sends the account's other order while the refused one waits for the operator (`NoTradeOverAGap`). |
| `PausedTwin` | A decision taken while paused, driven again after the resume: same identity, other payload, refused by `save_account_decision`. |
| `UnsealedVersion` | A freeze killed between its event and its final seal: the version can be deployed and traded. |
| `Dividend` | Futu pays a dividend that fits into the range of fees while a fill is not yet measured: it is booked as a fee variance (`futu_execution.py:379`, `OnlyFeesAreBooked`). |

Further configurations show counterexamples too; they are not listed as runs,
and each can be checked with `tlc -config X.cfg` on the module named.

| Configuration | Module | Counterexample |
|---|---|---|
| `StuckCash` | `MCFutuExecution` | An order that has ended when it is first stored (`store.py:2183`), because `place_order` returns it so or because it is found after a lost response: its cash stays frozen and its intent asks for no review (`FrozenIsOpenBuys`). |
| `BlockedForGood` | `MCFutuExecution` | An acknowledgement while another order is in `TIMEOUT`, which then fills (`futu_execution.py:823`): blocked, and nothing unblocks the account. |
| `ExpiredInFlight` | `MCFutuExecution` | Two threads: one expires an intent that the other is sending (`futu_execution.py:205`); the order has no reservation (`OpenBuysAreFunded`). |
| `StaleReport` | `MCFutuExecution` | Two threads: an older snapshot re-opens an ended intent (`store.py:2364`), whose second release is refused (`OpenCanBeClosed`). |
| `RoundedBatch` | `MCFutuExecution` | `create_account_plan_intents` and `create_account_immediate_intents` round the reservation of a batch once (`store.py:1624`), the RESERVE rows of the ledger round leg by leg (`store.py:1694`): two buys of 100 at 1.003 freeze 200.7003 and book 200.7004, and the next refresh blocks account and channel (`LedgerAgrees`). |
| `TwoReconcilers` | `MCCashReconciliation` | Two threads: one has read the cash of the accounts (`futu_execution.py:320`) when the other books a fill, and then reads the fills (`:339`). Its difference is small and it moves the checkpoint past the fill with the cash of before. The fee of that fill is never explained: `UNATTRIBUTED` for good (`BooksClose`). |
| `SameReference` | `MCCashReconciliation` | Two crashes, each between a booking and its checkpoint, while Futu's cash moves by 2 and back. The third refresh measures the same fills at the same cash as the first, so its reference (`futu_execution.py:382`) has been booked: `apply_channel_fee_variance` does nothing and says so (`store.py:2690`), the caller does not look, moves the checkpoint and sets the status to OK. Orders are sent over a measured difference (`SentOnBalancedBooks`). |
| `BookedWhileSending` | `MCCashReconciliation` | Two threads: one books a fill between the gate and the order of the other (`futu_execution.py:694`, `:700`), whose measurement is then out of date (`SentOnBalancedBooks`). |
| `LateMigration` | `MCDeployment` | Two releases, of which only the newer one opens both databases. The newer one is active but never served; deploying the older one runs `pte control restart` with the newer one's code, which migrates the database before anything restarts: the older release is active and cannot start (`ActiveCanStart`). |
| `LostPackage` | `MCStrategyGovernance` | A version is deployed while its freeze is writing; the next write fails and the version is taken back, the receipt stays (`DeployedCanBeLoaded`). |
| `RollbackRace` | `MCStrategyGovernance` | A failed admission rolls back late and removes the credential under which another session has admitted, approved and is freezing a version: the version can be traded and no credential says it was approved (`TradableWasApproved`). |

Two more configurations hold; their questions are part of the runs above, at other bounds.
`Store` (`MCPaperStore`) lets the methods of the store run in any order with any legal
argument; `Split` (`MCFutuExecution`) executes two immediate orders of one account over the night,
with lost responses, and checks `FrozenIsOutstanding`, `OutcomesAreBooked` and `IncompleteEndsAreReviewed`.

What the counterexamples leave of the properties:

- Where an order is stored with its end, neither the return of its cash nor its
  review is promised by any run, only that the cash is still accounted for
  (`FrozenIsOutstanding`) and that orders which the store knew to be working are
  reviewed (`IncompleteEndsAreReviewed`). `OutcomesAreBooked` excepts such an order if it was
  also stored before its fills and its session has passed (`Unasked`): then nothing asks the history for it.
- `NoTradeOverAGap` is in no passing run: `CrashGap` needs one crash, and a
  second thread between the gate and the claim, or between the check and the write of
  an acknowledgement or of a recovery, breaks it as well.
- `Concurrent` has no property that `ExpiredInFlight` and `StaleReport` refute. In its
  plan nothing expires while it is sent, which `FrozenIsOutstanding` needs there.
- `ActiveCanStart` is in no passing run: without releases of which only the newer one opens
  both databases the property would say nothing of the hazard.
- `Restarts` executes its plan in one session because of `LostRelease`. `Cash` has one thread and one crash because
  of `TwoReconcilers`, `BookedWhileSending` and `SameReference`. `BookedOnce` takes a
  movement of cash that was booked for a fee as booked, once and whole; that it is booked is `Dividend`.
- `Governance` has no property about tradable versions because of `UnsealedVersion` and
  `RollbackRace`.

The plans of the passing runs have prices at which the fee of a lot is a whole
number of ticks, so their properties say nothing about rounding; the theorem `LedgerExplained` does. At other prices not only
`LedgerAgrees` fails: with two lots at the price of `RoundedSplitLeg`, `FillsCanBeBooked` fails too, since
the portions of a reservation are rounded one by one. `RoundedBatch`, this case
and `StuckCash` (the order found after a lost response) were reproduced by calling `PaperStore` directly (price 1.003, the default
fee of 0.0005, 100 or 200 shares), `PausedTwin` by driving the account engine itself.

### Fairness

`FairSpec` of `FutuExecution` assumes that a thread which can take a step of its operation
eventually does, and that the fast loop starts again (`scheduler.run` catches
every exception and loops until it is stopped; its sleep is not modelled), and
that a dead process is started again (`watchdog.run`). Nothing is assumed of
Futu, of operators or of the clock.

`Spec` of `CashReconciliation` assumes the same fast loop, and nothing of Futu.
`FairSpec` of `DecisionCycle`: threads go on, a failure becomes due
(`next_retry_at`), the daily lane looks again and starts a worker, a batch or a
draining process ends, and the watchdog starts the service. `Spec` of
`Deployment`: each process, the watchdog loop and `SvcStop` go on, and the
service control manager starts a service that died. `StrategyGovernance` states
no fairness: nobody is obliged to run a command.

## What is proved

### `PaperStoreProofs`

It proves, for all constants that satisfy the assumptions in
`PaperStore`, as consequences of `StoreSpec`:

- `StoreTypes`: `StoreTypeOK`,
- `OrdersAndIntentsMatch`: `OrdersBelongToOneIntent`,
- `NoOverdraft`: `BalancesNonNegative`,
- `OneActiveDecision`: `OneDecisionPerSignalDate`,
- `LedgerExplained`: the ledger explains the position, and cash and frozen cash
  together, to the tick; frozen cash up to the rounding of the batches that were
  reserved (`LedgerDrift`), which is at most half a tick for each buy leg and for the batch.

The first four come from one inductive invariant, `StoreInv`
(`StoreInvariant`). The four properties alone are not inductive. An
intent that was not inserted must be blank (`BlankRows`), or `CreateIntents` could
cut an order off its intent; and fills must stay within their orders
(`FillsWithinOrders`), or a release would compute a negative remainder and take
cash instead of giving it back. The proof has one lemma per method and, under
it, one step per part of the invariant that the method can disturb.

The last holds at any price. `LedgerAgrees` itself does not (`RoundedBatch`): the reservation of a batch is rounded
once and its ledger rows one by one. The proof shows that nothing else ever parts
the two: each method moves balance and ledger alike (`LedgerKept`), but for
`CreateIntents`, which adds `BatchRounding` of its decision, once per decision
because a decision whose orders exist creates nothing (`Stored`).
`ThreadsUseTheStore` below carries all of this over to the execution.

The module begins with sums over finite sets (`SumStep`, `SumSplit`,
`SumChange` and others), for every finite set. The induction behind them is made for this
one predicate: the sets of a counterexample have a smallest one
(strict subsets of a finite set are well-founded), and it has one element too many.

### `FutuExecutionProofs`

For any accounts, plans, threads, numbers of crashes and outcomes of calls that
satisfy the assumptions of `PaperStore` and `FutuExecution` (`JobAssumption`,
`ClockAssumption`, `BoundAssumption`, `OutcomeAssumption`: the operations and
outcomes there are, a day of at least one tick):

- `ThreadsUseTheStore`: `Spec => StoreSpec`. Each step of a thread is one method of the store,
  with arguments that the store allows there, or leaves the store alone. So
  what is proved of the store holds of the execution:
  `ThreadsNeverOverdraw` (`BalancesNonNegative`) and `ThreadsKeepTheLedger` (`LedgerDrift`).
- `FutuTypes`: `TypeOK`, the frames of the threads included.
- `NeverTwoOrders`: `AtMostOneOrder`. `WithdrawnIsNeverSent`: `SupersededNeverSent`.
- `BooksAreTrue`: `BookedFillsExist`. `LegsInOrder`: `DependencyFilledFirst`.
- `RefusalsStand`: `RefusedStaysRefused`. `SentInSession`: `OrdersInSession`.
- `PositionsAreFills`: `PositionIsFills`.

None has a hypothesis on the number of threads, on crashes, answers or prices. All but the last
follow from one inductive invariant (`FutuInvariant`), `PositionsAreFills` from a sum over the orders
that every booking changes by its increment. Beside the store's the invariant has three parts.

- `ThreadsRely`, what a thread relies on between two of its steps, while the
  others go on: the work it has left is real (`WorkIsReal`, `HandIsReal`), its
  snapshot was true once (`SnapIsPast`: what Futu has now, each order of the
  snapshot can have become), and its day has not ended (`SameDay`). Without it a step need
  not be one of the store at all: a thread could report on an order that is not there.
  `PastIsExpired` is what `SentInSession` needs: an intent that is queued for a
  past session is still in the list that the operation expires before it does anything else.
- `OneOrder`. `AtMostOneOrder` is not inductive. Two threads about to send the
  same intent would break it, and so would an intent that was sent and is queued
  again. So: whoever is about to send an intent is alone and nothing was
  sent before (`SendersAlone`); what waits in the queue or was withdrawn was
  never sent, and of what was refused nothing is at Futu (`WithheldIsClean`, which also gives `RefusalsStand`: to
  change the status of such an intent a thread would need an order of it, or hold it); and what was sent was due (`SentIsDue`), since
  `recover_future_planned_intent` queues expired intents again, but only those
  of a later session.
- `FillsFirst`: the store calls an intent filled only if Futu filled its order
  (`FilledIsFilled`), and a dependent intent in the queue or beyond has a
  dependency that was filled (`QueuedAfterFill`).

The proof does not look at each pair of actions. Of every action it shows what it
does to the shared state (`Lawful`: a step of the store; `StoreTame`: no row
disappears; `OrdersGrow`: orders at Futu only grow), and `ReliesKept` says that
a thread may still rely on what it relied on after any such step of another.
For `OneOrder` all steps are `Quiet` but two, the claim and the sending.


### `DecisionBookProofs`

For any accounts, plans and signal dates, `DecisionBook` keeps its types
(`TypeCorrect`), no two decisions of an account have orders under way together
(`OrdersNeverOverlap`), one decision is in force per signal date
(`OneDecisionPerDate`), and orders under way are those of a decision in force
(`SupersededHasNoOrders`). The last is not inductive: `CreateOrders` works on
the last decision, so the invariant adds that the last one is in force
(`LastActiveIn`). All of it is about one account at a time, so the lemmas are
about the rows of one account, one lemma per action, and `OneAccount` lifts
them. No assumption on the constants is needed.

### `DecisionCycleProofs`

For any accounts, threads, sessions and bounds that satisfy the assumptions of
`DecisionCycle` (sessions are days, a position of at least zero, a size for each
look at an account, `None` apart from what it is put beside):

- `CycleImplementsBook`: `Spec => ImplementsBook`, so that the theorems about
  the book hold of the threads, locks and crashes of the cycle.
- `DoneDatesAreIssued`: `DoneMeansIssued`.
- `PendingOrdersFit`: `PendingFitsPosition`.
- `DrainingDecidesNothing`: `DrainedIsQuiet`.

The inductive invariant (`CycleInvariant`) says which steps are taken under the
decision lock (`DecidersLock`) and that nobody is in the middle of them once the
process drains (`DrainedLock`: `begin_shutdown` takes the same lock); that of an
account's decisions only the last has orders under way (`LastOpen`); and, for
each point of `_run_locked` and `_persist_generated_decision`, what a thread
still knows of its account (`ThreadsKnow`). This last is the point of the
proof. A thread has computed a plan from a position it saw several
steps ago; meanwhile fills are booked, orders are sent and expire, operators pause. Before
`Save`, for instance, either no orders are under way and the position is the one
it saw, or the same plan is stored already with its orders (`Saving`). That no fill comes in between
follows from the orders: a fill needs an order under way, and the recheck after
the strategy's answer (`Answer`) has found none, or found pending ones that it
replaces.

### `DeploymentProofs`

For any releases, schemas, processes and bounds that satisfy the assumptions in
`Deployment`:

- `TypeCorrect`: `TypeOK`. The lemmas are about the pieces the actions share
  (a process that moves, exits, is started or stopped) and then about each
  action.
- `AtMostOneWriter`: `OneWriter`. The property says that two do not work at
  once and is not inductive: a hung process would let the next one in. The
  invariant `WorkersLock` says why it does not: who got past `acquire` still
  holds the lock, and only its holder gives it back.
- `StopLeavesNothing`: `NothingOutlivesStop`, from `ChildKnown`: a live process
  that no dead service left behind is the child the watchdog knows, and a
  watchdog that is off or about to start a process has no child. The second half
  is what a spawn needs, which would forget the child there was. `SvcStop` may
  come before the other thread spawns; the `finally` clause of `run`
  (`RunEnds`) then stops what it missed.

### `StrategyGovernanceProofs`

For any number of sessions, candidates, versions, commands and faults
(`NoneAssumption`, `BoundAssumption`):

- `GovernanceTypes`: `TypeOK`; every chain of seals takes allowed steps only.
- `SealsAreAboutTheirSubmission`: `SealsFitSubmission`.
- `ApprovalsAreUsedOnce`: `ApprovalFreezesOnce`.
- `FinalSealIsLast`: `SealedIsComplete`.
- `ApprovalsCanResume`: `ApprovedCanResume`.

The lock covers single writes of the registry, not the commands: between
reading a credential and sealing it a session computes for minutes, and
roll-backs run without the lock and may remove the credential or the whole
family. The invariant (`GovernanceInvariant`) therefore speaks of admissions:

- A credential is known by the admission that wrote its first seal, and nothing is of
  an admission that has not happened (`Admitted`).
- Who judges or approves still has the candidate of the submission it read
  (`JudgeKnows`), and what an approver read does not become longer than the
  credential is, nor is it for another version while the credential is as it
  was read (`ApproverKnows`, `ApproverPast`). Who holds the lock can put back
  what was there before its first write, although a roll-back may have removed
  the credential meanwhile (`HolderKnows`).
- Versions are numbered without gaps (`VersionsInOrder`), and a version that
  names the present credential is the one its approval is for (`ChainNames`).
  Neither of the two goals about approvals is inductive without this.
- A session that has something to undo found no credential when it began, so
  that a roll-back removes a credential and never brings an older one back
  (`KeptAreNew`). Where it found no family, its roll-back removes the
  versions with it; it is then the only one with anything to undo (`OneWiper`,
  `NoFamilyYet`).

The proof first says what the commands have in common (a step that leaves the
registry alone, appends a seal, takes or gives back the lock, removes the
credential) and then has one lemma per action.

### `CashReconciliationProofs`

For any orders, amounts, fees, tolerances and movements of cash:

- `ReconciliationTypes`: `Types`, with any number of threads and crashes. What a
  refresh has read depends on how far it is, so `Frame` is a union of record
  sets, one for each stretch of the code; from `Compare` on there is a snapshot.
- `FillsBookedOnce`: the fills table, from which the fees are computed, lists
  every booked order exactly once, Futu has filled all of them (`FillsAreOrders`), and neither the checkpoint nor the
  reference of a booked variance is ahead of the table (`MarksAreFills`). `ThreadsRely` says why several refreshes
  do no harm here: the snapshot a thread books was Futu's and fills are not undone, an order leaves the
  working states in the transaction that books it, and the rows a thread is about to mark
  were there when it read them.

What the books say of the cash (`BookedOnce`, `SentOnBalancedBooks`) fails with two refreshes
at a time, which the code allows (`TwoReconcilers`, `BookedWhileSending`), so there is no theorem about it.

### Only model-checked

- Liveness under fairness is out of the prover's reach: `OutcomesAreBooked`,
  `IncompleteEndsAreReviewed`, `EveningDecides`, `BooksClose`, `ServiceReturns`.
- `FillsCanBeBooked`, `EndedStaysEnded`, `OpenCanBeClosed`, `OpenBuysAreFunded`,
  `LedgerAgrees` and `FrozenIsOutstanding` do not hold of any number of threads and any prices
  (`ExpiredInFlight`, `StaleReport`, `RoundedBatch`), nor `BookedOnce` and
  `SentOnBalancedBooks` of any number of refreshes and crashes. The runs check them within bounds that the
  code does not enforce; theorems under the same hypotheses would hide that.

### What the theorems assume of the constants

The named assumptions of each module, which TLC evaluates on every run. `PaperStore`: finite
sets of accounts, intents and orders; whole prices, quantities and fee rates
that are not negative (`FeeAssumption`, `LegAssumption`, `InitialAssumption`); an intent has the account of its decision
(`OwnerAssumption`); the intents that an older release expired too early were planned, and of one account and
signal date they belong to one decision (`LegacyAssumption`, `LegacyDatesAssumption`); `None` is
none of the values it is put beside (`NoneAssumption`).
`FutuExecution` adds `KeysAssumption`: no account is an intent, since a health
entry is filed under either (`OwnerOf`). `CashReconciliation`: finitely many
orders, whole amounts. The others are listed with their modules above.

## Not modelled

`apply_broker_fee_reconciliation`, which nothing calls any more (but that a
booking changes the portfolio is in `DecisionCycle`), average prices, snapshots and
metrics, orders at Futu that no intent owns and orders that differ from their
intent (both block the channel), cancel tokens,
`repair_account_ledger`, `require_account_intent_attention`, audit records; of
the registry `update_family`, `record_evidence`, `promote`, `downgrade`,
`retire` and the legacy backfill, which no command calls; a drive that goes on
over midnight; the installation of a release's environment; and the components
that `PROJECT.json` lists as not modelled, each with its reason. The largest
part of the repository, the research experiments and the numeric packages,
computes over tables and keeps no state that a model checker could say
something about.

## Plan

Done: the store, the execution, the decision cycle with the book of decisions,
the deployment of releases, the governance of strategies and the reconciliation of
cash, each with its proofs. Left, in the order of what could hurt most:

1. The counterexamples as a design question: which lock would have to be held from the check to the
   order for `NoTradeOverAGap`, `OpenBuysAreFunded` and `EndedStaysEnded` to hold with two threads?
   A module with that lock, and the theorems without hypotheses.
2. `PositionIsFills` and the frozen cash for the repair of a ledger
   (`repair_account_ledger`): a correction is applied once and only where the ledger is damaged.
3. Several symbols in `CashReconciliation`. `CancelToken`: a token cancels one order once.
4. `PreparedStore` (SRT): the atomic replacement of an account's prepared data.
   `HistoricalLedger` (TXE): replay against a reference definition.
