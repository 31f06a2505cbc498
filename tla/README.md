# TUX Trader: a TLA+ model of the trading core

These modules model the part of TUX Trader that decides what is ordered, what
is executed, and what is remembered of it: the paper exchange
(`crates/tux-core/src/sim.rs`), the risk engine (`risk.rs`), the spot portfolio
(`portfolio.rs`), the order state machine (`domain.rs`), the runtime that
lets several threads use them together with a SQLite store
(`services/tuxd/src/runtime.rs`), the control of the strategy
(`runtime.rs`, `control.rs`, `pipeline.rs`, `tux-strategy`), the order manager
and the reconciler in front of a venue (`oms.rs`, `tux-exchange`), the request
limiter (`ratelimit.rs`), and the order in which all calls take the mutexes. TLC
checks the modules on small instances;
TLAPS proves the theorems of the modules named `*_proofs` for every value of the
constants.

    tlc -config engine_serve.cfg MCPaperEngine     # any run of PROJECT.json
    tlapm RiskEngine_proofs.tla                    # or any other *_proofs.tla

## 1. Inventory

| component | source | state | operations | who calls it |
|---|---|---|---|---|
| order domain | `domain.rs` | an order's status and filled quantity | `apply_status`, `can_transition_to` | engine, order manager |
| paper exchange | `sim.rs` | `Inner` (orders, books) and `pending_fills`, a mutex each | `place_order`, `on_book_top`, `take_fills`, `cancel_order`, `restore_order`, queries | runtime, feed, demo loop |
| risk engine | `risk.rs` | kill switch, rejections in a row, order times, open notionals and counts, loss facts | `check_intent`, `note_order_terminal`, `note_order_restored`, `update_pnl_facts`, `set_feeds_connected`, `KillSwitch` | runtime, under its mutex |
| portfolio | `portfolio.rs` | balances, positions, profit books, ledger | `apply_spot_fill`, `seed_balance`, marks | runtime, under its mutex |
| order manager | `oms.rs` | orders by id, indexes by intent and client id | `create_from_intent`, `upsert`, `submit`, `cancel` | runtime, under its mutex |
| store | `store.rs` | SQLite tables | `save_*`, `load_*`, reports | runtime, control API; one mutex per call |
| market state | `market.rs` | latest top and trade per instrument | `on_book_ticker`, `reference_price`, `age_ms` | feed, runtime |
| runtime | `runtime.rs` | the components above and the strategy snapshot | `execute_intent`, `drain_fills`, `apply_fill`, `persist_equity`, `restore_from_store`, strategy control | every thread |
| feed and demo loop | `live_feed.rs`, `pipeline.rs` | the strategy host, the applied revision | a tick: market, engine, drain, persist; the demo adds the strategy's intents | timer, `main` |
| strategy snapshot | `runtime.rs` | status, parameters, revision and counters, under a mutex; a JSON row in the store | `configure_strategy`, `set_strategy_status`, `strategy_intent`, `note_strategy_*` | handlers, demo loop, whoever applies a fill |
| control API | `control.rs` | none | manual order, trigger, pause, resume, stop, configure | HTTP handlers, any thread |
| strategy host | `tux-strategy` | `sent`, parameters | `on_market`, `on_config_update` | demo loop |
| event bus | `events.rs` | a broadcast channel of 1024 events | publish, subscribe | runtime, demo loop |
| exchange side | `tux-exchange` | rate-limiter window | `try_acquire`, `backoff_ms`, `Reconciler`; the adapters are skeletons | nobody yet |

What is hard in this code:

- **No mutex spans a call.** `execute_intent` goes through seven critical
  sections, `place_order` alone through four or five. The feed's tick and the
  HTTP handlers run on other threads and interleave between any two.
- **Fills belong to nobody.** `take_fills` hands the draining thread the fills
  of every order; the thread that placed an order may find it filled by another.
- **Three copies of an order** (engine, order manager, store) are written one
  after the other, and each write takes the record its writer happens to hold.
- **Only the store survives**, and its rows are written one at a time: fills,
  orders and the balance of each asset in statements of their own, any of which
  may fail and end the call it is in.
- **An answer may be lost.** `submit` and `cancel` await a venue that may have
  acted when the call fails.
- **Mutexes nest** in four places, and are std mutexes: a thread that locks one
  twice waits for itself.
- **The strategy is controlled by copies.** The demo loop decides on a clone of
  the snapshot and trades with a copy of its parameters, and every clone that is
  stored is stored after the mutex was released.
- **Bookings are increments.** The risk engine never recomputes its maps; every
  path must book and release exactly once with the same notional.

What makes each component correct is listed with the runs in section 4; the
hazards, with their lines and the properties that cover them, are in
`PROJECT.json`.

## 2. Modules

| module | models | extends |
|---|---|---|
| `OrderStatus` | statuses, transitions, `apply_status`, how status and filled quantity agree | |
| `OrderLifecycle` | abstract: what a venue promises of an order | `OrderStatus` |
| `PaperMatching` | when an order crosses, at what price and size it executes, what a fill does to it | `OrderStatus` |
| `PaperEngine` | the engine, one action per critical section, any number of threads | `PaperMatching` |
| `RiskRules` | `check_intent` and the bookings as operators on one record | |
| `RiskEngine` | the risk engine as a state machine, with the bookkeeping its callers owe it | `RiskRules` |
| `SpotPortfolio` | balances, fees, `apply_spot_fill`, `equity_mtm` | |
| `TradingRuntime` | the runtime's calls over engine, order manager, risk, portfolio and store, with crashes, restarts and failing writes | `PaperMatching`, `RiskRules`, `SpotPortfolio`; instantiates `OrderLifecycle` |
| `StrategyControl` | the strategy snapshot, those who change it, and the demo loop that follows it | |
| `OrderManager` | the order manager, the venue behind `ExecutionPort`, and the reconciler that compares them | `OrderStatus` |
| `RateLimiter` | the request limiter, with a clock that is off and read outside the lock | |
| `LockOrder` | every call of the service as the critical sections it goes through | |
| `PaperEngine_proofs`, `RiskEngine_proofs`, `TradingRuntime_proofs`, `StrategyControl_proofs`, `OrderManager_proofs`, `RateLimiter_proofs`, `LockOrder_proofs` | theorems and proofs about the module of that name | that module, and `FoldTheorems` where sums or least elements are needed |
| `FoldTheorems` | lemmas about sums over functions and about folds, and induction in a form the provers can use | |
| `MC*` | finite instances for TLC | |

Operators named `X_Y` next to a definition `X` (`Pruned_Exclusive` next to
`Pruned`) are mutations: plausible bugs used to see that a property can fail.
Nothing else refers to them.

### PaperEngine

State: `orders` and `book` are `Inner`; `pending` is `pending_fills`; `pc`,
`call`, `scan` and `hand` are the program counter and the locals of the call a
thread is in; `holder` says who holds the mutex across steps. `boot` is where
`restore_from_store` stands, and `stored` what it reads: the rows of an earlier
life and, when callers are early, of this one. `delivered` and `setback` are
history: the quantity of an order that left through `take_fills`, or was filled
in an earlier life; and, of an order a restore has seated over a record of this
life, both records.

| code | actions |
|---|---|
| `place_order`, sim.rs:406-521 | `PlaceCheck` (duplicate check), `ReadTop` (first reading of the book; post-only and fill-or-kill decisions), `TakeNow` (second reading; fill, time in force), `Insert`, `Publish` |
| `on_book_top`, sim.rs:115-123 | `SetBook`, `BeginMatch`, `MatchOne` per order in any order, `EndMatch`, `Publish` |
| `take_fills`, `cancel_order` | one action each |
| `restore_from_store`, runtime.rs:560-584, `restore_order`, sim.rs:107-112 | `LoadOrders` (the open orders as they are stored then), `RestoreOrder` per active order of the list, whatever the engine has of it, `EndBoot` |
| `save_order` by an early caller, runtime.rs:416 | `SaveOrder`, of use to the restore only before `LoadOrders` |

`restore_order` inserts without a look. With `EarlyCalls` the record it overwrites
may be newer, filled or cancelled even: the order then has a second life
(`Lives`), which starts at the older record and must keep `OrderLifecycle` like
the first, and what the first had filled more is `TakenBack`. `NothingSetBack` says
that this takes early calls.

Prices and quantities are integers in the smallest unit. The program's decimals
are only compared, subtracted and minimised here, so small integers show every
case; only the queue model divides, and its instances display sizes it divides
exactly. A missing price is 0. `slippage` is 0 in every constructor. `gtd` is
not accepted by the API and behaves as `gtc`. Client order ids are assumed to
pass `validate_client_order_id`, which looks at their length and alphabet.

### RiskRules and RiskEngine

The engine's value is one record. The rules are grouped in the order the code
evaluates them, because the rate check prunes its queue even when it, or a rule
after it, rejects: `AfterRejection` depends on `BeforeRateCheck`. What depends
on the intent and the instrument alone (whitelist, tick and lot filters,
leverage) is one Boolean, `valid`. `live`, `approved` and `released` are
history: how each booking was made that has not been released, when intents were
approved, and whether the operator has released the switch since the last
approval.

`RiskEngine` states the callers' side of the bargain as guards: what was booked is
reported terminal once, with the notional it was booked with, and an id is
approved once at a time. `TradingRuntime` does not assume that: there the calls are
those of the code, and section 5 lists where the bargain is broken.

Of a restore nothing is assumed. `note_order_restored` looks at no limit, so
restored orders may be past any cap; intents are checked before, during and after
the restore, and an order that was approved in this life may be restored too and is
then booked twice (hence `Keys`: an id, and how it came to be booked).
`restore_from_store` keeps the mutex while it books its list; the model lets calls
in between, which only adds behaviours. What is left of the caps is that nobody gets
more *approved* than they allow (`CapsHold`). The clock does not step back.

### TradingRuntime

One action per critical section of the runtime's calls; engine calls are single
steps, because `PaperEngine` takes them apart.

| code | actions |
|---|---|
| `restore_from_store`, runtime.rs:542-584 | `BootSeed`, `BootLoad`, `BootRestore` |
| `execute_intent`, runtime.rs:371-422 | `ReadMarket`, `Submit`, `Place`, `UpsertPlaced`, `SavePlaced`, then the drain, then `Finish` |
| a tick, live_feed.rs:39-78, pipeline.rs:151-234 | `TickMarket`, `TickEngine`, the drain; `MissedTick` for a turn without a price |
| `drain_fills`, `apply_fill`, runtime.rs:436-492 | `TakeFills`, and for each fill `ApplyToPortfolio`, `SaveFill`, `QueryOrder`, `ReflectInOms`, `ReleaseFilled`, `SaveSeen`, `NextFill` |
| `persist_equity`, runtime.rs:511-540 | `CopyBalances`, `SaveBalances` |
| a write to the store returns an error | `StoreFails`: the call ends as `?` ends it there, with `GiveUp` for what its caller does then |
| the process dies, and starts again | `Crash` |

`gone` is history: the fills an error made a call drop, apart by whether the
portfolio had taken them (`unsaved`) or not (`lost`). `save_balances` holds the
connection for all its rows, so it is one step; a crash or an error in it leaves
any part of them (`PartlyWritten`).

Abstracted: `Submit` marks the equity, informs and asks the risk engine, and
creates the order in one step; `CopyBalances` marks and copies in one step.
Ids are fresh, so the duplicate paths of the order manager and the engine are not
taken here (`OrderManager` takes the former). Ledger, equity and tick rows and
the strategy snapshot are written by the same calls; nothing modelled here reads
them, but their failure is one of `StoreFails`. Market data is never stale. A feed's
tick has both sides, as `fetch_book` makes sure. `Rows`, the assets a balance is
kept of, are those that were stored and those a fill has touched; that one has is
told by its fee, which sim.rs:42-43 sets above zero.

### StrategyControl

State: `snap` is the snapshot in memory, `stored` its row, `host` the one-shot
strategy with the configuration applied to it; `pc` and `job` are a call's
program counter and locals. Every change has the shape of `Change`: the mutex
is taken, the snapshot changed and cloned, the mutex released, and the clone
stored by a step of its own, `Save`. `versions`, `bought` and `begun` are
history: the configurations there have been, the automatic intents, and what the
loop's turn began with.

| code | actions |
|---|---|
| `configure_strategy`, `set_strategy_status`, runtime.rs:210-253 | `Configure`, `SetStatus`, `Save` |
| `trigger` and `manual_order`, control.rs:292-388 | `Trigger` (`strategy_intent` on one clone), `NoteSignal`, or `ManualOrder`; then `Execute`, `NoteOrder`, with a `Save` after each change |
| the sampler's `drain_fills` | `NoteFill`, `Save` |
| `run_paper_demo`, pipeline.rs:71-94 | `StartLoop` |
| a turn of it, pipeline.rs:120-234 | `BeginTick` (market, engine, drain, or no price), `Decide` (apply a new revision, ask the strategy), `NoteSignal`, `Execute`, `NoteOrder` |
| the process dies, and starts again | `Crash` |

Abstracted: the counters of signals, orders and fills, the last error and the
times of a snapshot. What `execute_intent` does is `TradingRuntime`'s matter;
here it is refused, or makes an order, or fails after it made one, and in either of
the last two cases may have applied a fill; one fill stands for any number, since
each only clones and stores once more. A configuration
the checks of `configure_strategy` refuse changes nothing. Writes do not fail.

### OrderManager

State: `orders`, `by_intent` and `by_clid` are those of `Oms`; `venue` is what
the venue holds, and `reports` every status it ever sent. Every operation borrows
the order manager for as long as it runs, so each is one action; what the venue
does meanwhile shows as an action of the venue after it.

| code | actions |
|---|---|
| `create_from_intent`, oms.rs:103-157 | `Repeat`, `Create`; an error changes nothing |
| `submit`, oms.rs:172-192 | `SubmitAnswered`, or `SubmitFails` (`mark_unknown`), whether the venue has accepted or not |
| `cancel`, `apply_status`, `upsert` after a query | `Cancel`, `ApplyStatus`, `Query` |
| `diff_orders`, `diff_balances`, `diff_positions`, reconcile.rs | operators `DiffOrders`, `DiffAmounts`, used by `ReportClean` |

Abstracted: there is one instrument, orders execute at their price, and what a
balance was before the first order is left out of both sums, as the same there.
`Bought` is signed by the side, so a buy and a sell cancel there as they do in the
code's totals. `MCOrderManager` only adds the symmetry of the run. Nothing in the services calls `submit`, `cancel`, `apply_status` or
the reconciler yet; the venue is what the trait `ExecutionPort` lets `oms.rs`
assume.

### RateLimiter

`try_acquire` is `ReadClock` and then `Grant` or `Refuse` under the mutex. A
call's time may be up to `Late` behind and `Early` ahead of the true time when it
gets the mutex: that covers the wait for the mutex, a clock that is set, and
calls that get in in the opposite order of their times.

### LockOrder

A call is a sequence of critical sections, and a section a sequence of locks and
unlocks: `owner` is who holds a mutex, `todo` the sections a thread's call has
left, `at` how far it is in the first. `Fail` ends a call after any section. A
section is as long as the guards live: edition 2021 keeps the guard in the head
of a `match` to its end (runtime.rs:396, where the risk engine is locked in an
arm), and the connection's guard in `Store::overview` is dropped before
`equity_series` locks it again.

## 3. Constants and bounds

- Orders: two in the engine, three in `runtime_demo`, one in `runtime_serve`. Two
  are the least with which displayed size is shared and client ids collide. One
  with two partial fills is enough for a call to drain another's; its second half is
  beyond the opening balance.
- Threads: one (the demo process) or two (the service). Every race found needs
  two.
- Books: two to four tops that put the instrument inside, at and beyond the
  limits of the orders, with sizes below and above theirs, and one without bids.
- `MaxFaults` 1: one failing write at any point of a life, before, after or
  without a crash.
- `orders`: three intents over two client order ids, so that two must share one,
  two sides, quantities and prices, any number of repetitions. Three orders are
  enough for two unseen fills to cancel and a third to make a difference.
- `engine_serve`: one stored order, which has a client id of its own, two orders of
  this life at most, one top that both sides cross, the buyers at a thin side. What
  is placed before the tick rests, may be saved, filled, cancelled, and set back.
- `limiter`: two callers, a limit of 2 in a window of 3 with times wrong by 1
  each way, seven ticks: two windows, and times in every order.
- `locks`: two threads; a cycle of more threads is excluded by the theorem.
- `EarlyCalls`: whether calls run while stored orders are restored
  (`main.rs:77-97` in serving mode) or not (the demo).
- `MaxCrashes` 0 or 1: one crash at every point, with everything a second life
  can do after it; a second crash finds the same kinds of store.
- `RiskEngine`: clock up to `MaxTime` = 4 with a window of 2, up to
  `MaxApprovals` = 4 approvals and `MaxRejects` = 3 rejections in a row: two
  windows one after the other, and a full row. Two approvals reach a strategy's count
  and three the account's notional; two restored orders are past the one and three past the
  other, with approvals before, between and after them.
- `FillModel`: `immediate`, which `main.rs:45` sets, in `runtime_demo` and
  `runtime_refill`; `l1` in the other runs of the engine and the
  runtime, because its partial fills make more of the races; `queue` in
  `engine_live`, with displayed sizes that its halves divide.
- `strategy`: two configurations, up to revision 3, two turns of the loop and
  one crash: a change before, within and after a turn, one of them back to the
  parameters of an older revision, and a second life that starts from any row
  the first may have left. One handler thread is enough there, because a
  change is one critical section and the loop is the second writer;
  `strategy_store` has two handlers.
- Symmetry is used for ids and threads where only safety is checked; the
  refinement of `OrderLifecycle` is safety, and treats all ids alike.
- Every run lets the system go on; deadlock is checked in all of them.

## 4. What the runs show

Passing:

| run | properties | says |
|---|---|---|
| `engine_demo` | `TypeOK`, `FokAllOrNone`, `IocNeverRests`, `OneLiveOrderPerClid` | with one caller a fill-or-kill order is filled whole or not at all, immediate-or-cancel orders never rest, and client ids are unique among live orders, after a restore too |
| `engine_serve` | `FillsConserved`, `DisplayedSizeSpentOnce`, `OrderLifecycleKept` | whatever interleaves, and while orders are still restored, filled and taken back = collected + pending + in hand, a pass hands displayed size out once, and each life of an order implements `OrderLifecycle`: legal transitions, no overfill, terminal is final, and no second life but by a restore |
| `engine_live` | `CrossedOrderExecutes`, `FillsCollected` | no order stays crossed for ever, every fill is collected |
| `risk` | `TypeOK`, `BookingsExact`, `CapsHold`, `RateHolds`, `BreakerTrips`, `KillSwitchHolds` | the maps equal the bookings; approvals stay under the caps, whatever is restored when; the window, the breaker and the switch |
| `runtime_demo` | `TypeOK`, `CopiesAgree`, `StoredBalancesCurrent`, `BookingsMatchLiveOrders`, `StoreKeepsLifecycle` | with one thread all copies agree between calls and bookings of limit orders are exact, across a crash at any point; an error leaves bookings too many, never too few; the store's orders implement `OrderLifecycle` over both lives, whatever crashes or fails; saved balances are current until a crash or an error |
| `runtime_serve` | `FillsReachTheStore`, `BalancesNonNegative`, `PortfolioMatchesFills`, `ExecutionEventuallyStored` | two threads that drain each other's partial fills lose none and store none twice, but for those an error drops by name; no overdraft, and balances are those the fills explain, with funds running out and a write failing; what a failed call leaves in the engine is drained by a later tick |
| `strategy` | `TypeOK`, `RevisionNamesConfiguration`, `OneShotBuysOnce`, `PauseStopsNewIntents`, `FreshConfigurationUsed` | whatever is configured meanwhile, a revision stands with its own parameters wherever it is kept; a pause before a turn stops the turn; the turn trades with a configuration no older than its beginning; the strategy buys once in a life |
| `limiter` | `TypeOK`, `RateBounded`, `RefusedOnlyWhenFull` | a window of true time, less what the times may be wrong, grants no more than the limit; a refusal means the limit was granted within a window and that error |
| `orders` | `TypeOK`, `IdempotentAnswers`, `PlacedOnce`, `LiveOrdersKnown`, `CleanReportHidesPairsOnly` | an intent gets one order however often it is repeated; the venue accepts an order once unless an unknown one is submitted again; what lives at the venue is never taken for ended; after a clean reconciliation the active orders are the open ones, although it compares client ids, and an unseen fill is hidden by one of the other side or not at all, although it compares sums |
| `locks` | `TypeOK`, `NoCircularWait` | whatever two calls are in, and wherever one fails, one of them can go on |

Each property has a mutant in `PROJECT.json` that breaks it.

Fairness. In `PaperEngine`, a started call goes on (the scheduler runs every
thread; a mutex another thread takes again and again is not withheld for ever,
hence strong fairness), the sampler's two-second timer ticks every instrument
again and again, and some loop that ticks also drains (`live_feed.rs:65`,
`pipeline.rs:168`). Placing orders is never fair. In `TradingRuntime`
started calls and the restore are fair, and a tick comes again and again: strongly,
because the threads that tick may be busy in between, and as long as the price
source answers. Without failures no tick is needed for what was executed to be
stored, because the call that executed also drains; after one it is.

## 5. Where the code departs from what it says

Two runs stop at a violation, with the sentence each refutes quoted in
`PROJECT.json`:

| run | what happens |
|---|---|
| `strategy_store` | the clone taken before a pause is stored after it: the store says the strategy runs, and the next start runs it |
| `runtime_refill` | a crash between the fill's row and the order's row: the order is executed again |

The same models show more when one constant of a run, or the condition of one
property, is changed; the passing runs say what is right otherwise:

| departure | seen with |
|---|---|
| a tick between check and fill leaves a fill-or-kill order partly filled and resting (sim.rs:440) | `FokAllOrNone` in `engine_demo` with two threads |
| with the immediate model a fill-or-kill order that does not cross rests (sim.rs:478) | `FokAllOrNone` in `engine_demo` with the immediate model and without `RespectsLiquidity =>` |
| a restore beside early callers seats an older record over an order that was saved, and filled or cancelled since: it executes again, or lives again (sim.rs:107-112, runtime.rs:560-578, main.rs:77-97) | `setback` empty, in `engine_serve`; or `FillsConserved` without `TakenBack` |
| an unseen buy and an unseen sell of the same size and price cancel, and the reconciliation is clean (reconcile.rs:40-74) | `Unseen` empty for each side, of `CleanReportHidesPairsOnly`, in `orders` |
| a restore books past the caps (risk.rs:101-113) | `CapsHold` over all of `live`, not `Approved`, in `risk` |
| two calls with one client order id both pass the duplicate check (sim.rs:411) | `OneLiveOrderPerClid` with two threads |
| a fill the portfolio refuses is executed in the engine and stored nowhere (runtime.rs:489) | `FillsReachTheStore` in `runtime_serve` without `gone` |
| a market order is booked at the mid and released at the fill's price: the account's open notional drifts (runtime.rs:460) | `BookingsMatchLiveOrders` in `runtime_demo` with a market order of the immediate model |
| the record from `place_order` overwrites a newer, filled one in the store (runtime.rs:416) | `StoreKeepsLifecycle` with two threads |
| `save_balances` is cut short by a crash: one asset's row is new and the other's old, or missing, and then the account is not seeded (store.rs:374) | `StoredBalancesCurrent` without `crashes = 0` |
| the state machine lets an unknown order be submitted again, which README:190 of the repository forbids, and the venue may accept it twice (domain.rs:250) | `PlacedOnce` with `RetryUnknown` |
| an intent that repeats a client order id with another price gets the first order back (oms.rs:122; by intent id the price counts, oms.rs:110) | `SamePayload` has it so; no property speaks of it |
| an order placed during the restore is booked twice (main.rs:85) | `BookingsMatchLiveOrders` with `EarlyCalls` |
| a crash before `persist_equity` brings the old balances back (runtime.rs:537) | `StoredBalancesCurrent` without `crashes = 0` |
| `sent` is not stored: the strategy buys again after a restart (tux-strategy lib.rs:199) | `OneShotBuysOnce` without the count of lives |
| partial fills drained together release an order's booking twice (runtime.rs:459) | `BookingsMatchLiveOrders` in `runtime_serve`; with one thread too, in `runtime_demo` with the model `l1`: a write fails after an order was placed and filled in part, and the next tick drains that fill with the rest |

One more follows from the modules and is in no run, because none composes them:
two intents with one client order id, side and quantity get one order
(`OrderManager`, `Repeat`), and `execute_intent` places it for each; the engine
looks only at live orders (`LiveClids`), so if the first call's order is filled
already it is executed again under its own id.

## 6. What is proved

Every theorem holds for all values of the constants that satisfy the named
assumptions of its module: types, and that threads and orders are finitely
many. Bounds on clocks, revisions, turns, crashes and faults are not used but for
the types. A theorem that needs more names it:

| hypothesis | meaning | of |
|---|---|---|
| `OneThread` | one thread makes all calls, as in the demo process | some of the engine's and the runtime's |
| `CallsWait`, `EarlyCalls = FALSE` | no call runs before the restore is done, as in the demo process; otherwise the restore may overwrite an order that was placed meanwhile | the runtime's, but for the first three; `ClidsUnique`, `NothingSetBack` |
| `FirstLife` | the claim is made until the first crash, as its run has it | three of the runtime's |
| `RestoredRest` | a stored order that is restored and may take at once (market or limit) is not immediate-or-cancel, and is fill-or-kill only if fills are immediate and it has none: the theorems show of the earlier life that it left nothing else | `IocEndsAtOnce`, `FokFilledWholeOrNotAtAll` |
| `OneThread` or not `RespectsLiquidity` | one caller, or the fill model `immediate`, which main.rs:45 sets, with any number of them; section 5 has what several do with the other models | `FokFilledWholeOrNotAtAll` |
| `Immediate` | the fill model is `immediate`, as in the demo process (main.rs:45): an order executes whole or not at all | `BookingsAlwaysMatchLiveOrders` |
| `AllPriced` | every order has a price, as the API and the one-shot strategy give it to all but market orders | `BookingsAlwaysMatchLiveOrders` |
| `RetryUnknown = FALSE` | an order of unknown fate is not submitted again | `NothingPlacedTwice`, `LiveOrdersAlwaysKnown` |

What the code does without a hypothesis is in section 5. The runs that check the
property satisfy the hypothesis, or go beyond the theorem.

### RiskEngine_proofs

| theorem | of | argument |
|---|---|---|
| `TypeCorrect` | `Spec => []TypeOK` | `TypeOK` is inductive; each call maps `RiskStates` to `RiskStates` (`BookedType`, `AfterCheckType`, ...) |
| `CapsAlwaysHold` | `CapsHold` | the engine checks its maps, and they are the sums over all bookings (`Exact`), of which the approvals are a part (`PartOfSum`): so an approval that fits in with everything booked fits in with the approvals (`ApprovalKeepsCaps`); what a restore books is not among them (`RestoredKeepsCaps`), and a release takes from both (`ReleaseKeepsCaps`) |
| `KillSwitchAlwaysHolds` | `KillSwitchHolds` | step by step from `TypeOK`: an approval needs the switch off, and only the operator's release writes FALSE |
| `BreakerAlwaysTrips` | `BreakerTrips` | inductive with `TypeOK`: the rejection that completes the row engages the switch; an approval starts a new row |
| `RateAlwaysHolds` | `RateHolds` | needs a strengthening, below |
| `BookingsAlwaysExact` | `BookingsExact` | `Exact`: the maps are sums over the bookings of each strategy and account, which are finitely many; a call that books or releases changes them by one (`OneMore`), and each sum by what it books (`BookedExact`, `ReleasedExact`) |

`RateHolds` speaks of the history of approvals, and the code of a queue it has
pruned. The inductive invariant says that the queue is an end of the history and
that everything in front of it is older than the window (`WindowKept`), together
with `RateHolds` itself (`RateKept`). Pruning keeps it, because what
`Pruned` drops is older than the window now and stays so (`PruningKeepsWindow`,
`WaitingKeepsWindow`); an approval appends to both (`AppendKeepsWindow`) and was
admitted with fewer than `max_order_rate` entries in the queue, so the approval
`max_order_rate` places earlier is in front of it.

### PaperEngine_proofs

| theorem | of | argument |
|---|---|---|
| `InvariantHolds`, `TypeCorrect` | `IInv`, `TypeOK` | `IInv`: what is shared has its type, ids under way are new and distinct, and every thread has what its program counter needs (`ThreadOK`): an order whose status agrees with its fills before it is inserted, a scan of resting orders, and the mutex while it scans |
| `LifecycleKept` | `OrderLifecycleKept` | the refinement: an inserted order is admitted in a state a venue may report first (`Admitted`), a fill or a cancel advances it legally (`Advanced`), a restore over it leaves its life as it was and admits a second one (`OrderSetBack`), and every other step leaves `Life` alone |
| `NothingSetBack` | no record set back, with callers that wait | `Waited`: until the restore ends the engine knows no order but those restored, and none of them is still on the list |
| `NoFillLost` | `FillsConserved` | `Accounts`: also of the order a call is about to insert, whose fills are in that call's hand and nowhere else; each action moves a fill from one term of the sum to the next, and a restore over an order moves the difference to `TakenBack` (`RestoreOrderAccounts`) |
| `SizeSpentOnce` | `DisplayedSizeSpentOnce` | what a pass has taken from a side and what it has left is what the top displays |
| `IocEndsAtOnce` | `IocNeverRests` | `AllEnded`: of orders a call is about to insert too; no later step brings an order back to life |
| `FokFilledWholeOrNotAtAll` | `FokAllOrNone` | `AllWhole`, of stored records too. With immediate fills whatever the top, an order gets all or nothing (`WholeOrNothing`), also while it rests, so races do not matter; with displayed size the top that `ReadTop` found deep enough is the one `TakeNow` takes from (`BookKept`), since the one caller is the one who could change it |
| `ClidsUnique` | `OneLiveOrderPerClid` | `ClidsFresh`: with `Waited`, of a call past the duplicate check, no live order has its client id |

### OrderManager_proofs

| theorem | of | argument |
|---|---|---|
| `InvariantHolds`, `TypeCorrect` | `Inv`, `TypeOK` | `Inv`: order ids are numbered and indexed by the intents they have (`Numbered`), answers name the order their intent finds (`Answered`), what is known here is behind the venue, never ahead of it (`Behind`), and what was reported ended stays so (`Once`) |
| `AnswersIdempotent` | `IdempotentAnswers` | `Answered`: creating an order takes no index entry another has |
| `NothingPlacedTwice`, `LiveOrdersAlwaysKnown` | `PlacedOnce`, `LiveOrdersKnown` | `Once`: only an order in status `risk_approved` is submitted, and the venue has not heard of one; an old report is refused by the state machine or says no less than a newer one |
| `CleanReportsHidePairsOnly` | `CleanReportHidesPairsOnly` | a client id names one order, so the lists agree in their orders; the order manager is never ahead of the venue (`Behind`), so what it has not seen of one side moves the base amount one way, and only the other side can move it back (`OneSideSeen`) |

### TradingRuntime_proofs

| theorem | of | argument |
|---|---|---|
| `InvariantHolds`, `TypeCorrect` | `IInv`, `TypeOK` | what is shared has its type, of each copy that its status agrees with its fills; and a call has in hand what its step works on (`JobAt`) |
| `BalancesAlwaysNonNegative` | `BalancesNonNegative` | `Funds`: of the copies in hand and the stored rows too, since a restart takes them over; a buy is checked for notional and fee, a sale for what it sells, and no fee is more than its notional |
| `FillsAlwaysReachTheStore` | `FillsReachTheStore` | `FillsAccounted`: for every order id, what the engine has executed is what the ledger counts, where the ledger is stored, lost, unsaved and pending fills and those in the hands of all threads; `FreshIds` says that an order about to be placed is in no hand |
| `PortfolioAlwaysMatchesFills` | `PortfolioMatchesFills` | `MoneyAccounted`: at any moment the portfolio is the opening balances and what is due for every fill that is stored, unsaved, or applied and not yet stored; fills credit by addition, so their order does not matter (`FillsCredit`) |
| `ExecutedAtMostOnceInFirstLife` | `ExecutedAtMostOnce` until a crash | from `FillsAccounted`: nothing in the store that the engine has not executed, and the engine executes at most what was asked (`AsAsked`); `runtime_refill` shows what a crash changes |
| `StoredBalancesAlwaysCurrent` | `StoredBalancesCurrent` | `BalancesCurrent`: unless the call is past its fills, or has touched nothing, the stored rows tell what the portfolio does |
| `CopiesAlwaysAgree` | `CopiesAgree`, in all lives | `CopiesFollow`: an order is either the same in all three copies, or some fill or call owes the copy: a pending fill names it, or the call's fills or its locals do |
| `StoreAlwaysKeepsLifecycle` | `StoreKeepsLifecycle`, in all lives, with any crashes and errors | the refinement: `Known` says that what the call or a restore has in hand is not ahead of the engine, `Continued` that the engine's order continues the stored one; so a row that is written is admitted, advanced, or the same |
| `BookingsAlwaysMatchLiveOrders` | `BookingsMatchLiveOrders`, in all lives | `HeldBooked`: the bookings are the sums over `Held`, below |

At most moments the risk engine has more booked than what is live. `Held` names
the orders that are: those live in the engine; those that are filled while the
fill is pending or in the call's hand and not yet released (`Waiting`); and the one
that is approved and not yet placed, or was placed and ended without a fill, which
the end of its call releases (`Answers`). Each step adds one order to `Held` and
books its `Cost`, takes one out and releases the same `Cost`, or changes neither;
an error takes orders out without a release. `Settled` is why the release is the
booking: an order has the price and quantity it was asked with, is filled whole or
not at all, and has one fill, so `Waiting` is all of it or nothing. A crash leaves
nothing held, and the restore's fold books the sum over the orders it seats
(`RebookedHolds`). At rest nothing waits and no call answers for an order, so what
is held is what is live.

### StrategyControl_proofs

| theorem | of | argument |
|---|---|---|
| `ControlTypeCorrect` | `Spec => []TypeOK` | inductive; the shapes every step is made of (`ChangeKeeps`, `LeaveKeeps`, `GotoKeeps`, `TakeAlongKeeps`) keep calls well typed |
| `PauseAlwaysStops`, `ConfigurationAlwaysFresh` | `PauseStopsNewIntents`, `FreshConfigurationUsed` | `TurnInv`: a turn that began calm still finds the strategy not running, and a turn's first revision is not newer than the snapshot's, so `Decide`, which reads both from one clone, cannot issue, or issues with a newer one |
| `OneShotAlwaysBuysOnce` | `OneShotBuysOnce` | `OnceInv`: this life has bought only if the host has sent, and the host forgets `sent` only with a crash |
| `RevisionAlwaysNames` | `RevisionNamesConfiguration` | `NamesInv`: no configuration of this life is newer than the snapshot, so the next revision is unused; every clone is of the snapshot, and the host takes revision and parameters from one clone |

Most steps neither change the snapshot nor issue an intent. They are `Quiet`
(`QuietSteps`), and each invariant is shown to survive a quiet step once;
`StepCases` leaves seven others.

### RateLimiter_proofs and LockOrder_proofs

| theorem | of | argument |
|---|---|---|
| `LimiterTypeCorrect` | `Spec => []TypeOK` | inductive; a pruned queue is an end of the queue |
| `RateAlwaysBounded`, `RefusalsAlwaysDue` | `RateBounded`, `RefusedOnlyWhenFull` | the queue is an end of the history of grants, every grant's time is within `Late` and `Early` of the true one, and of two grants, the earlier one out of the queue, the later one was more than a window away |
| `LockTypeCorrect` | `Spec => []TypeOK` | inductive; `HeldStep` says what a step of a section adds to or takes from what it holds, and `CallSections` that every call is made of `Sections` |
| `NeverCircular` | `NoCircularWait` | every section takes mutexes in the order of `Rank` (`SectionsRanked`), so in a set of threads that wait for each other ranks would grow for ever; there are four |

Times in the limiter's queue are not sorted: a late time keeps its place behind a
newer one. The invariant therefore speaks of the true times, which are, and the
error appears once in each bound.

### FoldTheorems

The sums of the community modules are folds, and the library's induction theorems
cannot be instantiated. `LeastElement` is the well-ordering of the naturals, from
a library theorem on finite sets; `InductiveSet` and `MinimalSubset` are induction
over a set of numbers and over the subsets of a finite set, refuted by a least
counterexample. With them a recursive definition on finite sets exists and is
unique (`RecursionDefined`, `SumComputed`), and sums change as sums do
(`SumChange`, `SumExtend`, `SumAppend`, `SumSplit`, `SumMonotone`).
`FoldStays` is the rule of invariants for a fold over a sequence: match_resting's
turns, and the bookings of a restore, are shown well behaved by it.

### What stays model-checked

- Liveness: `CrossedOrderExecutes`, `FillsCollected` and
  `ExecutionEventuallyStored` need fairness, which is out of the prover's reach.
- What the two violated runs refute.

## 7. Not modelled, and the plan

Every invariant and action property of the runs is proved, under the hypotheses
section 6 names. What may be proved further is the same with fewer of them.

Modelled in part: of the runtime, engine calls are single steps and ids are
fresh; of the store, only the tables something reads back at a start.

Not modelled: the event bus (its one subscriber in the services never reads it,
so nothing depends on what it drops), `backoff_ms` (a pure function nothing
calls), the exchange adapters (their methods return errors), the
dashboard and the reporting queries (no state of their own), HTTP and SQL as
such, rounding to a tick (one pure function), and contract positions and
funding (nothing in the services feeds them).
