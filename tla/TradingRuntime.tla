--------------------------- MODULE TradingRuntime ---------------------------
(***************************************************************************)
(* The runtime of services/tuxd: execute_intent, the feed's tick, and the  *)
(* draining of fills, as threads that share the paper engine, the order    *)
(* manager, the risk engine, the portfolio and the SQLite store, each      *)
(* behind a mutex of its own.  No mutex spans a whole call, so calls       *)
(* interleave between the steps below, and a crash may stop them between   *)
(* any two; only the store survives it, and restore_from_store rebuilds    *)
(* the rest.  A write to the store may fail, and the call ends there.      *)
(*                                                                         *)
(* The paper engine's calls are single steps here (PaperEngine takes them  *)
(* apart).  One account, strategy and instrument: validate_scope refuses   *)
(* any other.                                                              *)
(***************************************************************************)
EXTENDS PaperMatching, RiskRules, SpotPortfolio

CONSTANTS Threads, OrderIds,
          Request,     \* order id -> the intent that creates it
          Ticks,       \* tops the feed may deliver
          SeedQuote,   \* opening quote balance of an empty store
          MaxCrashes,  \* bound on the number of crashes
          MaxFaults,   \* bound on the number of writes that fail
          EarlyCalls   \* the service: calls run while orders are restored

ASSUME RuntimeAssumption ==
  /\ IsFiniteSet(Threads) /\ IsFiniteSet(OrderIds)
  /\ Strategies = {"oneshot"} /\ Accounts = {"paper_acc"}
  /\ Ticks \subseteq Tops
  /\ SeedQuote \in Nat /\ MaxCrashes \in Nat /\ MaxFaults \in Nat /\ EarlyCalls \in BOOLEAN
  /\ Request \in [OrderIds ->
       [ side : Sides, type : OrderTypes, tif : TimesInForce, price : Nat,
         quantity : Nat \ {0}, status : {"risk_approved"}, filled : {0} ]]

VARIABLES
  venue,    \* PaperEngine orders: order id -> order
  book,     \* PaperEngine book
  pending,  \* PaperEngine pending_fills
  market,   \* MarketState top, which prices risk checks
  oms,      \* Oms.orders: order id -> order
  risk,     \* RiskEngine
  cash,     \* Portfolio: free balances and fees
  db,       \* the store: orders, fills, and balances by asset
  pc,       \* thread -> the step its call stands at
  job,      \* thread -> the locals of its call
  boot,     \* where restore_from_store stands
  crashes,  \* number of crashes so far
  faults,   \* number of writes that have failed in this life
  gone,     \* history of this life: fills an error made a call drop
  used      \* ids of intents that were ever submitted

vars == << venue, book, pending, market, oms, risk, cash, db, pc, job, boot,
           crashes, faults, gone, used >>

engine == << venue, book, pending >>
limbs  == << pc, job >>
errors == << faults, gone >>
meta   == << boot, crashes, errors, used >>

NoOrders == [x \in {} |-> 0]
NoJob == [kind |-> "none"]

Put(map, id, o) == [x \in DOMAIN map \cup {id} |-> IF x = id THEN o ELSE map[x]]

\* The rows written over a map.
Over(rows, map) ==
  [x \in DOMAIN rows \cup DOMAIN map |-> IF x \in DOMAIN rows THEN rows[x] ELSE map[x]]

Ready(t) == pc[t] = "idle" /\ (boot.step = "done" \/ EarlyCalls)

Goto(t, step) == pc' = [pc EXCEPT ![t] = step]

RefPrice == (market.bid + market.ask) \div 2

\* What the check is given: the market as the call has read it before, the
\* portfolio as it is now.
MarketOf(call) ==
  [ ref |-> call.ref, age |-> call.age,
    equity |-> Equity(cash, RefPrice), base |-> cash.base ]

IntentOf(id) ==
  [ strategy |-> "oneshot", account |-> "paper_acc", side |-> Request[id].side,
    price |-> Request[id].price, quantity |-> Request[id].quantity,
    valid |-> TRUE ]

Release(r, notional) == AfterTerminal(r, "oneshot", "paper_acc", notional)

\* Order::notional
OrderNotional(o, ref) == (IF o.price # NoPrice THEN o.price ELSE ref) * o.quantity

-----------------------------------------------------------------------------

IdleThreads == [t \in Threads |-> "idle"]
NoJobs      == [t \in Threads |-> NoJob]
AtBoot      == [step |-> "seed", loaded |-> NoOrders]
NoneGone    == [lost |-> << >>, unsaved |-> << >>]

Init ==
  /\ venue = NoOrders /\ book = NoTop /\ pending = << >> /\ market = NoTop
  /\ oms = NoOrders /\ risk = FreshRisk /\ cash = NoPortfolio
  /\ pc = IdleThreads /\ job = NoJobs /\ boot = AtBoot
  /\ db = [orders |-> NoOrders, fills |-> << >>, balances |-> << >>]
  /\ crashes = 0 /\ faults = 0 /\ gone = NoneGone
  /\ used = {}

WithBalances(rows) == [db EXCEPT !.balances = Over(rows, @)]

\* save_balances writes a row at a time; every other save is one statement.
PartlyWritten(t) ==
  IF pc[t] # "persist" THEN {db}
  ELSE { WithBalances(Restrict(job[t].copy, assets)) :
           assets \in SUBSET DOMAIN job[t].copy }

\* The process dies between two steps and starts again with what is stored.
Crash ==
  /\ crashes < MaxCrashes
  /\ \E t \in Threads : db' \in PartlyWritten(t)
  /\ crashes' = crashes + 1
  /\ venue' = NoOrders /\ book' = NoTop /\ pending' = << >> /\ market' = NoTop
  /\ oms' = NoOrders /\ risk' = FreshRisk /\ cash' = NoPortfolio
  /\ pc' = IdleThreads /\ job' = NoJobs /\ boot' = AtBoot
  /\ faults' = 0 /\ gone' = NoneGone
  /\ UNCHANGED used

-----------------------------------------------------------------------------
(* restore_from_store *)

BootSeed ==
  /\ boot.step = "seed"
  /\ cash' = IF db.balances = << >>
               THEN [cash EXCEPT !.quote = SeedQuote]
               ELSE Over(db.balances, cash)
  /\ boot' = [boot EXCEPT !.step = "load"]
  /\ UNCHANGED << engine, market, oms, risk, db, limbs, crashes, errors, used >>

Open(orders) ==
  { id \in DOMAIN orders :
      orders[id].status \in { "submitted", "acknowledged", "partially_filled",
                              "cancel_pending", "unknown", "risk_approved" } }

BootLoad ==
  /\ boot.step = "load"
  /\ boot' = [ step |-> "restore",
               loaded |-> [id \in Open(db.orders) |-> db.orders[id]] ]
  /\ UNCHANGED << engine, market, oms, risk, cash, db, limbs, crashes, errors, used >>

\* The loop runs with the order manager and the risk engine locked.
BootRestore ==
  LET loaded == boot.loaded
      active == { id \in DOMAIN loaded : IsActive(loaded[id].status) }
      rebook(r, id) ==
        AfterRestored(r, "oneshot", "paper_acc",
                      OrderNotional(loaded[id], RefPrice))
  IN /\ boot.step = "restore"
     /\ venue' = Over(Restrict(loaded, active), venue)
     /\ oms' = Over(loaded, oms)
     /\ risk' = FoldLeft(rebook, risk, SetToSeq(active))
     /\ boot' = [step |-> "done", loaded |-> NoOrders]
     /\ UNCHANGED << book, pending, market, cash, db, limbs, crashes, errors, used >>

-----------------------------------------------------------------------------
(* execute_intent *)

\* The demo loop executes the intents of its strategy in the turn of a tick,
\* after the tick's fills and before it persists.
TickDone(t) == pc[t] = "copy" /\ job[t].kind = "tick"

\* update_pnl_facts, with what the portfolio says now.
Informed(r) == AfterFacts(r, Equity(cash, RefPrice), NetPnl(cash))

\* The reference price and its age, as the risk check will see them.
ReadMarket(t, id) ==
  /\ Ready(t) \/ TickDone(t)
  /\ id \notin used
  /\ used' = used \cup {id}
  /\ job' = [job EXCEPT ![t] =
       [ kind |-> IF TickDone(t) THEN "turn" ELSE "intent", id |-> id,
         ref |-> RefPrice, age |-> IF market = NoTop THEN NoAge ELSE 0 ]]
  /\ Goto(t, "check")
  /\ UNCHANGED << engine, market, oms, risk, cash, db, boot, crashes, errors >>

\* The caller's part after an order: the demo loop persists whatever became of
\* the intent, and the dashboard when it was placed.
AfterRefusal(t) ==
  IF job[t].kind = "turn" THEN Goto(t, "copy") ELSE Goto(t, "idle")

\* The risk check books the intent; the order manager creates the order.
Submit(t) ==
  LET asked == IntentOf(job[t].id)
      facts == MarketOf(job[t])
  IN /\ pc[t] = "check"
     /\ risk' = AfterCheck(Informed(risk), asked, facts, 0)
     /\ IF Approves(Informed(risk), asked, facts, 0)
          THEN /\ oms' = Put(oms, job[t].id, Request[job[t].id])
               /\ job' = [job EXCEPT ![t] =
                    [ kind |-> @.kind, id |-> @.id,
                      notional |-> Notional(asked, facts) ]]
               /\ Goto(t, "place")
          ELSE /\ job' = [job EXCEPT ![t] = NoJob]
               /\ AfterRefusal(t)
               /\ UNCHANGED oms
     /\ UNCHANGED << engine, market, cash, db, meta >>

\* place_order, without the interleavings PaperEngine shows.
Placed(id, top) ==
  LET o     == [Request[id] EXCEPT !.status = "submitted"]
      qty   == TakeQty(o, top)
      after == IF qty > 0 THEN AfterFill(o, qty) ELSE o
  IN CASE o.type = "stop" ->
            [order |-> [o EXCEPT !.status = "rejected"], fills |-> << >>]
       [] o.type # "stop" /\ ReturnsEarly(o, top) ->
            [order |-> [o EXCEPT !.status = EarlyStatus(o, top)], fills |-> << >>]
       [] OTHER ->
            [ order |-> [after EXCEPT !.status = PlacedStatus(after)],
              fills |-> IF qty > 0
                          THEN << FillOf(id, o, ExecPrice(o, top), qty, FALSE) >>
                          ELSE << >> ]

Place(t) ==
  /\ pc[t] = "place"
  /\ LET result == Placed(job[t].id, book)
     IN /\ venue' = Put(venue, job[t].id, result.order)
        /\ pending' = pending \o result.fills
        /\ job' = [job EXCEPT ![t] =
             [ kind |-> @.kind, id |-> @.id, notional |-> @.notional,
               placed |-> result.order ]]
  /\ Goto(t, "upsert")
  /\ UNCHANGED << book, market, oms, risk, cash, db, meta >>

UpsertPlaced(t) ==
  /\ pc[t] = "upsert"
  /\ oms' = Put(oms, job[t].id, job[t].placed)
  /\ Goto(t, "save")
  /\ UNCHANGED << engine, market, risk, cash, db, job, meta >>

SavePlaced(t) ==
  /\ pc[t] = "save"
  /\ db' = [db EXCEPT !.orders = Put(@, job[t].id, job[t].placed)]
  /\ Goto(t, "drain")
  /\ UNCHANGED << engine, market, oms, risk, cash, job, meta >>

\* An order that ended without a fill will never be reported by one.
Finish(t) ==
  /\ pc[t] = "finish"
  /\ LET o == job[t].placed
     IN risk' = IF IsTerminal(o.status) /\ o.filled = 0
                  THEN Release(risk, job[t].notional) ELSE risk
  /\ Goto(t, "copy")
  /\ UNCHANGED << engine, market, oms, cash, db, job, meta >>

-----------------------------------------------------------------------------
(* A tick of the feed: the sampler's, or the demo loop's. *)

TickMarket(t, top) ==
  /\ Ready(t)
  /\ market' = top
  /\ job' = [job EXCEPT ![t] = [kind |-> "tick", top |-> top]]
  /\ Goto(t, "match")
  /\ UNCHANGED << engine, oms, risk, cash, db, meta >>

\* One turn of the loop of match_resting: s is what the turns before have made.
MatchTurn(s, id, top) ==
  LET o   == s.orders[id]
      qty == MatchQty(o, top, s.left)
  IN IF qty = 0 THEN s
     ELSE [ orders |-> [s.orders EXCEPT ![id] = AfterFill(o, qty)],
            left   |-> LeftAfter(s.left, o.side, qty),
            fills  |-> Append(s.fills,
                         FillOf(id, o, ExecPrice(o, top), qty, TRUE)) ]

\* match_resting over the resting orders in the order `ids'.
Matched(top, ids) ==
  FoldLeft(LAMBDA s, id : MatchTurn(s, id, top),
           [orders |-> venue, left |-> Displayed(top), fills |-> << >>], ids)

TickEngine(t) ==
  /\ pc[t] = "match"
  /\ book' = job[t].top
  /\ \E ids \in SetToSeqs({ id \in DOMAIN venue : Rests(venue[id]) }) :
       LET result == Matched(job[t].top, ids)
       IN /\ venue' = result.orders
          /\ pending' = pending \o result.fills
  /\ Goto(t, "drain")
  /\ UNCHANGED << market, oms, risk, cash, db, job, meta >>

\* A turn of the demo loop without a price only persists.
MissedTick(t) ==
  /\ Ready(t)
  /\ Goto(t, "copy")
  /\ UNCHANGED << engine, market, oms, risk, cash, db, job, meta >>

-----------------------------------------------------------------------------
(* drain_fills and apply_fill *)

\* Mutation: a tick does not persist what it changed.
AfterDrain_TickEnds(t) == IF job[t].kind = "tick" THEN "idle" ELSE "finish"

AfterDrain(t) == IF job[t].kind = "tick" THEN "copy" ELSE "finish"

\* Mutation: a lone fill is taken and not applied.
TakeFills_DropsLone(t) ==
  /\ pc[t] = "drain"
  /\ pending' = << >>
  /\ job' = [job EXCEPT ![t] = Put(@, "todo", pending)]
  /\ Goto(t, IF Len(pending) <= 1 THEN AfterDrain(t) ELSE "apply")
  /\ UNCHANGED << venue, book, market, oms, risk, cash, db, meta >>

\* Hands the call the fills of every order, not only its own.
TakeFills(t) ==
  /\ pc[t] = "drain"
  /\ pending' = << >>
  /\ job' = [job EXCEPT ![t] = Put(@, "todo", pending)]
  /\ Goto(t, IF pending = << >> THEN AfterDrain(t) ELSE "apply")
  /\ UNCHANGED << venue, book, market, oms, risk, cash, db, meta >>

TheFill(t) == Head(job[t].todo)

\* An error ends the drain.  The sampler's tick goes on to persist (the demo's
\* ends the process: see Crash), and so does the demo's turn after an intent.
GiveUp(t) ==
  /\ job' = [job EXCEPT ![t] = NoJob]
  /\ Goto(t, IF job[t].kind = "intent" THEN "idle" ELSE "copy")

\* Mutation: a refused fill is stored all the same.
ApplyToPortfolio_StoresRefused(t) ==
  /\ pc[t] = "apply"
  /\ cash' = IF Affordable(cash, TheFill(t)) THEN AfterSpotFill(cash, TheFill(t))
                                             ELSE cash
  /\ Goto(t, "save_fill")
  /\ UNCHANGED << engine, market, oms, risk, db, job, meta >>

\* The portfolio takes the fill, or refuses it: then the call fails and the
\* fills it has taken and not applied are gone.
ApplyToPortfolio(t) ==
  /\ pc[t] = "apply"
  /\ IF Affordable(cash, TheFill(t))
       THEN /\ cash' = AfterSpotFill(cash, TheFill(t))
            /\ Goto(t, "save_fill")
            /\ UNCHANGED << job, gone >>
       ELSE /\ gone' = [gone EXCEPT !.lost = @ \o job[t].todo]
            /\ GiveUp(t)
            /\ UNCHANGED cash
  /\ UNCHANGED << engine, market, oms, risk, db, boot, crashes, faults, used >>

SaveFill(t) ==
  /\ pc[t] = "save_fill"
  /\ db' = [db EXCEPT !.fills = Append(@, TheFill(t))]
  /\ Goto(t, "query")
  /\ UNCHANGED << engine, market, oms, risk, cash, job, meta >>

\* A fill of an order the engine does not know updates nothing.
QueryOrder(t) ==
  /\ pc[t] = "query"
  /\ IF TheFill(t).order \in DOMAIN venue
       THEN /\ job' = [job EXCEPT ![t] = Put(@, "seen", venue[TheFill(t).order])]
            /\ Goto(t, "reflect")
       ELSE UNCHANGED job /\ Goto(t, "next")
  /\ UNCHANGED << engine, market, oms, risk, cash, db, meta >>

\* Mutation: the order manager is not told of a fill.
ReflectInOms_Skipped(t) ==
  /\ pc[t] = "reflect"
  /\ Goto(t, "release")
  /\ UNCHANGED << engine, market, oms, risk, cash, db, job, meta >>

ReflectInOms(t) ==
  /\ pc[t] = "reflect"
  /\ oms' = Put(oms, TheFill(t).order, job[t].seen)
  /\ Goto(t, "release")
  /\ UNCHANGED << engine, market, risk, cash, db, job, meta >>

\* Mutation: the booking is released by the value of the fill.
ReleaseFilled_ByFill(t) ==
  /\ pc[t] = "release"
  /\ risk' = IF IsTerminal(job[t].seen.status)
               THEN Release(risk, TheFill(t).price * TheFill(t).quantity)
               ELSE risk
  /\ Goto(t, "save_seen")
  /\ UNCHANGED << engine, market, oms, cash, db, job, meta >>

\* A market order has no price: its booking is released at the fill's price.
ReleaseFilled(t) ==
  /\ pc[t] = "release"
  /\ risk' = IF IsTerminal(job[t].seen.status)
               THEN Release(risk, OrderNotional(job[t].seen, TheFill(t).price))
               ELSE risk
  /\ Goto(t, "save_seen")
  /\ UNCHANGED << engine, market, oms, cash, db, job, meta >>

SaveSeen(t) ==
  /\ pc[t] = "save_seen"
  /\ db' = [db EXCEPT !.orders = Put(@, TheFill(t).order, job[t].seen)]
  /\ Goto(t, "next")
  /\ UNCHANGED << engine, market, oms, risk, cash, job, meta >>

\* Mutation: a call applies the first fill it has taken and forgets the rest.
NextFill_DropsRest(t) ==
  /\ pc[t] = "next"
  /\ job' = [job EXCEPT ![t].todo = << >>]
  /\ Goto(t, AfterDrain(t))
  /\ UNCHANGED << engine, market, oms, risk, cash, db, meta >>

NextFill(t) ==
  /\ pc[t] = "next"
  /\ job' = [job EXCEPT ![t].todo = Tail(@)]
  /\ Goto(t, IF Len(job[t].todo) > 1 THEN "apply" ELSE AfterDrain(t))
  /\ UNCHANGED << engine, market, oms, risk, cash, db, meta >>

-----------------------------------------------------------------------------
(* persist_equity *)

\* The rows of the portfolio: those that were stored, or the quote's where none
\* was, and both from the first fill on, which its fee tells.  No row ever goes.
Rows ==
  { x \in { "quote", "base" } :
      \/ boot.step # "seed" /\ x \in DOMAIN db.balances
      \/ boot.step # "seed" /\ db.balances = << >> /\ x = "quote"
      \/ cash[x] # 0
      \/ cash.fees > 0 }

CopyBalances(t) ==
  /\ pc[t] = "copy"
  /\ job' = [job EXCEPT ![t] = [kind |-> "persist", copy |-> Restrict(cash, Rows)]]
  /\ risk' = Informed(risk)
  /\ Goto(t, "persist")
  /\ UNCHANGED << engine, market, oms, cash, db, meta >>

SaveBalances(t) ==
  /\ pc[t] = "persist"
  /\ db' = WithBalances(job[t].copy)
  /\ job' = [job EXCEPT ![t] = NoJob]
  /\ Goto(t, "idle")
  /\ UNCHANGED << engine, market, oms, risk, cash, meta >>

-----------------------------------------------------------------------------
(* Errors of the store *)

\* Fills a call has taken and not yet stored.
Unstored(t) ==
  CASE pc[t] \in { "apply", "save_fill" } -> job[t].todo
    [] pc[t] \in { "query", "reflect", "release", "save_seen", "next" } ->
         Tail(job[t].todo)
    [] OTHER -> << >>

\* A write fails: of the ledger or of the fill it stands for, of an order, of the
\* strategy's snapshot after a fill or an order, of equity or balances.  What the
\* call has changed so far stays, what it still had to do is left undone.
StoreFails(t) ==
  /\ faults < MaxFaults
  /\ faults' = faults + 1
  /\ \/ /\ pc[t] = "persist"
        /\ db' \in PartlyWritten(t)
        /\ job' = [job EXCEPT ![t] = NoJob]
        /\ Goto(t, "idle")
        /\ UNCHANGED gone
     \/ /\ pc[t] \in { "save", "save_fill", "save_seen", "next" }
        /\ gone' =
             IF pc[t] = "save_fill"
               THEN [ lost    |-> gone.lost \o Tail(job[t].todo),
                      unsaved |-> Append(gone.unsaved, TheFill(t)) ]
               ELSE [gone EXCEPT !.lost = @ \o Unstored(t)]
        /\ GiveUp(t)
        /\ UNCHANGED db
     \/ /\ pc[t] = "copy" /\ job[t].kind = "intent"
        /\ GiveUp(t)
        /\ UNCHANGED << db, gone >>
  /\ UNCHANGED << engine, market, oms, risk, cash, boot, crashes, used >>

-----------------------------------------------------------------------------

Continue(t) ==
  \/ Submit(t)        \/ Place(t)
  \/ UpsertPlaced(t)  \/ SavePlaced(t)       \/ Finish(t)
  \/ TickEngine(t)    \/ TakeFills(t)        \/ ApplyToPortfolio(t)
  \/ SaveFill(t)      \/ QueryOrder(t)       \/ ReflectInOms(t)
  \/ ReleaseFilled(t) \/ SaveSeen(t)         \/ NextFill(t)
  \/ CopyBalances(t)  \/ SaveBalances(t)

Boot == BootSeed \/ BootLoad \/ BootRestore

Next ==
  \/ Crash
  \/ Boot
  \/ \E t \in Threads :
       \/ Continue(t)
       \/ StoreFails(t)
       \/ \E id \in OrderIds : ReadMarket(t, id)
       \/ \E top \in Ticks : TickMarket(t, top)
       \/ MissedTick(t)

Spec == Init /\ [][Next]_vars

\* A call that has started runs to its end, and so does the restore; the feed's
\* timer delivers a price again and again.
Fairness ==
  /\ WF_vars(Boot)
  /\ \A t \in Threads : WF_vars(Continue(t))
  /\ SF_vars(\E t \in Threads, top \in Ticks : TickMarket(t, top))

FairSpec == Spec /\ Fairness

-----------------------------------------------------------------------------
(* Properties *)

OrderRecords ==
  { o \in [ side : Sides, type : OrderTypes, tif : TimesInForce, price : Nat,
            quantity : Nat \ {0}, status : OrderStatuses, filled : Nat ] :
      StatusAgreesWithFills(o.status, o.filled, o.quantity) }

Books(map) == DOMAIN map \subseteq OrderIds /\ map \in [DOMAIN map -> OrderRecords]

\* Every copy of an order, in the engine, the order manager, the store and a
\* restore, agrees with itself, and every other variable has its type.
TypeOK ==
  /\ Books(venue) /\ Books(oms) /\ Books(db.orders) /\ Books(boot.loaded)
  /\ book \in Tops /\ market \in Tops
  /\ cash \in Portfolios
  /\ DOMAIN db.balances \subseteq { "quote", "base" }
  /\ db.balances \in [DOMAIN db.balances -> Int]
  /\ risk.by_account["paper_acc"] \in Int /\ risk.active["oneshot"] \in Nat
  /\ pc \in [Threads -> { "idle", "check", "place", "upsert", "save", "finish", "match",
                          "drain", "apply", "save_fill", "query", "reflect",
                          "release", "save_seen", "next", "copy", "persist" }]
  /\ boot.step \in { "seed", "load", "restore", "done" }
  /\ crashes \in 0..MaxCrashes /\ faults \in 0..MaxFaults
  /\ used \subseteq OrderIds

FilledBy(fills, id) ==
  SumFunction([n \in DOMAIN fills |->
                 IF fills[n].order = id THEN fills[n].quantity ELSE 0])

\* No call of this life has failed but for a refusal of the risk engine.
NoError == faults = 0 /\ gone = NoneGone

Quiet ==
  /\ boot.step = "done"
  /\ pending = << >>
  /\ \A t \in Threads : pc[t] = "idle"

\* What has become of the fills of an order once its venue has handed them out.
Accounted(id) ==
  FilledBy(db.fills, id) + FilledBy(gone.lost, id) + FilledBy(gone.unsaved, id)

\* No fill is lost or stored twice between the engine and the store, whichever
\* thread happens to drain it: what an order has executed is what is stored,
\* plus what waits in the engine, what draining calls still hold, and what an
\* error made them drop.  (No crash.)
FillsReachTheStore ==
  \A id \in DOMAIN venue :
    venue[id].filled =
      Accounted(id) + FilledBy(pending, id)
        + SumFunction([t \in Threads |-> FilledBy(Unstored(t), id)])

\* "Fails if free balance would go negative": the free balances never do, for
\* whatever orders the risk engine lets through.
BalancesNonNegative == cash.quote >= 0 /\ cash.base >= 0

Opening == [NoPortfolio EXCEPT !.quote = SeedQuote]

\* When nothing is in progress the portfolio is what the stored fills make of
\* the opening balances: no fill moved money twice, none was stored unpaid, and
\* money without a stored fill moved only where storing it failed.  (No crash.)
PortfolioMatchesFills ==
  Quiet => cash = AfterSpotFills(Opening, db.fills \o gone.unsaved)

\* The saved balances are what the stored fills make of the opening ones once
\* every call has ended.  (One thread; a crash or an error may lose the last
\* balances.)
StoredBalancesCurrent ==
  Quiet /\ db.balances # << >> /\ crashes = 0 /\ NoError =>
    Over(db.balances, NoBalances) = BalancesOf(AfterSpotFills(Opening, db.fills))

\* When nothing is in progress the order manager and the store hold the order
\* as the engine does.  (One thread.)
CopiesAgree ==
  Quiet /\ NoError =>
    \A id \in DOMAIN venue :
      /\ oms[id] = venue[id]
      /\ id \in DOMAIN db.orders /\ db.orders[id] = venue[id]

LiveOrders == { id \in DOMAIN venue : ~ IsTerminal(venue[id].status) }

LiveNotional ==
  SumFunctionOnSet([id \in DOMAIN venue |-> OrderNotional(venue[id], 0)], LiveOrders)

LiveCount == Cardinality(LiveOrders)

\* "Active (non-terminal) order notionals by strategy / account": when nothing
\* is in progress the risk engine has booked the orders that are live in the
\* engine, through fills, rejections, crashes and restores.  After an error it
\* may keep bookings of orders that have ended, and still misses none
\* that is live.  (One thread.)
BookingsMatchLiveOrders ==
  Quiet =>
    /\ risk.by_account["paper_acc"] >= LiveNotional
    /\ risk.active["oneshot"] >= LiveCount
    /\ NoError => /\ risk.by_account["paper_acc"] = LiveNotional
                  /\ risk.active["oneshot"] = LiveCount

\* Nothing is executed beyond the ordered quantity, over all the lives of the
\* process.
ExecutedAtMostOnce ==
  \A id \in OrderIds : FilledBy(db.fills, id) <= Request[id].quantity

Stored == INSTANCE OrderLifecycle WITH
            Quantities <- { Request[id].quantity : id \in OrderIds },
            life <- [id \in DOMAIN db.orders |->
                       [ status   |-> db.orders[id].status,
                         filled   |-> db.orders[id].filled,
                         quantity |-> db.orders[id].quantity ]]

\* The store tells of every order a history the state machine of domain.rs
\* allows, in both lives of the process: no transition it forbids, no quantity
\* taken back, nothing after a terminal status.  (One thread.)
StoreKeepsLifecycle == Stored!Spec

\* What an order executes is eventually stored as its fills, or dropped by a
\* call that fails: what a failed call has left in the engine is drained by
\* another.
ExecutionEventuallyStored ==
  \A id \in OrderIds :
    (id \in DOMAIN venue /\ venue[id].filled > Accounted(id))
      ~> (id \in DOMAIN venue /\ venue[id].filled = Accounted(id))

=============================================================================
