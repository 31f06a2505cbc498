----------------------------- MODULE RiskRules -----------------------------
(***************************************************************************)
(* The decisions of crates/tux-core/src/risk.rs as operators on one record *)
(* that stands for the RiskEngine value.  RiskEngine and TradingRuntime    *)
(* make state machines of them.                                            *)
(*                                                                         *)
(* An intent carries `valid' for the checks that look at the intent and    *)
(* the instrument alone (whitelist, tick and lot filters, leverage).       *)
(* Fractions (drawdown, deviation) are percentages.                        *)
(***************************************************************************)
EXTENDS Integers, Sequences, FiniteSets

CONSTANTS Strategies, Accounts,
          Limits,     \* RiskLimitConfig
          RateWindow  \* length of the order-rate window

NoLimit == -1
NoPriceData == 0
NoAge == -1

ASSUME RiskAssumption ==
  /\ RateWindow \in Nat
  /\ Limits \in
       [ max_daily_loss : Nat \cup {NoLimit}, max_drawdown : Nat \cup {NoLimit},
         min_notional : Nat \cup {NoLimit},
         max_order_notional : Nat \cup {NoLimit},
         max_strategy_notional : Nat \cup {NoLimit},
         max_account_notional : Nat \cup {NoLimit},
         max_net_exposure : Nat \cup {NoLimit},
         max_active_orders : Nat \cup {NoLimit},
         max_order_rate : Nat \cup {NoLimit},
         max_market_age : Nat \cup {NoLimit},
         max_price_deviation : Nat \cup {NoLimit},
         consecutive_reject_limit : Nat \cup {NoLimit},
         pause_on_disconnect : BOOLEAN ]

\* RiskEngine::new
FreshRisk ==
  [ engaged |-> FALSE, rejects |-> 0, times |-> << >>,
    by_strategy |-> [s \in Strategies |-> 0],
    by_account |-> [a \in Accounts |-> 0],
    active |-> [s \in Strategies |-> 0],
    daily_pnl |-> 0, high_water |-> 0, connected |-> TRUE ]

Within(value, limit) == limit = NoLimit \/ value <= limit

Magnitude(x) == IF x < 0 THEN -x ELSE x

\* The price a notional is measured with: the limit price, else the market's.
PricedAt(i, m) == IF i.price # NoPriceData THEN i.price ELSE m.ref

Notional(i, m) == PricedAt(i, m) * i.quantity

-----------------------------------------------------------------------------
(* The rules of check_intent, in groups that the code evaluates in order. *)

\* Mutation: the kill switch is not consulted.
TradingEnabled_FeedsOnly(r) == Limits.pause_on_disconnect => r.connected

TradingEnabled(r) ==
  /\ ~ r.engaged
  /\ Limits.pause_on_disconnect => r.connected

LossesTolerable(r, m) ==
  /\ r.daily_pnl < 0 => Within(-r.daily_pnl, Limits.max_daily_loss)
  /\ Limits.max_drawdown # NoLimit /\ r.high_water # 0 =>
       (r.high_water - m.equity) * 100 <= Limits.max_drawdown * r.high_water

OrderSizeAllowed(i, m) ==
  /\ i.valid
  /\ PricedAt(i, m) # NoPriceData
  /\ Notional(i, m) >= Limits.min_notional
  /\ Within(Notional(i, m), Limits.max_order_notional)

\* Mutation: the caps look at what is open, not at what it would become.
CapsAllow_IgnoresNew(r, i, m) ==
  /\ Within(r.by_strategy[i.strategy], Limits.max_strategy_notional)
  /\ Within(r.by_account[i.account], Limits.max_account_notional)

CapsAllow(r, i, m) ==
  /\ Within(r.by_strategy[i.strategy] + Notional(i, m),
            Limits.max_strategy_notional)
  /\ Within(r.by_account[i.account] + Notional(i, m),
            Limits.max_account_notional)

\* The exposure of the account once the order has executed, its holding m.base
\* being marked at the market, or at the order's price without a market.
ProjectedExposure(i, m) ==
  m.base * (IF m.ref # NoPriceData THEN m.ref ELSE i.price)
    + (IF i.side = "buy" THEN Notional(i, m) ELSE -Notional(i, m))

ExposureAllowed(i, m) ==
  Within(Magnitude(ProjectedExposure(i, m)), Limits.max_net_exposure)

ActiveOrdersAllow(r, i) ==
  Limits.max_active_orders = NoLimit
    \/ r.active[i.strategy] < Limits.max_active_orders

\* Mutation: the entry at the edge of the window is dropped.
Pruned_Exclusive(times, now) ==
  LET recent == { n \in DOMAIN times : times[n] > now - RateWindow }
  IN IF recent = {} THEN << >>
     ELSE SubSeq(times, CHOOSE n \in recent : \A k \in recent : n <= k, Len(times))

\* Old entries leave the front of the queue up to the first recent one.
Pruned(times, now) ==
  LET recent == { n \in DOMAIN times : times[n] >= now - RateWindow }
  IN IF recent = {} THEN << >>
     ELSE SubSeq(times, CHOOSE n \in recent : \A k \in recent : n <= k, Len(times))

RateAllows(r, now) ==
  Limits.max_order_rate = NoLimit
    \/ Len(Pruned(r.times, now)) < Limits.max_order_rate

MarketTrusted(i, m) ==
  /\ Limits.max_market_age # NoLimit =>
       m.age # NoAge /\ m.age <= Limits.max_market_age
  /\ Limits.max_price_deviation # NoLimit /\ m.ref # NoPriceData
       /\ i.price # NoPriceData =>
         Magnitude(i.price - m.ref) * 100 <= Limits.max_price_deviation * m.ref

BeforeRateCheck(r, i, m) ==
  /\ TradingEnabled(r)
  /\ LossesTolerable(r, m)
  /\ OrderSizeAllowed(i, m)
  /\ CapsAllow(r, i, m)
  /\ ExposureAllowed(i, m)
  /\ ActiveOrdersAllow(r, i)

Approves(r, i, m, now) ==
  /\ BeforeRateCheck(r, i, m)
  /\ RateAllows(r, now)
  /\ MarketTrusted(i, m)

-----------------------------------------------------------------------------
(* What the calls do to the engine. *)

Booked(r, s, a, notional) ==
  [r EXCEPT !.by_strategy[s] = @ + notional,
            !.by_account[a] = @ + notional,
            !.active[s] = @ + 1]

\* The approved intent is booked and counted against the rate.
AfterApproval(r, i, m, now) ==
  [ Booked(r, i.strategy, i.account, Notional(i, m)) EXCEPT
      !.rejects = 0,
      !.times = Append(IF Limits.max_order_rate = NoLimit
                         THEN r.times ELSE Pruned(r.times, now), now) ]

\* Mutations: the breaker trips one rejection late; rejections count down.
AfterRejection_OneLate(r, i, m, now) ==
  [r EXCEPT !.rejects = @ + 1,
            !.engaged = @ \/ ( /\ Limits.consecutive_reject_limit # NoLimit
                               /\ r.rejects >= Limits.consecutive_reject_limit )]

AfterRejection_CountsDown(r, i, m, now) == [r EXCEPT !.rejects = @ - 1]

\* A rejection counts towards the circuit breaker.  The rate check has pruned
\* its window before it or a later rule rejects.
AfterRejection(r, i, m, now) ==
  [r EXCEPT
    !.rejects = @ + 1,
    !.engaged = @ \/ ( /\ Limits.consecutive_reject_limit # NoLimit
                       /\ r.rejects + 1 >= Limits.consecutive_reject_limit ),
    !.times = IF BeforeRateCheck(r, i, m) /\ Limits.max_order_rate # NoLimit
                THEN Pruned(@, now) ELSE @]

AfterCheck(r, i, m, now) ==
  IF Approves(r, i, m, now) THEN AfterApproval(r, i, m, now)
                            ELSE AfterRejection(r, i, m, now)

\* Mutation: the account's booking is never released.
AfterTerminal_KeepsAccount(r, s, a, notional) ==
  [r EXCEPT !.by_strategy[s] = @ - notional,
            !.active[s] = IF @ = 0 THEN 0 ELSE @ - 1]

\* note_order_terminal: the count saturates at zero, the notionals do not.
AfterTerminal(r, s, a, notional) ==
  [r EXCEPT !.by_strategy[s] = @ - notional,
            !.by_account[a] = @ - notional,
            !.active[s] = IF @ = 0 THEN 0 ELSE @ - 1]

\* note_order_restored
AfterRestored(r, s, a, notional) == Booked(r, s, a, notional)

\* update_pnl_facts
AfterFacts(r, equity, daily) ==
  [r EXCEPT !.daily_pnl = daily,
            !.high_water = IF equity > @ THEN equity ELSE @]

Engaged(r) == [r EXCEPT !.engaged = TRUE]
Released(r) == [r EXCEPT !.engaged = FALSE]

=============================================================================
