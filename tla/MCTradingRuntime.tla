-------------------------- MODULE MCTradingRuntime --------------------------
(***************************************************************************)
(* Finite instances of TradingRuntime.  The limits are those main.rs sets,  *)
(* in the units of the model.                                              *)
(***************************************************************************)
EXTENDS TradingRuntime, TLC

Req(side, type, tif, price, quantity) ==
  [ side |-> side, type |-> type, tif |-> tif, price |-> price,
    quantity |-> quantity, status |-> "risk_approved", filled |-> 0 ]

Top(bid, bid_qty, ask, ask_qty) ==
  [bid |-> bid, bid_qty |-> bid_qty, ask |-> ask, ask_qty |-> ask_qty]

\* RiskLimitConfig::default with max_order_notional, as in main.rs.
MCLimits ==
  [ max_daily_loss |-> NoLimit, max_drawdown |-> NoLimit,
    min_notional |-> NoLimit, max_order_notional |-> 20,
    max_strategy_notional |-> NoLimit, max_account_notional |-> NoLimit,
    max_net_exposure |-> NoLimit, max_active_orders |-> NoLimit,
    max_order_rate |-> NoLimit, max_market_age |-> 5,
    max_price_deviation |-> NoLimit, consecutive_reject_limit |-> 5,
    pause_on_disconnect |-> TRUE ]

MCTicks == { Top(4, 2, 6, 2), Top(3, 1, 5, 1) }

\* A book that is out of reach of a bid of 5, and one that improves on it.
MCImproving == { Top(4, 2, 6, 2), Top(2, 1, 4, 1) }

\* Every way an order ends without resting, and an offer that finds a buyer or
\* not, and the base asset or not.
MCMixed ==
  "o1" :> Req("buy",  "limit",     "gtc", 5, 2) @@
  "o2" :> Req("sell", "limit",     "ioc", 3, 1) @@
  "o3" :> Req("buy",  "post_only", "gtc", 5, 1)

\* A bid the opening balance may pay half of.
MCLimitBuy == "o1" :> Req("buy", "limit", "gtc", 5, 2)

=============================================================================
