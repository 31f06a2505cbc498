---------------------------- MODULE MCRiskEngine ----------------------------
(***************************************************************************)
(* Finite instances of RiskEngine: two strategies that share one account,  *)
(* so that a strategy cap and an account cap bind at different times.      *)
(***************************************************************************)
EXTENDS RiskEngine, TLC

Intent(s, side, price, quantity) ==
  [ strategy |-> s, account |-> "acc", side |-> side, price |-> price,
    quantity |-> quantity, valid |-> TRUE ]

\* Caps that two or three orders reach, exactly or by one; two approvals in
\* any window, three rejections in a row; and every other rule, with room for
\* the intents that obey it.
MCLimits ==
  [ max_daily_loss |-> 4, max_drawdown |-> 50,
    min_notional |-> 1, max_order_notional |-> 4,
    max_strategy_notional |-> 5, max_account_notional |-> 7,
    max_net_exposure |-> 6, max_active_orders |-> 2,
    max_order_rate |-> 2, max_market_age |-> 1,
    max_price_deviation |-> 50, consecutive_reject_limit |-> 3,
    pause_on_disconnect |-> TRUE ]

\* Limit and market orders of both strategies, and one the filters refuse.
MCIntents ==
  { Intent("s1", "buy", 2, 1), Intent("s2", "sell", 0, 1),
    Intent("s2", "buy", 2, 2),
    [Intent("s1", "buy", 2, 1) EXCEPT !.valid = FALSE] }

\* A fresh price, and a stale one after a fall that the drawdown rule notices.
MCFacts ==
  { [ref |-> 3, age |-> 0, equity |-> 10, base |-> 0],
    [ref |-> 2, age |-> 2, equity |-> 4, base |-> 2] }

\* Two stored orders of s1 take it past its own cap, three past the account's.
MCStored == { [strategy |-> "s1", account |-> "acc", notional |-> 3] }

MCLosses == { [equity |-> 10, daily |-> 0], [equity |-> 6, daily |-> -5] }

MCIdSymmetry == Permutations(OrderIds)

=============================================================================
