----------------------------- MODULE RiskEngine -----------------------------
(***************************************************************************)
(* The risk engine of crates/tux-core/src/risk.rs as a process on its own: *)
(* its callers hold the risk mutex for each call, so a call is one step.   *)
(* Its callers' side of the bargain is part of the model: what was booked  *)
(* by an approval or by the restore is reported terminal once, with the    *)
(* notional it was booked with.  TradingRuntime shows where the runtime    *)
(* keeps that bargain and where it does not.                               *)
(*                                                                         *)
(* Nothing else is asked of the callers: intents are checked before,       *)
(* during and after the restore, and what is restored is booked whatever   *)
(* the caps say, an order twice if it was approved in this life already.   *)
(***************************************************************************)
EXTENDS RiskRules, Functions

CONSTANTS OrderIds, Intents, MarketFacts, RestoredBookings,
          LossFacts,   \* pairs of equity and daily profit a caller may report
          MaxTime,     \* bound on the clock
          MaxRejects,  \* bound on rejections in a row
          MaxApprovals \* bound on the number of approvals

VARIABLES
  risk,      \* the RiskEngine value
  now,       \* the wall clock, taken not to step back
  booting,   \* restored orders are still being booked
  live,      \* bookings not yet released: order id and how it came to be
             \* booked -> what it was booked with
  approved,  \* history: the times of all approvals
  released   \* the operator has released the kill switch since the last approval

vars == << risk, now, booting, live, approved, released >>

Keys == OrderIds \X { "approved", "restored" }

Bookings == [strategy : Strategies, account : Accounts, notional : Nat]

ASSUME RiskEngineAssumption ==
  /\ MaxTime \in Nat /\ MaxRejects \in Nat /\ MaxApprovals \in Nat
  /\ RestoredBookings \subseteq Bookings
  /\ Intents \subseteq
       [ strategy : Strategies, account : Accounts, side : { "buy", "sell" },
         price : Nat, quantity : Nat, valid : BOOLEAN ]
  /\ MarketFacts \subseteq
       [ref : Nat, age : Nat \cup {NoAge}, equity : Nat, base : Nat]
  /\ LossFacts \subseteq [equity : Nat, daily : Int]

LiveWith(key, b) ==
  [x \in DOMAIN live \cup {key} |-> IF x = key THEN b ELSE live[x]]

-----------------------------------------------------------------------------

Init ==
  /\ risk = FreshRisk
  /\ now = 0
  /\ booting = TRUE
  /\ live = [x \in {} |-> 0]
  /\ approved = << >>
  /\ released = FALSE

\* Each order of the list is booked, without a look at the limits.
NoteOrderRestored(id, b) ==
  /\ booting
  /\ << id, "restored" >> \notin DOMAIN live
  /\ risk' = AfterRestored(risk, b.strategy, b.account, b.notional)
  /\ live' = LiveWith(<< id, "restored" >>, b)
  /\ UNCHANGED << now, booting, approved, released >>

EndBoot ==
  /\ booting
  /\ booting' = FALSE
  /\ UNCHANGED << risk, now, live, approved, released >>

\* The id of an order is new when its intent is approved.
Approve(id, i, m) ==
  /\ << id, "approved" >> \notin DOMAIN live
  /\ Approves(risk, i, m, now)
  /\ Len(approved) < MaxApprovals
  /\ risk' = AfterCheck(risk, i, m, now)
  /\ live' = LiveWith(<< id, "approved" >>,
                      [ strategy |-> i.strategy, account |-> i.account,
                        notional |-> Notional(i, m) ])
  /\ approved' = Append(approved, now)
  /\ released' = FALSE
  /\ UNCHANGED << now, booting >>

Reject(i, m) ==
  /\ risk.rejects < MaxRejects
  /\ ~ Approves(risk, i, m, now)
  /\ risk' = AfterCheck(risk, i, m, now)
  /\ UNCHANGED << now, booting, live, approved, released >>

NoteOrderTerminal(key) ==
  /\ key \in DOMAIN live
  /\ risk' = AfterTerminal(risk, live[key].strategy, live[key].account,
                           live[key].notional)
  /\ live' = Restrict(live, DOMAIN live \ {key})
  /\ UNCHANGED << now, booting, approved, released >>

UpdatePnlFacts(f) ==
  /\ risk' = AfterFacts(risk, f.equity, f.daily)
  /\ UNCHANGED << now, booting, live, approved, released >>

SetFeedsConnected(c) ==
  /\ risk' = [risk EXCEPT !.connected = c]
  /\ UNCHANGED << now, booting, live, approved, released >>

EngageKillSwitch ==
  /\ risk' = Engaged(risk)
  /\ UNCHANGED << now, booting, live, approved, released >>

ReleaseKillSwitch ==
  /\ risk' = Released(risk)
  /\ released' = TRUE
  /\ UNCHANGED << now, booting, live, approved >>

Elapse ==
  /\ now < MaxTime
  /\ now' = now + 1
  /\ UNCHANGED << risk, booting, live, approved, released >>

Next ==
  \/ EndBoot
  \/ \E id \in OrderIds, b \in RestoredBookings : NoteOrderRestored(id, b)
  \/ \E id \in OrderIds, i \in Intents, m \in MarketFacts : Approve(id, i, m)
  \/ \E i \in Intents, m \in MarketFacts : Reject(i, m)
  \/ \E key \in Keys : NoteOrderTerminal(key)
  \/ \E f \in LossFacts : UpdatePnlFacts(f)
  \/ \E c \in BOOLEAN : SetFeedsConnected(c)
  \/ EngageKillSwitch
  \/ ReleaseKillSwitch
  \/ Elapse

Spec == Init /\ [][Next]_vars

-----------------------------------------------------------------------------
(* Properties *)

RiskStates ==
  [ engaged : BOOLEAN, rejects : Nat, times : Seq(Nat),
    by_strategy : [Strategies -> Int], by_account : [Accounts -> Int],
    active : [Strategies -> Nat], daily_pnl : Int, high_water : Nat,
    connected : BOOLEAN ]

\* The engine's fields have the types of the code's; notionals are signed.
TypeOK ==
  /\ risk \in RiskStates
  /\ now \in 0..MaxTime
  /\ booting \in BOOLEAN
  /\ DOMAIN live \subseteq Keys
  /\ live \in [DOMAIN live -> Bookings]
  /\ approved \in Seq(0..MaxTime)
  /\ released \in BOOLEAN

BookedTo(S) == SumFunctionOnSet([key \in DOMAIN live |-> live[key].notional], S)

\* "Active (non-terminal) order notionals by strategy / account": the maps hold
\* exactly what was booked and not released, and the count counts it.
BookingsExact ==
  /\ \A s \in Strategies :
       LET mine == { key \in DOMAIN live : live[key].strategy = s }
       IN /\ risk.by_strategy[s] = BookedTo(mine)
          /\ risk.active[s] = Cardinality(mine)
  /\ \A a \in Accounts :
       risk.by_account[a] = BookedTo({ key \in DOMAIN live : live[key].account = a })

Approved == { key \in DOMAIN live : key[2] = "approved" }

\* No sequence of approvals, restores and terminal reports lets anyone have more
\* approved than the caps allow, in notional or in number: what a restore books
\* past a cap, before, between or after approvals, makes room for nobody, not
\* even when it is released again.
CapsHold ==
  /\ \A s \in Strategies :
       LET mine == { key \in Approved : live[key].strategy = s }
       IN /\ Within(BookedTo(mine), Limits.max_strategy_notional)
          /\ Within(Cardinality(mine), Limits.max_active_orders)
  /\ \A a \in Accounts :
       Within(BookedTo({ key \in Approved : live[key].account = a }),
              Limits.max_account_notional)

\* In no window of RateWindow time units, its ends included, more intents are
\* approved than the rate limit allows, although the queue forgets old ones:
\* of max_order_rate + 1 approvals in a row, the last is past the window that
\* starts with the first.
RateHolds ==
  Limits.max_order_rate # NoLimit =>
    \A n, k \in DOMAIN approved :
      k = n + Limits.max_order_rate => approved[k] > approved[n] + RateWindow

\* The circuit breaker: after consecutive_reject_limit rejections in a row the
\* switch is engaged, unless the operator has released it since.
BreakerTrips ==
  /\ Limits.consecutive_reject_limit # NoLimit
  /\ risk.rejects >= Limits.consecutive_reject_limit
  /\ risk.rejects > 0
  => risk.engaged \/ released

\* While the kill switch is engaged no intent is approved, and nothing but the
\* operator releases it.
KillSwitchHolds ==
  [][ risk.engaged => /\ \/ risk'.engaged
                         \/ risk' = Released(risk) /\ released'
                      /\ Approved' \subseteq Approved ]_vars

=============================================================================
