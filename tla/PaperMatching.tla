--------------------------- MODULE PaperMatching ---------------------------
(***************************************************************************)
(* The matching arithmetic of crates/tux-core/src/sim.rs: when an order    *)
(* crosses the book, at which price it executes, how much of it a fill     *)
(* model lets through, and what one fill does to an order.                 *)
(*                                                                         *)
(* Prices and quantities are integers in the smallest unit of the          *)
(* instrument; NoPrice (zero) stands for an order without a price and for  *)
(* a side of the book that is empty.  Every constructor of the code's      *)
(* FillModel sets slippage to zero, so it does not appear.                 *)
(***************************************************************************)
EXTENDS Integers, OrderStatus

CONSTANTS FillModel,       \* "immediate", "l1" or "queue"
          QueueQuarters    \* quarters of the displayed size a queue fill gets

ASSUME MatchingAssumption ==
  /\ FillModel \in { "immediate", "l1", "queue" }
  /\ QueueQuarters \in 1..3

Sides      == { "buy", "sell" }
OrderTypes == { "limit", "market", "post_only", "stop" }
TimesInForce == { "gtc", "ioc", "fok" }

NoPrice == 0

\* The top of one book.
Tops == [bid : Nat, bid_qty : Nat, ask : Nat, ask_qty : Nat]

NoTop == [bid |-> NoPrice, bid_qty |-> 0, ask |-> NoPrice, ask_qty |-> 0]

Remaining(o) == o.quantity - o.filled

\* Price and displayed size an order on side sd trades against.
OppositePrice(sd, top) == IF sd = "buy" THEN top.ask ELSE top.bid
OppositeQty(sd, top)   == IF sd = "buy" THEN top.ask_qty ELSE top.bid_qty

\* A priced order crosses the book.
Crosses(o, top) ==
  /\ o.price # NoPrice
  /\ OppositePrice(o.side, top) > NoPrice
  /\ IF o.side = "buy" THEN o.price >= top.ask ELSE o.price <= top.bid

\* An order that crosses executes at the book's price or at its own,
\* whichever is better for it; a market order takes the book's price.
ExecPrice(o, top) ==
  IF \/ o.type = "market"
     \/ IF o.side = "buy" THEN top.ask <= o.price ELSE top.bid >= o.price
    THEN OppositePrice(o.side, top) ELSE o.price

Lesser(a, b) == IF a <= b THEN a ELSE b

ClipQty(remaining, available) ==
  CASE FillModel = "immediate" -> remaining
    [] FillModel = "l1"        -> Lesser(remaining, available)
    [] FillModel = "queue"     -> Lesser(remaining,
                                         (available * QueueQuarters) \div 4)

RespectsLiquidity == FillModel # "immediate"

\* Mutation: the fill-or-kill check forgets the displayed size.
FillableNow_IgnoresDepth(o, top) ==
  IF o.type = "market" \/ Crosses(o, top) THEN Remaining(o) ELSE 0

\* What the fill-or-kill check believes can be filled against the snapshot it
\* was given.  A market order passes the marketable test unconditionally.
FillableNow(o, top) ==
  IF o.type # "stop" /\ (o.type = "market" \/ Crosses(o, top))
    THEN ClipQty(Remaining(o), OppositeQty(o.side, top)) ELSE 0

\* How much of an incoming order executes immediately against the book.
TakeQty(o, top) ==
  CASE o.type = "market" /\ OppositePrice(o.side, top) > NoPrice ->
         ClipQty(Remaining(o), OppositeQty(o.side, top))
    [] o.type = "limit" /\ Crosses(o, top) ->
         ClipQty(Remaining(o), OppositeQty(o.side, top))
    [] OTHER -> 0

\* Mutation: the completing fill is taken for a partial one.
AfterFill_NeverWhole(o, qty) ==
  [o EXCEPT !.filled = o.filled + qty,
            !.status = StatusAfter(o.status,
                         IF o.filled + qty > o.quantity
                           THEN "filled" ELSE "partially_filled")]

\* The order after qty of it executed.
AfterFill(o, qty) ==
  [o EXCEPT !.filled = o.filled + qty,
            !.status = StatusAfter(o.status,
                         IF o.filled + qty >= o.quantity
                           THEN "filled" ELSE "partially_filled")]

FillOf(id, o, price, qty, maker) ==
  [ order |-> id, side |-> o.side, price |-> price, quantity |-> qty,
    is_maker |-> maker ]

-----------------------------------------------------------------------------
(* place_order *)

\* The branches that return without trying to fill: a stop order, a post-only
\* order, a fill-or-kill order the snapshot cannot fill.
ReturnsEarly(o, top) ==
  \/ o.type = "post_only"
  \/ /\ o.tif = "fok"
     /\ RespectsLiquidity
     /\ FillableNow(o, top) < Remaining(o)

EarlyStatus(o, top) ==
  IF o.type = "post_only"
    THEN IF Crosses(o, top) THEN "rejected" ELSE "acknowledged"
    ELSE "cancelled"

\* Mutation: an immediate-or-cancel order that filled nothing is left alone.
PlacedStatus_UnfilledStays(o) ==
  CASE o.tif = "ioc" /\ o.filled \in 1 .. o.quantity - 1 ->
         StatusAfter(o.status, "cancelled")
    [] o.tif # "ioc" /\ o.status = "submitted" ->
         IF o.type = "market" THEN "rejected" ELSE "acknowledged"
    [] OTHER -> o.status

\* The status place_order leaves an order with after trying to fill it.
PlacedStatus(o) ==
  CASE o.tif = "ioc" /\ o.filled < o.quantity -> StatusAfter(o.status, "cancelled")
    [] o.tif # "ioc" /\ o.status = "submitted" ->
         IF o.type = "market" THEN "rejected" ELSE "acknowledged"
    [] OTHER -> o.status

-----------------------------------------------------------------------------
(* match_resting *)

\* Mutation: cancelled orders are matched too.
Rests_IgnoresStatus(o) == o.type \in { "limit", "post_only" }

Rests(o) ==
  /\ o.status \in { "acknowledged", "partially_filled" }
  /\ o.type \in { "limit", "post_only" }

Displayed(top) == [buy |-> top.ask_qty, sell |-> top.bid_qty]

\* Mutations: every order sees the whole displayed size; an order at the book's
\* price does not match.
MatchQty_IgnoresOthers(o, top, left) ==
  IF Crosses(o, top)
    THEN ClipQty(Remaining(o), OppositeQty(o.side, top)) ELSE 0

MatchQty_StrictlyBetter(o, top, left) ==
  IF Crosses(o, top) /\ o.price # OppositePrice(o.side, top)
    THEN ClipQty(Remaining(o), left[o.side]) ELSE 0

\* What one turn of the matching loop executes of a resting order, when left
\* is the displayed size not yet handed out to each side.
MatchQty(o, top, left) ==
  IF Crosses(o, top) THEN ClipQty(Remaining(o), left[o.side]) ELSE 0

LeftAfter(left, side, qty) ==
  [left EXCEPT ![side] = IF qty > @ THEN 0 ELSE @ - qty]

=============================================================================
