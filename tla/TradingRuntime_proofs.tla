------------------------ MODULE TradingRuntime_proofs ------------------------
(***************************************************************************)
(* Proofs about TradingRuntime for all threads, orders, ticks, limits,     *)
(* fees and fill models.  What holds without crashes or calls during the   *)
(* restore only, of one thread, or of one fill model, says so.             *)
(***************************************************************************)
EXTENDS TradingRuntime, FoldTheorems

(***************************************************************************)
(* The inductive invariant                                                 *)
(***************************************************************************)

Steps ==
  { "idle", "check", "place", "upsert", "save", "finish", "match", "drain", "apply",
    "save_fill", "query", "reflect", "release", "save_seen", "next", "copy", "persist" }

\* Where a call has fills in hand, and where it may have them or an order.
Carrying == { "apply", "save_fill", "query", "reflect", "release", "save_seen", "next" }
Draining == Carrying \cup { "drain" }
Ordered  == Draining \cup { "upsert", "save", "finish" }

FillRecords ==
  [ order : OrderIds, side : Sides, price : Nat, quantity : Nat \ {0},
    is_maker : BOOLEAN ]

\* The parts of the risk engine the runtime's own state speaks of.
RiskOK(r) ==
  /\ DOMAIN r = { "engaged", "rejects", "times", "by_strategy", "by_account", "active",
                  "daily_pnl", "high_water", "connected" }
  /\ r = [field \in DOMAIN r |-> r[field]]
  /\ r.by_strategy \in [Strategies -> Int]
  /\ r.by_account \in [Accounts -> Int]
  /\ r.active \in [Strategies -> Nat]

RowsOK(rows) ==
  DOMAIN rows \subseteq { "quote", "base" } /\ rows \in [DOMAIN rows -> Int]

\* What the threads share has its type.
SharedOK ==
  /\ Books(venue) /\ Books(oms) /\ Books(db.orders) /\ Books(boot.loaded)
  /\ DOMAIN db = { "orders", "fills", "balances" }
  /\ DOMAIN boot = { "step", "loaded" } /\ DOMAIN gone = { "lost", "unsaved" }
  /\ book \in Tops /\ market \in Tops
  /\ pending \in Seq(FillRecords) /\ db.fills \in Seq(FillRecords)
  /\ gone.lost \in Seq(FillRecords) /\ gone.unsaved \in Seq(FillRecords)
  /\ cash \in Portfolios /\ RowsOK(db.balances) /\ RiskOK(risk)
  /\ boot.step \in { "seed", "load", "restore", "done" }
  /\ crashes \in 0..MaxCrashes /\ faults \in 0..MaxFaults
  /\ used \subseteq OrderIds
  /\ pc \in [Threads -> Steps] /\ DOMAIN job = Threads

\* The locals j of a call, and what they are when it stands at the step p.
Asked(j) == "kind" \in DOMAIN j /\ j.kind \in { "intent", "turn" } /\ j.id \in OrderIds

HasOrder(j) ==
  /\ Asked(j) /\ { "kind", "id", "notional", "placed" } \subseteq DOMAIN j
  /\ j.notional \in Nat /\ j.placed \in OrderRecords

JobAt(p, j) ==
  /\ "kind" \in DOMAIN j
  /\ p = "check" => Asked(j) /\ j.ref \in Nat /\ j.age \in Int
  /\ p = "place" => Asked(j) /\ j.notional \in Nat
  /\ p = "match" => j.kind = "tick" /\ j.top \in Tops
  /\ p \in Ordered => HasOrder(j) \/ (j.kind = "tick" /\ p \in Draining)
  /\ p \in Carrying =>
       "todo" \in DOMAIN j /\ j.todo \in Seq(FillRecords) /\ j.todo # << >>
  /\ p \in { "reflect", "release", "save_seen" } => j.seen \in OrderRecords
  /\ p = "persist" => RowsOK(j.copy)

JobOK(t) == JobAt(pc[t], job[t])

IInv == SharedOK /\ \A t \in Threads : JobOK(t)

(***************************************************************************)
(* The matching arithmetic                                                 *)
(***************************************************************************)

\* A fill never passes what the order still wants.
LEMMA ClipQtyBounds ==
  ASSUME NEW r \in Nat, NEW a \in Nat
  PROVE  ClipQty(r, a) \in 0..r
<1> DEFINE share == (a * QueueQuarters) \div 4
<1>1. share \in Nat
  <2>1. QueueQuarters = 1 \/ QueueQuarters = 2 \/ QueueQuarters = 3
    BY MatchingAssumption
  <2>2. (a * 1) \div 4 \in Nat /\ (a * 2) \div 4 \in Nat /\ (a * 3) \div 4 \in Nat
    OBVIOUS
  <2> QED
    BY <2>1, <2>2
<1> HIDE DEF share
<1>2. Lesser(r, a) \in 0..r /\ Lesser(r, share) \in 0..r /\ r \in 0..r
  BY <1>1 DEF Lesser
<1> QED
  BY <1>2, MatchingAssumption DEF ClipQty, share

\* The fields of an order, and how its status and its fills agree.
LEMMA OrderFields ==
  ASSUME NEW o \in OrderRecords
  PROVE  /\ DOMAIN o = { "side", "type", "tif", "price", "quantity", "status", "filled" }
         /\ o.side \in Sides /\ o.type \in OrderTypes /\ o.tif \in TimesInForce
         /\ o.price \in Nat /\ o.quantity \in Nat /\ o.quantity > 0
         /\ o.status \in OrderStatuses /\ o.filled \in Nat /\ o.filled <= o.quantity
         /\ StatusAgreesWithFills(o.status, o.filled, o.quantity)
         /\ Remaining(o) \in Nat /\ Remaining(o) = o.quantity - o.filled
<1>1. /\ DOMAIN o = { "side", "type", "tif", "price", "quantity", "status", "filled" }
      /\ o.side \in Sides /\ o.type \in OrderTypes /\ o.tif \in TimesInForce
      /\ o.price \in Nat /\ o.quantity \in Nat /\ o.quantity > 0
      /\ o.status \in OrderStatuses /\ o.filled \in Nat
      /\ StatusAgreesWithFills(o.status, o.filled, o.quantity)
  BY DEF OrderRecords
<1>2. o.filled <= o.quantity
  BY <1>1 DEF StatusAgreesWithFills
<1> QED
  BY <1>1, <1>2 DEF Remaining

\* The order with another status and another quantity filled: an order, if they agree.
Restated(o, s, f) == [o EXCEPT !.status = s, !.filled = f]

LEMMA OrderRestated ==
  ASSUME NEW o \in OrderRecords, NEW s \in OrderStatuses, NEW f \in Nat,
         StatusAgreesWithFills(s, f, o.quantity),
         NEW p, p = Restated(o, s, f)
  PROVE  /\ p \in OrderRecords /\ p.status = s /\ p.filled = f
         /\ p.side = o.side /\ p.type = o.type /\ p.tif = o.tif
         /\ p.price = o.price /\ p.quantity = o.quantity
<1> DEFINE R == [ side : Sides, type : OrderTypes, tif : TimesInForce, price : Nat,
                  quantity : Nat \ {0}, status : OrderStatuses, filled : Nat ]
<1>1. o \in R
  BY DEF OrderRecords
<1>2. /\ p \in R /\ p.status = s /\ p.filled = f
      /\ p.side = o.side /\ p.type = o.type /\ p.tif = o.tif
      /\ p.price = o.price /\ p.quantity = o.quantity
  BY <1>1 DEF Restated
<1>3. StatusAgreesWithFills(p.status, p.filled, p.quantity)
  BY <1>2
<1> QED
  BY <1>2, <1>3 DEF OrderRecords

LEMMA OppositeType ==
  ASSUME NEW top \in Tops, NEW side \in Sides
  PROVE  OppositePrice(side, top) \in Nat /\ OppositeQty(side, top) \in Nat
  BY DEF Tops, OppositePrice, OppositeQty

\* What an order takes from the book, or a resting one is given.
LEMMA TakeQtyBounds ==
  ASSUME NEW o \in OrderRecords, NEW top \in Tops
  PROVE  TakeQty(o, top) \in 0..Remaining(o)
<1>1. Remaining(o) \in Nat /\ OppositeQty(o.side, top) \in Nat
  BY OrderFields, OppositeType
<1>2. ClipQty(Remaining(o), OppositeQty(o.side, top)) \in 0..Remaining(o)
  BY <1>1, ClipQtyBounds
<1>3. TakeQty(o, top) \in { 0, ClipQty(Remaining(o), OppositeQty(o.side, top)) }
  BY DEF TakeQty
<1> QED
  BY <1>1, <1>2, <1>3

LEMMA MatchQtyBounds ==
  ASSUME NEW o \in OrderRecords, NEW top, NEW left \in [{ "buy", "sell" } -> Nat]
  PROVE  MatchQty(o, top, left) \in 0..Remaining(o)
<1>1. Remaining(o) \in Nat /\ left[o.side] \in Nat
  BY OrderFields DEF Sides
<1>2. ClipQty(Remaining(o), left[o.side]) \in 0..Remaining(o)
  BY <1>1, ClipQtyBounds
<1> QED
  BY <1>1, <1>2 DEF MatchQty

\* The fill of an order that takes from the book, and of one that rests.
TakerFill(id, o, top, qty) == FillOf(id, o, ExecPrice(o, top), qty, FALSE)
MakerFill(id, o, top, qty) == FillOf(id, o, ExecPrice(o, top), qty, TRUE)

LEMMA FillOfType ==
  ASSUME NEW id \in OrderIds, NEW o \in OrderRecords, NEW top \in Tops,
         NEW qty \in Nat, qty > 0
  PROVE  /\ TakerFill(id, o, top, qty) \in FillRecords
         /\ TakerFill(id, o, top, qty).order = id
         /\ TakerFill(id, o, top, qty).quantity = qty
         /\ MakerFill(id, o, top, qty) \in FillRecords
         /\ MakerFill(id, o, top, qty).order = id
         /\ MakerFill(id, o, top, qty).quantity = qty
<1> DEFINE price == ExecPrice(o, top)
<1>1. o.side \in Sides /\ o.price \in Nat /\ OppositePrice(o.side, top) \in Nat
  BY OrderFields, OppositeType
<1>2. price \in Nat
  BY <1>1 DEF ExecPrice
<1>3. /\ TakerFill(id, o, top, qty)
           = [ order |-> id, side |-> o.side, price |-> price, quantity |-> qty,
               is_maker |-> FALSE ]
      /\ MakerFill(id, o, top, qty)
           = [ order |-> id, side |-> o.side, price |-> price, quantity |-> qty,
               is_maker |-> TRUE ]
  BY DEF TakerFill, MakerFill, FillOf
<1> HIDE DEF price
<1> QED
  BY <1>1, <1>2, <1>3 DEF FillRecords

\* A fill moves an order along the state machine, and status and fills agree.
LEMMA AfterFillKeeps ==
  ASSUME NEW o \in OrderRecords,
         o.status \in { "submitted", "acknowledged", "partially_filled" },
         NEW qty \in 1..Remaining(o),
         NEW p, p = AfterFill(o, qty)
  PROVE  /\ p \in OrderRecords /\ p.filled = o.filled + qty
         /\ p.side = o.side /\ p.type = o.type /\ p.tif = o.tif
         /\ p.price = o.price /\ p.quantity = o.quantity
         /\ p.status \in { "filled", "partially_filled" }
         /\ p.status = "filled" <=> o.filled + qty = o.quantity
<1> DEFINE to == IF o.filled + qty >= o.quantity THEN "filled" ELSE "partially_filled"
<1>1. /\ DOMAIN o = { "side", "type", "tif", "price", "quantity", "status", "filled" }
      /\ o.quantity \in Nat /\ o.quantity > 0 /\ o.filled \in Nat
      /\ o.filled <= o.quantity /\ Remaining(o) = o.quantity - o.filled
  BY OrderFields
<1>2. /\ qty \in Nat /\ qty > 0 /\ o.filled + qty \in Nat
      /\ o.filled + qty > 0 /\ o.filled + qty <= o.quantity
  BY <1>1
<1>3. StatusAfter(o.status, to) = to
  BY DEF StatusAfter, CanTransitionTo, Successors
<1>4. AfterFill(o, qty) = [o EXCEPT !.filled = o.filled + qty, !.status = to]
  BY <1>3 DEF AfterFill
<1>5. /\ to \in { "filled", "partially_filled" } /\ to \in OrderStatuses
      /\ to = "filled" <=> o.filled + qty = o.quantity
  BY <1>1, <1>2 DEF OrderStatuses
<1> HIDE DEF to
<1>6. StatusAgreesWithFills(to, o.filled + qty, o.quantity)
  BY <1>1, <1>2, <1>5 DEF StatusAgreesWithFills
<1> DEFINE f == o.filled + qty
<1>7. p = Restated(o, to, f)
  BY <1>1, <1>4 DEF Restated
<1>8. f \in Nat /\ to \in OrderStatuses /\ StatusAgreesWithFills(to, f, o.quantity)
  BY <1>2, <1>5, <1>6
<1>9. f = o.filled + qty
  OBVIOUS
<1> HIDE DEF f
<1>10. /\ p \in OrderRecords /\ p.status = to /\ p.filled = f
       /\ p.side = o.side /\ p.type = o.type /\ p.tif = o.tif
       /\ p.price = o.price /\ p.quantity = o.quantity
  BY <1>7, <1>8, OrderRestated
<1> QED
  BY <1>5, <1>9, <1>10

\* The order of an intent as the engine gets it.
Sent(id) == [Request[id] EXCEPT !.status = "submitted"]

LEMMA SentType ==
  ASSUME NEW id \in OrderIds
  PROVE  /\ Sent(id) \in OrderRecords /\ Sent(id).status = "submitted" /\ Sent(id).filled = 0
         /\ Sent(id).quantity = Request[id].quantity /\ Sent(id).price = Request[id].price
         /\ Request[id] \in OrderRecords /\ Request[id].price \in Nat
         /\ Request[id].quantity \in Nat /\ Request[id].side \in Sides
<1> DEFINE R == [ side : Sides, type : OrderTypes, tif : TimesInForce, price : Nat,
                  quantity : Nat \ {0}, status : { "risk_approved" }, filled : {0} ]
<1>1. Request[id] \in R
  BY RuntimeAssumption
<1>2. /\ Request[id] \in [ side : Sides, type : OrderTypes, tif : TimesInForce,
            price : Nat, quantity : Nat \ {0}, status : OrderStatuses, filled : Nat ]
      /\ Request[id].status = "risk_approved" /\ Request[id].filled = 0
      /\ Request[id].quantity \in Nat /\ Request[id].quantity > 0
      /\ Request[id].price \in Nat /\ Request[id].side \in Sides
  BY <1>1 DEF OrderStatuses
<1>3. Request[id] \in OrderRecords
  BY <1>2 DEF OrderRecords, StatusAgreesWithFills
<1>4. Sent(id) = Restated(Request[id], "submitted", 0)
  BY <1>1 DEF Sent, Restated
<1>5. "submitted" \in OrderStatuses /\ StatusAgreesWithFills("submitted", 0, Request[id].quantity)
  BY <1>2 DEF OrderStatuses, StatusAgreesWithFills
<1> QED
  BY <1>2, <1>3, <1>4, <1>5, OrderRestated

\* An order with a status its fills agree with.
WithStatus(o, s) == [o EXCEPT !.status = s]

LEMMA StatusGiven ==
  ASSUME NEW o \in OrderRecords, NEW s \in OrderStatuses,
         StatusAgreesWithFills(s, o.filled, o.quantity),
         NEW p, p = WithStatus(o, s)
  PROVE  /\ p \in OrderRecords /\ p.status = s /\ p.filled = o.filled
         /\ p.side = o.side /\ p.type = o.type /\ p.tif = o.tif
         /\ p.price = o.price /\ p.quantity = o.quantity
<1>1. o.filled \in Nat /\ p = Restated(o, s, o.filled)
  BY OrderFields DEF Restated, WithStatus, OrderRecords
<1> QED
  BY <1>1, OrderRestated

\* place_order answers an intent with an order a submitted one may become, and
\* with the fill that made it what it is, if there is one.
LEMMA PlacedType ==
  ASSUME NEW id \in OrderIds, NEW top \in Tops, NEW r, r = Placed(id, top)
  PROVE  /\ r.order \in OrderRecords /\ r.order.quantity = Request[id].quantity
         /\ r.order.price = Request[id].price
         /\ r.order.status \in Successors["submitted"]
         /\ r.order.status \notin { "cancel_pending", "unknown" }
         /\ FillModel = "immediate" => r.order.filled \in { 0, r.order.quantity }
         /\ \/ r.fills = << >> /\ r.order.filled = 0
            \/ \E f \in FillRecords :
                 r.fills = << f >> /\ f.order = id /\ f.quantity = r.order.filled
<1> DEFINE o == Sent(id)
           qty == TakeQty(o, top)
           after == IF qty > 0 THEN AfterFill(o, qty) ELSE o
           fill == TakerFill(id, o, top, qty)
<1>1. /\ o \in OrderRecords /\ o.status = "submitted" /\ o.filled = 0
      /\ o.quantity = Request[id].quantity /\ o.price = Request[id].price
  BY SentType
<1>2. /\ o.quantity \in Nat /\ o.quantity > 0 /\ qty \in 0..o.quantity
      /\ Remaining(o) = o.quantity
      /\ FillModel = "immediate" => qty \in { 0, o.quantity }
  <2>1. /\ o.quantity \in Nat /\ o.quantity > 0 /\ qty \in 0..o.quantity
        /\ Remaining(o) = o.quantity
    BY <1>1, OrderFields, TakeQtyBounds
  <2> HIDE DEF o
  <2>2. FillModel = "immediate" => qty \in { 0, Remaining(o) }
    BY DEF TakeQty, ClipQty
  <2> QED
    BY <2>1, <2>2
<1>3. ASSUME NEW s \in { "rejected", "acknowledged", "cancelled" }
      PROVE  /\ WithStatus(o, s) \in OrderRecords
             /\ WithStatus(o, s).quantity = o.quantity /\ WithStatus(o, s).price = o.price
             /\ WithStatus(o, s).status \notin { "cancel_pending", "unknown" }
             /\ WithStatus(o, s).status \in Successors["submitted"]
             /\ WithStatus(o, s).filled = 0
  <2>1. s \in OrderStatuses /\ s \in Successors["submitted"]
    BY DEF OrderStatuses, Successors
  <2>2. StatusAgreesWithFills(s, o.filled, o.quantity)
    BY <1>1, <1>2 DEF StatusAgreesWithFills
  <2> HIDE DEF o
  <2> QED
    BY <1>1, <2>1, <2>2, StatusGiven
<1>4. CASE o.type = "stop"
  <2>1. r = [order |-> WithStatus(o, "rejected"), fills |-> << >>]
    BY <1>4 DEF Placed, Sent, WithStatus
  <2> HIDE DEF o
  <2> QED
    BY <1>1, <1>3, <2>1
<1>5. CASE o.type # "stop" /\ ReturnsEarly(o, top)
  <2>1. r = [order |-> WithStatus(o, EarlyStatus(o, top)), fills |-> << >>]
    BY <1>5 DEF Placed, Sent, WithStatus
  <2>2. EarlyStatus(o, top) \in { "rejected", "acknowledged", "cancelled" }
    BY DEF EarlyStatus
  <2> HIDE DEF o
  <2> QED
    BY <1>1, <1>3, <2>1, <2>2
<1>6. CASE o.type # "stop" /\ ~ ReturnsEarly(o, top)
  <2>1. r = [ order |-> WithStatus(after, PlacedStatus(after)),
              fills |-> IF qty > 0 THEN << fill >> ELSE << >> ]
    BY <1>6 DEF Placed, Sent, WithStatus, TakerFill
  <2>2. /\ after \in OrderRecords /\ after.filled = qty /\ after.quantity = o.quantity
        /\ after.price = o.price
        /\ \/ qty = 0 /\ after.status = "submitted"
           \/ qty > 0 /\ qty < o.quantity /\ after.status = "partially_filled"
           \/ qty = o.quantity /\ after.status = "filled"
    <3> HIDE DEF o, qty
    <3>1. CASE qty > 0
      <4>1. qty \in 1..Remaining(o) /\ after = AfterFill(o, qty)
        BY <1>2, <3>1
      <4>2. /\ after \in OrderRecords /\ after.filled = o.filled + qty
            /\ after.quantity = o.quantity /\ after.price = o.price
            /\ after.status \in { "filled", "partially_filled" }
            /\ after.status = "filled" <=> o.filled + qty = o.quantity
        BY <1>1, <4>1, AfterFillKeeps
      <4> HIDE DEF after
      <4> QED
        BY <1>1, <1>2, <3>1, <4>2
    <3>2. CASE qty = 0
      BY <1>1, <1>2, <3>2
    <3> QED
      BY <1>2, <3>1, <3>2
  <2>3. qty > 0 => fill \in FillRecords /\ fill.order = id /\ fill.quantity = qty
    <3>1. SUFFICES ASSUME qty > 0
                   PROVE  fill \in FillRecords /\ fill.order = id /\ fill.quantity = qty
      OBVIOUS
    <3>2. qty \in Nat
      BY <1>2
    <3> HIDE DEF o, qty
    <3> QED
      BY <1>1, <3>1, <3>2, FillOfType DEF fill
  <2> HIDE DEF o, qty, after, fill
  <2> DEFINE s == PlacedStatus(after)
  <2>4. /\ s \in { "cancelled", "rejected", "acknowledged", "partially_filled", "filled" }
        /\ StatusAgreesWithFills(s, qty, o.quantity)
    <3>1. /\ StatusAfter("submitted", "cancelled") = "cancelled"
          /\ StatusAfter("partially_filled", "cancelled") = "cancelled"
      BY DEF StatusAfter, CanTransitionTo, Successors
    <3>2. \/ qty = 0 /\ s \in { "cancelled", "rejected", "acknowledged" }
          \/ qty > 0 /\ qty < o.quantity /\ s \in { "cancelled", "partially_filled" }
          \/ qty = o.quantity /\ s = "filled"
      BY <1>2, <2>2, <3>1 DEF PlacedStatus
    <3> HIDE DEF s
    <3> QED
      BY <1>2, <3>2 DEF StatusAgreesWithFills
  <2>5. s \in OrderStatuses /\ s \in Successors["submitted"]
    <3> HIDE DEF s
    <3> QED
      BY <2>4 DEF OrderStatuses, Successors
  <2>6. r.order = WithStatus(after, s)
    BY <2>1
  <2> HIDE DEF s
  <2>7. /\ r.order \in OrderRecords /\ r.order.status = s /\ r.order.filled = qty
        /\ r.order.quantity = o.quantity /\ r.order.price = o.price
    BY <2>2, <2>4, <2>5, <2>6, StatusGiven
  <2> QED
    BY <1>1, <1>2, <2>1, <2>3, <2>4, <2>5, <2>7
<1> QED
  BY <1>4, <1>5, <1>6

(***************************************************************************)
(* The risk engine's calls                                                 *)
(***************************************************************************)

\* The engine with other bookings, b, and every engine that differs in them only.
Bookings ==
  [by_strategy : [Strategies -> Int], by_account : [Accounts -> Int], active : [Strategies -> Nat]]

BookedAs(r, b) ==
  [r EXCEPT !.by_strategy = b.by_strategy, !.by_account = b.by_account, !.active = b.active]

Rebookings(r) == { BookedAs(r, b) : b \in Bookings }

BookingsOf(r) == [by_strategy |-> r.by_strategy, by_account |-> r.by_account, active |-> r.active]

LEMMA BookedAsOK ==
  ASSUME NEW r, RiskOK(r), NEW b \in Bookings, NEW q, q = BookedAs(r, b)
  PROVE  RiskOK(q) /\ BookingsOf(q) = b /\ \A c : BookedAs(q, c) = BookedAs(r, c)
<1>1. /\ b.by_strategy \in [Strategies -> Int] /\ b.by_account \in [Accounts -> Int]
      /\ b.active \in [Strategies -> Nat]
      /\ b = [by_strategy |-> b.by_strategy, by_account |-> b.by_account, active |-> b.active]
  BY DEF Bookings
<1>2. RiskOK(q)
  BY <1>1 DEF RiskOK, BookedAs
<1>3. BookingsOf(q) = b
  BY <1>1 DEF RiskOK, BookedAs, BookingsOf
<1>4. ASSUME NEW c
      PROVE  BookedAs(q, c) = BookedAs(r, c)
  BY DEF RiskOK, BookedAs
<1> QED
  BY <1>2, <1>3, <1>4

LEMMA BookingsType ==
  ASSUME NEW r, RiskOK(r)
  PROVE  BookingsOf(r) \in Bookings /\ BookedAs(r, BookingsOf(r)) = r
<1>1. BookingsOf(r) \in Bookings
  BY DEF RiskOK, BookingsOf, Bookings
<1>2. BookedAs(r, BookingsOf(r)) = r
  BY DEF RiskOK, BookingsOf, BookedAs
<1> QED
  BY <1>1, <1>2

LEMMA RebookingsOK ==
  ASSUME NEW r, RiskOK(r)
  PROVE  /\ r \in Rebookings(r)
         /\ \A q \in Rebookings(r) : RiskOK(q) /\ Rebookings(q) \subseteq Rebookings(r)
<1>1. r \in Rebookings(r)
  BY BookingsType DEF Rebookings
<1>2. ASSUME NEW q \in Rebookings(r)
      PROVE  RiskOK(q) /\ Rebookings(q) \subseteq Rebookings(r)
  <2>1. PICK b \in Bookings : q = BookedAs(r, b)
    BY DEF Rebookings
  <2>2. RiskOK(q) /\ \A c : BookedAs(q, c) = BookedAs(r, c)
    BY <2>1, BookedAsOK
  <2> QED
    BY <2>2 DEF Rebookings
<1> QED
  BY <1>1, <1>2

LEMMA BookedOK ==
  ASSUME NEW r, RiskOK(r), NEW n \in Int
  PROVE  Booked(r, "oneshot", "paper_acc", n) \in Rebookings(r)
<1> DEFINE x == [r.by_strategy EXCEPT !["oneshot"] = @ + n]
           y == [r.by_account EXCEPT !["paper_acc"] = @ + n]
           z == [r.active EXCEPT !["oneshot"] = @ + 1]
           b == [by_strategy |-> x, by_account |-> y, active |-> z]
<1>1. x \in [Strategies -> Int] /\ y \in [Accounts -> Int] /\ z \in [Strategies -> Nat]
  BY RuntimeAssumption DEF RiskOK
<1>2. Booked(r, "oneshot", "paper_acc", n) = BookedAs(r, b)
  BY DEF Booked, BookedAs
<1> HIDE DEF x, y, z
<1>3. b \in Bookings
  BY <1>1 DEF Bookings
<1> QED
  BY <1>2, <1>3 DEF Rebookings

LEMMA ReleaseOK ==
  ASSUME NEW r, RiskOK(r), NEW n \in Int
  PROVE  RiskOK(Release(r, n))
<1> DEFINE x == [r.by_strategy EXCEPT !["oneshot"] = @ - n]
           y == [r.by_account EXCEPT !["paper_acc"] = @ - n]
           z == [r.active EXCEPT !["oneshot"] = IF @ = 0 THEN 0 ELSE @ - 1]
           b == [by_strategy |-> x, by_account |-> y, active |-> z]
<1>1. x \in [Strategies -> Int] /\ y \in [Accounts -> Int] /\ z \in [Strategies -> Nat]
  BY RuntimeAssumption DEF RiskOK
<1>2. Release(r, n) = BookedAs(r, b)
  BY DEF Release, AfterTerminal, BookedAs
<1> HIDE DEF x, y, z
<1>3. b \in Bookings
  BY <1>1 DEF Bookings
<1> QED
  BY <1>2, <1>3, BookedAsOK

LEMMA InformedOK ==
  ASSUME NEW r, RiskOK(r)
  PROVE  RiskOK(Informed(r))
  BY DEF RiskOK, Informed, AfterFacts

LEMMA CheckOK ==
  ASSUME NEW r, RiskOK(r), NEW i, NEW m, i.strategy = "oneshot", i.account = "paper_acc",
         Notional(i, m) \in Int
  PROVE  RiskOK(AfterCheck(r, i, m, 0))
<1>1. RiskOK(AfterRejection(r, i, m, 0))
  BY DEF RiskOK, AfterRejection
<1>2. RiskOK(AfterApproval(r, i, m, 0))
  <2> DEFINE q == Booked(r, "oneshot", "paper_acc", Notional(i, m))
             times == Append(IF Limits.max_order_rate = NoLimit
                               THEN r.times ELSE Pruned(r.times, 0), 0)
  <2>1. RiskOK(q)
    <3>1. q \in Rebookings(r)
      BY BookedOK
    <3> HIDE DEF q
    <3> QED
      BY <3>1, RebookingsOK
  <2>2. AfterApproval(r, i, m, 0) = [q EXCEPT !.rejects = 0, !.times = times]
    BY DEF AfterApproval
  <2> HIDE DEF q, times
  <2>3. RiskOK([q EXCEPT !.rejects = 0, !.times = times])
    BY <2>1 DEF RiskOK
  <2> QED
    BY <2>2, <2>3
<1> QED
  BY <1>1, <1>2 DEF AfterCheck

\* The restore books one order after the other, and disturbs nothing else.
Rebooked(r, orders, ids) ==
  FoldLeft(LAMBDA q, id : AfterRestored(q, "oneshot", "paper_acc",
                                        OrderNotional(orders[id], RefPrice)),
           r, ids)

\* g is the engine after the orders of each set of places, booked one by one.
InTurn(r, orders, n, ids, g) ==
  /\ g[{}] = r /\ Rebooked(r, orders, ids) = g[1..n]
  /\ \A s \in SUBSET (1..n) :
       /\ RiskOK(g[s])
       /\ s # {} =>
            /\ Max(s) \in s
            /\ g[s] = Booked(g[s \ {Max(s)}], "oneshot", "paper_acc",
                             OrderNotional(orders[ids[Max(s)]], RefPrice))

LEMMA RebookedInTurn ==
  ASSUME NEW r, RiskOK(r), NEW orders, NEW n \in Nat, NEW ids, DOMAIN ids = 1..n,
         \A k \in 1..n : OrderNotional(orders[ids[k]], RefPrice) \in Int
  PROVE  \E g : InTurn(r, orders, n, ids, g)
<1> DEFINE D == 1..n
           worth(k) == OrderNotional(orders[ids[k]], RefPrice)
           A == Rebookings(r)
           pick == [s \in SUBSET D |-> Max(s)]
           Step == [p \in A \X D |-> Booked(p[1], "oneshot", "paper_acc", worth(p[2]))]
           IsFold(g) == g = [s \in SUBSET D |->
             IF s = {} THEN r
             ELSE AfterRestored(g[s \ {Max(s)}], "oneshot", "paper_acc",
                                OrderNotional(orders[ids[Max(s)]], RefPrice))]
<1>1. \A s \in SUBSET D : s # {} => Max(s) \in s /\ pick[s] = Max(s) /\ pick[s] \in s
  BY GreatestElement DEF Max
<1>2. r \in A /\ \A q \in A : RiskOK(q)
  BY RebookingsOK
<1>3. \A q \in A, k \in D : Booked(q, "oneshot", "paper_acc", worth(k)) \in A
  <2>1. ASSUME NEW q \in A, NEW k \in D
        PROVE  Booked(q, "oneshot", "paper_acc", worth(k)) \in A
    <3>1. RiskOK(q) /\ Rebookings(q) \subseteq A /\ worth(k) \in Int
      BY RebookingsOK
    <3> HIDE DEF worth
    <3> QED
      BY <3>1, BookedOK
  <2> QED
    BY <2>1
<1>4. IsFiniteSet(D) /\ Step \in [A \X D -> A]
  <2>1. IsFiniteSet(D)
    BY FS_Interval
  <2> HIDE DEF A, worth
  <2> QED
    BY <1>3, <2>1
<1>5. PICK h : Recursion(D, A, r, pick, Step, h)
  <2> HIDE DEF A, D, pick, Step
  <2> QED
    BY <1>1, <1>2, <1>4, RecursionDefined
<1>6. IsFold(h)
  <2>1. ASSUME NEW s \in SUBSET D, s # {}
        PROVE  h[s] = AfterRestored(h[s \ {Max(s)}], "oneshot", "paper_acc", worth(Max(s)))
    <3>1. h[s \ {pick[s]}] \in A /\ pick[s] \in D /\ pick[s] = Max(s)
      BY <1>1, <1>5, <2>1 DEF Recursion
    <3>2. h[s] = Step[<< h[s \ {pick[s]}], pick[s] >>]
      BY <1>5, <2>1 DEF Recursion
    <3> HIDE DEF A, worth, D, pick
    <3> QED
      BY <3>1, <3>2 DEF AfterRestored
  <2>2. h \in [SUBSET D -> A] /\ h[{}] = r
    BY <1>5 DEF Recursion
  <2> HIDE DEF A, D
  <2> QED
    BY <2>1, <2>2
<1>7. PICK g : IsFold(g) /\ Rebooked(r, orders, ids) = g[D]
  <2>1. IsFold(CHOOSE g : IsFold(g))
    BY <1>6
  <2>2. Rebooked(r, orders, ids) = (CHOOSE g : IsFold(g))[D]
    BY DEF Rebooked, FoldLeft, MapThenFoldSet
  <2> QED
    BY <2>1, <2>2
<1>8. \A s \in SUBSET D : g[s] \in A
  <2>1. g[{}] \in A
    BY <1>2, <1>7
  <2>2. ASSUME NEW s \in SUBSET D, s # {}, g[s \ {pick[s]}] \in A
        PROVE  g[s] \in A
    <3>1. g[s] = Booked(g[s \ {pick[s]}], "oneshot", "paper_acc", worth(pick[s]))
      BY <1>1, <1>7, <2>2 DEF AfterRestored
    <3>2. pick[s] \in D
      BY <1>1, <2>2
    <3> HIDE DEF A, D, pick, worth, IsFold
    <3> QED
      BY <1>3, <2>2, <3>1, <3>2
  <2> HIDE DEF A, D, pick, IsFold
  <2> QED
    BY <1>1, <1>4, <2>1, <2>2, FoldStays
<1>9. ASSUME NEW s \in SUBSET D, s # {}
      PROVE  g[s] = Booked(g[s \ {Max(s)}], "oneshot", "paper_acc", worth(Max(s)))
  BY <1>1, <1>7, <1>9 DEF AfterRestored
<1>10. g[{}] = r
  BY <1>7
<1> HIDE DEF IsFold, A
<1> QED
  BY <1>1, <1>2, <1>7, <1>8, <1>9, <1>10 DEF InTurn

LEMMA RebookedOK ==
  ASSUME NEW r, RiskOK(r), NEW orders, NEW n \in Nat, NEW ids, DOMAIN ids = 1..n,
         \A k \in 1..n : OrderNotional(orders[ids[k]], RefPrice) \in Int
  PROVE  RiskOK(Rebooked(r, orders, ids))
<1>1. PICK g : InTurn(r, orders, n, ids, g)
  BY RebookedInTurn
<1> QED
  BY <1>1 DEF InTurn

(***************************************************************************)
(* What fills execute of an order                                          *)
(***************************************************************************)

Amount(id) == [f \in FillRecords |-> IF f.order = id THEN f.quantity ELSE 0]

LEMMA AmountType ==
  ASSUME NEW id
  PROVE  /\ Amount(id) \in [FillRecords -> Int]
         /\ \A f \in FillRecords :
              /\ Amount(id)[f] >= 0
              /\ Amount(id)[f] = IF f.order = id THEN f.quantity ELSE 0
  BY DEF Amount, FillRecords

LEMMA FilledByWeight ==
  ASSUME NEW id, NEW s \in Seq(FillRecords)
  PROVE  /\ FilledBy(s, id) = Weight(s, Amount(id))
         /\ FilledBy(s, id) \in Nat
<1>1. DOMAIN s = 1..Len(s) /\ \A n \in DOMAIN s : s[n] \in FillRecords
  BY LenProperties, ElementOfSeq
<1>2. Weights(s, Amount(id))
        = [n \in DOMAIN s |-> IF s[n].order = id THEN s[n].quantity ELSE 0]
  BY <1>1 DEF Weights, Amount
<1>3. FilledBy(s, id) = Weight(s, Amount(id))
  BY <1>2 DEF FilledBy, Weight
<1>4. Weight(s, Amount(id)) \in Int /\ Weight(s, Amount(id)) >= 0
  BY AmountType, WeightType
<1> QED
  BY <1>3, <1>4

\* What is executed grows by a fill's quantity where the order is the fill's.
Executes(f, id) == IF f.order = id THEN f.quantity ELSE 0

LEMMA FilledByEmpty ==
  ASSUME NEW id
  PROVE  << >> \in Seq(FillRecords) /\ FilledBy(<< >>, id) = 0
<1>1. << >> \in Seq(FillRecords)
  OBVIOUS
<1> QED
  BY <1>1, FilledByWeight, AmountType, WeightEmpty

LEMMA FilledByAppend ==
  ASSUME NEW id, NEW s \in Seq(FillRecords), NEW f \in FillRecords
  PROVE  /\ Append(s, f) \in Seq(FillRecords) /\ Executes(f, id) \in Nat
         /\ FilledBy(Append(s, f), id) = FilledBy(s, id) + Executes(f, id)
<1>1. /\ Append(s, f) \in Seq(FillRecords)
      /\ Weight(Append(s, f), Amount(id)) = Weight(s, Amount(id)) + Amount(id)[f]
  BY AmountType, WeightAppend
<1>2. Amount(id)[f] = Executes(f, id) /\ Executes(f, id) \in Nat
  BY DEF Amount, Executes, FillRecords
<1> QED
  BY <1>1, <1>2, FilledByWeight

LEMMA FilledByJoined ==
  ASSUME NEW id, NEW p \in Seq(FillRecords), NEW q \in Seq(FillRecords)
  PROVE  /\ p \o q \in Seq(FillRecords)
         /\ FilledBy(p \o q, id) = FilledBy(p, id) + FilledBy(q, id)
<1>1. /\ p \o q \in Seq(FillRecords)
      /\ Weight(p \o q, Amount(id)) = Weight(p, Amount(id)) + Weight(q, Amount(id))
  BY AmountType, WeightJoined
<1> QED
  BY <1>1, FilledByWeight

LEMMA FilledByOne ==
  ASSUME NEW id, NEW f \in FillRecords
  PROVE  << f >> \in Seq(FillRecords) /\ FilledBy(<< f >>, id) = Executes(f, id)
<1>1. << f >> \in Seq(FillRecords) /\ Weight(<< f >>, Amount(id)) = Amount(id)[f]
  BY AmountType, WeightOne
<1>2. Amount(id)[f] = Executes(f, id)
  BY DEF Amount, Executes
<1> QED
  BY <1>1, <1>2, FilledByWeight

LEMMA FilledByTail ==
  ASSUME NEW id, NEW s \in Seq(FillRecords), s # << >>
  PROVE  /\ Head(s) \in FillRecords /\ Tail(s) \in Seq(FillRecords)
         /\ Executes(Head(s), id) \in Nat
         /\ FilledBy(s, id) = Executes(Head(s), id) + FilledBy(Tail(s), id)
<1>1. /\ Head(s) \in FillRecords /\ Tail(s) \in Seq(FillRecords)
      /\ Weight(s, Amount(id)) = Amount(id)[Head(s)] + Weight(Tail(s), Amount(id))
  BY AmountType, WeightTail
<1>2. Amount(id)[Head(s)] = Executes(Head(s), id) /\ Executes(Head(s), id) \in Nat
  BY <1>1 DEF Amount, Executes, FillRecords
<1> QED
  BY <1>1, <1>2, FilledByWeight

(***************************************************************************)
(* The matching loop                                                       *)
(***************************************************************************)

\* What becomes of an order while the loop runs: one that does not rest stays as
\* it is, one that does is as it was or filled in part or whole.
Continues(o, p) ==
  /\ p.side = o.side /\ p.type = o.type /\ p.tif = o.tif
  /\ p.price = o.price /\ p.quantity = o.quantity
  /\ \/ p.status = o.status /\ p.filled = o.filled
     \/ Rests(o) /\ p.status \in { "partially_filled", "filled" } /\ p.filled > o.filled

\* The immediate model fills an order at once and whole.
ByWhole(v, s) ==
  /\ \A id \in DOMAIN v :
       s.orders[id].filled # v[id].filled => s.orders[id].status = "filled"
  /\ \A n \in DOMAIN s.fills :
       LET id == s.fills[n].order
       IN id \in DOMAIN v /\ s.fills[n].quantity = Remaining(v[id])

\* The states of the loop: what an order has executed more than before is what
\* the loop's fills say, and they say nothing of any other.
Matching(v) ==
  { s \in [ orders : [DOMAIN v -> OrderRecords], left : [{ "buy", "sell" } -> Nat],
            fills : Seq(FillRecords) ] :
      /\ \A id \in DOMAIN v :
           /\ Continues(v[id], s.orders[id])
           /\ s.orders[id].filled = v[id].filled + FilledBy(s.fills, id)
      /\ \A id \in OrderIds \ DOMAIN v : FilledBy(s.fills, id) = 0
      /\ FillModel = "immediate" => ByWhole(v, s) }

LEMMA TurnKeeps ==
  ASSUME NEW v, Books(v), NEW s \in Matching(v), NEW id \in DOMAIN v, Rests(v[id]),
         NEW top \in Tops
  PROVE  MatchTurn(s, id, top) \in Matching(v)
<1> DEFINE o == s.orders[id]
           qty == MatchQty(o, top, s.left)
           p == AfterFill(o, qty)
           fill == MakerFill(id, o, top, qty)
           q == [ orders |-> [s.orders EXCEPT ![id] = p],
                  left   |-> LeftAfter(s.left, o.side, qty),
                  fills  |-> Append(s.fills, fill) ]
<1>1. /\ s.orders \in [DOMAIN v -> OrderRecords] /\ s.left \in [{ "buy", "sell" } -> Nat]
      /\ s.fills \in Seq(FillRecords) /\ DOMAIN v \subseteq OrderIds
      /\ \A x \in DOMAIN v :
           /\ v[x] \in OrderRecords /\ Continues(v[x], s.orders[x])
           /\ s.orders[x].filled = v[x].filled + FilledBy(s.fills, x)
      /\ \A x \in OrderIds \ DOMAIN v : FilledBy(s.fills, x) = 0
  BY DEF Matching, Books
<1>2. o \in OrderRecords /\ qty \in 0..Remaining(o) /\ Remaining(o) \in Nat
  <2>1. o \in OrderRecords
    BY <1>1
  <2> HIDE DEF o
  <2> QED
    BY <1>1, <2>1, MatchQtyBounds, OrderFields
<1>3. MatchTurn(s, id, top) = IF qty = 0 THEN s ELSE q
  BY DEF MatchTurn, MakerFill
<1>4. SUFFICES ASSUME qty # 0
               PROVE  q \in Matching(v)
  BY <1>3
<1>5. /\ qty \in 1..Remaining(o) /\ qty \in Nat /\ qty > 0
      /\ Remaining(o) = o.quantity - o.filled
      /\ o.quantity \in Nat /\ o.filled \in Nat
  BY <1>2, <1>4, OrderFields
<1>6. o.status \in { "acknowledged", "partially_filled" }
  <2>1. o.status # "filled"
    <3> HIDE DEF o, qty
    <3> QED
      BY <1>2, <1>5, OrderFields DEF StatusAgreesWithFills
  <2>2. Continues(v[id], o) /\ v[id].status \in { "acknowledged", "partially_filled" }
    BY <1>1 DEF Rests
  <2> HIDE DEF o
  <2> QED
    BY <2>1, <2>2 DEF Continues
<1>7. /\ p \in OrderRecords /\ p.filled = o.filled + qty
      /\ p.side = o.side /\ p.type = o.type /\ p.tif = o.tif
      /\ p.price = o.price /\ p.quantity = o.quantity
      /\ p.status \in { "filled", "partially_filled" }
  <2> HIDE DEF o, qty
  <2>1. o.status \in { "submitted", "acknowledged", "partially_filled" }
    BY <1>6
  <2> QED
    BY <1>2, <1>5, <2>1, AfterFillKeeps
<1>8. fill \in FillRecords /\ fill.order = id /\ fill.quantity = qty
  <2>1. id \in OrderIds
    BY <1>1
  <2> HIDE DEF o, qty
  <2> QED
    BY <1>2, <1>5, <2>1, FillOfType DEF fill
<1>9. LeftAfter(s.left, o.side, qty) \in [{ "buy", "sell" } -> Nat]
  <2>1. o.side \in { "buy", "sell" }
    BY <1>2, OrderFields DEF Sides
  <2> HIDE DEF o, qty
  <2> QED
    BY <1>1, <1>5, <2>1 DEF LeftAfter
<1>10. ASSUME NEW x \in DOMAIN v
       PROVE  /\ Continues(v[x], q.orders[x])
              /\ q.orders[x].filled = v[x].filled + FilledBy(q.fills, x)
  <2>1. FilledBy(q.fills, x) = FilledBy(s.fills, x) + Executes(fill, x)
    <3> HIDE DEF fill
    <3> QED
      BY <1>1, <1>8, FilledByAppend
  <2>2. v[x].filled \in Nat /\ FilledBy(s.fills, x) \in Nat
    BY <1>1, OrderFields, FilledByWeight
  <2>3. CASE x = id
    <3>1. q.orders[x] = p /\ Executes(fill, x) = qty
      BY <1>1, <1>8, <2>3 DEF Executes
    <3>2. /\ Continues(v[x], o) /\ Rests(v[x])
          /\ o.filled = v[x].filled + FilledBy(s.fills, x)
      BY <1>1, <2>3
    <3> HIDE DEF q, p, o, qty, fill
    <3>3. Continues(v[x], p)
      <4>1. p.filled > v[x].filled
        BY <1>5, <1>7, <2>2, <3>2
      <4> QED
        BY <1>7, <3>2, <4>1 DEF Continues
    <3> QED
      BY <1>5, <1>7, <2>1, <2>2, <3>1, <3>2, <3>3
  <2>4. CASE x # id
    <3>1. q.orders[x] = s.orders[x] /\ Executes(fill, x) = 0
      BY <1>1, <1>8, <2>4 DEF Executes
    <3> HIDE DEF q, p, o, qty, fill
    <3> QED
      BY <1>1, <2>1, <2>2, <3>1
  <2> QED
    BY <2>3, <2>4
<1>11. ASSUME NEW x \in OrderIds \ DOMAIN v
       PROVE  FilledBy(q.fills, x) = 0
  <2>1. FilledBy(q.fills, x) = FilledBy(s.fills, x) + Executes(fill, x)
    <3> HIDE DEF fill
    <3> QED
      BY <1>1, <1>8, FilledByAppend
  <2>2. Executes(fill, x) = 0 /\ FilledBy(s.fills, x) = 0
    <3> HIDE DEF fill
    <3> QED
      BY <1>1, <1>8 DEF Executes
  <2> QED
    BY <2>1, <2>2
<1>12. /\ q.orders \in [DOMAIN v -> OrderRecords]
       /\ q.fills \in Seq(FillRecords)
  <2> HIDE DEF p, o, qty, fill
  <2> QED
    BY <1>1, <1>7, <1>8, FilledByAppend
<1> HIDE DEF o, p, qty, fill
<1>13. q \in [ orders : [DOMAIN v -> OrderRecords], left : [{ "buy", "sell" } -> Nat],
               fills : Seq(FillRecords) ]
  BY <1>9, <1>12
<1>14. ASSUME FillModel = "immediate"
       PROVE  ByWhole(v, q)
  <2>1. ByWhole(v, s)
    BY <1>14 DEF Matching
  <2>2. qty = Remaining(o)
    <3> HIDE DEF o
    <3> QED
      BY <1>4, <1>14 DEF qty, MatchQty, ClipQty
  <2>3. o.filled = v[id].filled
    BY <1>6, <2>1 DEF ByWhole, o
  <2>4. Remaining(o) = Remaining(v[id])
    BY <1>1, <2>3 DEF Remaining, Continues, o
  <2>5. q.fills = Append(s.fills, fill) /\ q.orders = [s.orders EXCEPT ![id] = p]
    OBVIOUS
  <2>6. p.status = "filled"
    <3>1. p.filled = p.quantity
      BY <1>5, <1>7, <2>2
    <3> QED
      BY <1>7, <3>1, OrderFields DEF StatusAgreesWithFills
  <2> HIDE DEF o, p, qty, fill, q
  <2>7. ASSUME NEW x \in DOMAIN v, q.orders[x].filled # v[x].filled
        PROVE  q.orders[x].status = "filled"
    BY <1>1, <2>1, <2>5, <2>6, <2>7 DEF ByWhole
  <2>8. ASSUME NEW n \in DOMAIN q.fills
        PROVE  /\ q.fills[n].order \in DOMAIN v
               /\ q.fills[n].quantity = Remaining(v[q.fills[n].order])
    <3>1. n \in 1..(Len(s.fills) + 1) /\ Len(s.fills) \in Nat
      BY <1>1, <1>8, <2>5, AppendProperties, LenProperties
    <3>2. CASE n = Len(s.fills) + 1
      BY <1>1, <1>8, <2>2, <2>4, <2>5, <3>1, <3>2, AppendProperties
    <3>3. CASE n # Len(s.fills) + 1
      <4>1. n \in 1..Len(s.fills) /\ n \in DOMAIN s.fills /\ q.fills[n] = s.fills[n]
        BY <1>1, <1>8, <2>5, <3>1, <3>3, AppendProperties, LenProperties
      <4> QED
        BY <2>1, <4>1 DEF ByWhole
    <3> QED
      BY <3>2, <3>3
  <2> QED
    BY <2>7, <2>8 DEF ByWhole
<1> HIDE DEF q
<1> QED
  BY <1>10, <1>13, <1>11, <1>14 DEF Matching

LEMMA MatchedKeeps ==
  ASSUME Books(venue), NEW top \in Tops, NEW n \in Nat, NEW ids, DOMAIN ids = 1..n,
         \A k \in 1..n : ids[k] \in DOMAIN venue /\ Rests(venue[ids[k]])
  PROVE  Matched(top, ids) \in Matching(venue)
<1> DEFINE D == 1..n
           A == Matching(venue)
           base == [orders |-> venue, left |-> Displayed(top), fills |-> << >>]
           pick == [s \in SUBSET D |-> Max(s)]
           Step == [p \in A \X D |-> MatchTurn(p[1], ids[p[2]], top)]
           IsFold(g) == g = [s \in SUBSET D |->
             IF s = {} THEN base ELSE MatchTurn(g[s \ {Max(s)}], ids[Max(s)], top)]
<1>1. \A s \in SUBSET D : s # {} => Max(s) \in s /\ pick[s] = Max(s) /\ pick[s] \in s
  BY GreatestElement DEF Max
<1>2. base \in A
  <2>1. base \in [ orders : [DOMAIN venue -> OrderRecords], left : [{ "buy", "sell" } -> Nat],
                   fills : Seq(FillRecords) ]
    BY DEF Books, Displayed, Tops
  <2>2. ASSUME NEW x \in DOMAIN venue
        PROVE  /\ Continues(venue[x], base.orders[x])
               /\ base.orders[x].filled = venue[x].filled + FilledBy(base.fills, x)
    <3>1. venue[x].filled \in Nat
      BY OrderFields DEF Books
    <3>2. FilledBy(base.fills, x) = 0
      BY FilledByEmpty
    <3> QED
      BY <3>1, <3>2 DEF Continues
  <2>3. ASSUME NEW x \in OrderIds \ DOMAIN venue
        PROVE  FilledBy(base.fills, x) = 0
    BY FilledByEmpty
  <2>4. ByWhole(venue, base)
    BY DEF ByWhole
  <2> HIDE DEF base
  <2> QED
    BY <2>1, <2>2, <2>3, <2>4 DEF Matching
<1>3. \A s \in A, k \in D : MatchTurn(s, ids[k], top) \in A
  BY TurnKeeps
<1>4. IsFiniteSet(D) /\ Step \in [A \X D -> A]
  <2>1. IsFiniteSet(D)
    BY FS_Interval
  <2> HIDE DEF A
  <2> QED
    BY <1>3, <2>1
<1>5. PICK h : Recursion(D, A, base, pick, Step, h)
  <2> HIDE DEF A, D, base, pick, Step
  <2> QED
    BY <1>1, <1>2, <1>4, RecursionDefined
<1>6. IsFold(h)
  <2>1. ASSUME NEW s \in SUBSET D, s # {}
        PROVE  h[s] = MatchTurn(h[s \ {Max(s)}], ids[Max(s)], top)
    <3>1. h[s \ {pick[s]}] \in A /\ pick[s] \in D /\ pick[s] = Max(s)
      BY <1>1, <1>5, <2>1 DEF Recursion
    <3>2. h[s] = Step[<< h[s \ {pick[s]}], pick[s] >>]
      BY <1>5, <2>1 DEF Recursion
    <3> HIDE DEF A, D, pick
    <3> QED
      BY <3>1, <3>2
  <2>2. h \in [SUBSET D -> A] /\ h[{}] = base
    BY <1>5 DEF Recursion
  <2> HIDE DEF A, D, base
  <2> QED
    BY <2>1, <2>2
<1>7. PICK g : IsFold(g) /\ Matched(top, ids) = g[D]
  <2>1. IsFold(CHOOSE g : IsFold(g))
    BY <1>6
  <2>2. Matched(top, ids) = (CHOOSE g : IsFold(g))[D]
    BY DEF Matched, FoldLeft, MapThenFoldSet
  <2> QED
    BY <2>1, <2>2
<1>8. \A s \in SUBSET D : g[s] \in A
  <2>1. g[{}] \in A
    BY <1>2, <1>7
  <2>2. ASSUME NEW s \in SUBSET D, s # {}, g[s \ {pick[s]}] \in A
        PROVE  g[s] \in A
    <3>1. g[s] = MatchTurn(g[s \ {pick[s]}], ids[pick[s]], top)
      BY <1>1, <1>7, <2>2
    <3>2. pick[s] \in D
      BY <1>1, <2>2
    <3> HIDE DEF A, D, pick, IsFold
    <3> QED
      BY <1>3, <2>2, <3>1, <3>2
  <2> HIDE DEF A, D, pick, IsFold
  <2> QED
    BY <1>1, <1>4, <2>1, <2>2, FoldStays
<1> QED
  BY <1>7, <1>8

(***************************************************************************)
(* The steps of the runtime                                                *)
(***************************************************************************)

LEMMA InitHolds == Init => IInv
<1> SUFFICES ASSUME Init
             PROVE  IInv
  OBVIOUS
<1>1. Books(NoOrders)
  BY DEF Books, NoOrders
<1>2. RiskOK(FreshRisk)
  BY RuntimeAssumption DEF RiskOK, FreshRisk
<1>3. NoTop \in Tops /\ NoPortfolio \in Portfolios /\ RowsOK(<< >>)
  BY DEF Tops, NoTop, NoPrice, Portfolios, NoPortfolio, RowsOK
<1>4. SharedOK
  BY <1>1, <1>2, <1>3, RuntimeAssumption
  DEF Init, SharedOK, IdleThreads, NoJobs, AtBoot, NoneGone, Steps
<1>5. ASSUME NEW t \in Threads
      PROVE  JobOK(t)
  BY DEF JobOK, JobAt, Init, IdleThreads, NoJobs, NoJob, Ordered, Draining, Carrying
<1> QED
  BY <1>4, <1>5 DEF IInv

\* One thread goes on to a step with locals that fit it.
LEMMA ThreadMoves ==
  ASSUME IInv, NEW t \in Threads, NEW p \in Steps, NEW j, JobAt(p, j),
         pc' = [pc EXCEPT ![t] = p],
         job' = [job EXCEPT ![t] = j] \/ (job' = job /\ j = job[t])
  PROVE  /\ pc' \in [Threads -> Steps] /\ DOMAIN job' = Threads
         /\ \A u \in Threads : JobOK(u)'
<1>1. /\ pc \in [Threads -> Steps] /\ DOMAIN job = Threads
      /\ \A u \in Threads : JobAt(pc[u], job[u])
  BY DEF IInv, SharedOK, JobOK
<1>2. pc' \in [Threads -> Steps] /\ DOMAIN job' = Threads
  BY <1>1
<1>3. ASSUME NEW u \in Threads
      PROVE  JobAt(pc'[u], job'[u])
  <2>1. CASE u = t
    <3>1. pc'[u] = p /\ job'[u] = j
      BY <1>1, <2>1
    <3> QED
      BY <3>1
  <2>2. CASE u # t
    <3>1. pc'[u] = pc[u] /\ job'[u] = job[u]
      BY <1>1, <2>2
    <3> QED
      BY <1>1, <3>1
  <2> QED
    BY <2>1, <2>2
<1> QED
  BY <1>2, <1>3 DEF JobOK

LEMMA BootSeedKeeps == IInv /\ BootSeed => IInv'
<1> SUFFICES ASSUME IInv, BootSeed
             PROVE  IInv'
  OBVIOUS
<1>1. cash' \in Portfolios
  <2>1. cash \in Portfolios /\ RowsOK(db.balances) /\ SeedQuote \in Int
    BY RuntimeAssumption DEF IInv, SharedOK
  <2>2. [cash EXCEPT !.quote = SeedQuote] \in Portfolios
    BY <2>1 DEF Portfolios
  <2>3. Over(db.balances, cash) \in Portfolios
    <3> DEFINE c == Over(db.balances, cash)
    <3> SUFFICES c \in Portfolios
      OBVIOUS
    <3>1. /\ cash = [quote |-> cash.quote, base |-> cash.base, fees |-> cash.fees]
          /\ cash.quote \in Int /\ cash.base \in Int /\ cash.fees \in Nat
      BY <2>1 DEF Portfolios
    <3>2. DOMAIN c = { "quote", "base", "fees" } /\ c = [f \in DOMAIN c |-> c[f]]
      BY <2>1, <3>1 DEF Over, RowsOK
    <3>3. c["quote"] \in Int /\ c["base"] \in Int /\ c["fees"] \in Nat
      BY <2>1, <3>1 DEF Over, RowsOK
    <3> HIDE DEF c
    <3>4. c = [quote |-> c["quote"], base |-> c["base"], fees |-> c["fees"]]
      BY <3>2
    <3>5. [quote |-> c["quote"], base |-> c["base"], fees |-> c["fees"]] \in Portfolios
      BY <3>3 DEF Portfolios
    <3> QED
      BY <3>4, <3>5
  <2> QED
    BY <2>2, <2>3 DEF BootSeed
<1>2. SharedOK'
  BY <1>1 DEF IInv, SharedOK, BootSeed, engine, limbs, errors
<1>3. \A t \in Threads : JobOK(t)'
  BY DEF IInv, JobOK, BootSeed, limbs
<1> QED
  BY <1>2, <1>3 DEF IInv

LEMMA BootLoadKeeps == IInv /\ BootLoad => IInv'
<1> SUFFICES ASSUME IInv, BootLoad
             PROVE  IInv'
  OBVIOUS
<1>1. /\ Books(boot'.loaded) /\ boot'.step = "restore"
      /\ DOMAIN boot' = { "step", "loaded" }
  BY DEF IInv, SharedOK, BootLoad, Books, Open
<1>2. SharedOK'
  BY <1>1 DEF IInv, SharedOK, BootLoad, engine, limbs, errors
<1>3. \A t \in Threads : JobOK(t)'
  BY DEF IInv, JobOK, BootLoad, limbs
<1> QED
  BY <1>2, <1>3 DEF IInv

LEMMA OverBooks ==
  ASSUME NEW p, NEW q, Books(p), Books(q)
  PROVE  Books(Over(p, q)) /\ DOMAIN Over(p, q) = DOMAIN p \cup DOMAIN q
  BY DEF Books, Over

LEMMA PutBooks ==
  ASSUME NEW p, Books(p), NEW id \in OrderIds, NEW o \in OrderRecords
  PROVE  Books(Put(p, id, o))
  BY DEF Books, Put

\* A finite set can be numbered.
LEMMA SetNumbered ==
  ASSUME NEW S, IsFiniteSet(S), NEW q, q = SetToSeq(S)
  PROVE  \E n \in Nat :
           /\ DOMAIN q = 1..n /\ \A k \in 1..n : q[k] \in S
           /\ \A x \in S : \E k \in 1..n : q[k] = x
           /\ \A k \in 1..n, l \in 1..n : q[k] = q[l] => k = l
<1> DEFINE n == Cardinality(S)
<1>1. n \in Nat /\ \E f : f \in Bijection(1..n, S)
  BY FS_CardinalityType DEF ExistsBijection
<1>2. \E f \in [1..n -> S] : IsInjective(f)
  BY <1>1 DEF Bijection, Injection, IsInjective
<1>3. q \in [1..n -> S] /\ IsInjective(q)
  BY <1>2 DEF SetToSeq
<1>4. q \in Injection(1..n, S)
  BY <1>3 DEF Injection, IsInjective
<1>5. Cardinality(1..n) = n
  BY <1>1, FS_Interval
<1>6. q \in Surjection(1..n, S)
  BY <1>4, <1>5, FS_Injection
<1>7. \A x \in S : \E k \in 1..n : q[k] = x
  BY <1>6 DEF Surjection
<1>8. \A k \in 1..n, l \in 1..n : q[k] = q[l] => k = l
  <2>1. DOMAIN q = 1..n
    BY <1>3
  <2> QED
    BY <1>3, <2>1 DEF IsInjective
<1> HIDE DEF n
<1> QED
  BY <1>1, <1>3, <1>7, <1>8

LEMMA BootRestoreKeeps == IInv /\ BootRestore => IInv'
<1> SUFFICES ASSUME IInv, BootRestore
             PROVE  IInv'
  OBVIOUS
<1> DEFINE loaded == boot.loaded
           active == { id \in DOMAIN loaded : IsActive(loaded[id].status) }
<1>1. Books(loaded) /\ Books(Restrict(loaded, active)) /\ Books(venue) /\ Books(oms)
  BY DEF IInv, SharedOK, Books, Restrict
<1>2. Books(venue') /\ Books(oms')
  <2> HIDE DEF active
  <2> QED
    BY <1>1, OverBooks DEF BootRestore, active
<1>3. RiskOK(risk')
  <2>1. active \in SUBSET OrderIds /\ IsFiniteSet(active)
    <3>1. active \in SUBSET OrderIds
      BY <1>1 DEF Books
    <3> QED
      BY <3>1, RuntimeAssumption, FS_Subset
  <2>2. PICK n \in Nat : /\ DOMAIN SetToSeq(active) = 1..n
                         /\ \A k \in 1..n : SetToSeq(active)[k] \in active
    BY <2>1, SetNumbered
  <2>3. \A id \in active : OrderNotional(loaded[id], RefPrice) \in Int
    <3>1. RefPrice \in Int
      BY DEF IInv, SharedOK, Tops, RefPrice
    <3>2. \A id \in active : loaded[id] \in OrderRecords
      BY <1>1 DEF Books
    <3>3. \A id \in active : loaded[id].price \in Int /\ loaded[id].quantity \in Int
      BY <3>2, OrderFields
    <3> QED
      BY <3>1, <3>3 DEF OrderNotional
  <2>4. risk' = Rebooked(risk, loaded, SetToSeq(active))
    BY DEF BootRestore, Rebooked
  <2>5. RiskOK(risk)
    BY DEF IInv, SharedOK
  <2> HIDE DEF active, loaded
  <2> QED
    BY <2>2, <2>3, <2>4, <2>5, RebookedOK
<1>4. /\ Books(boot'.loaded) /\ boot'.step = "done"
      /\ DOMAIN boot' = { "step", "loaded" }
  BY DEF BootRestore, Books, NoOrders
<1>5. SharedOK'
  BY <1>2, <1>3, <1>4 DEF IInv, SharedOK, BootRestore, limbs, errors
<1>6. \A t \in Threads : JobOK(t)'
  BY DEF IInv, JobOK, BootRestore, limbs
<1> QED
  BY <1>5, <1>6 DEF IInv

\* What a call has in hand at the step it stands at.
LEMMA JobOf ==
  ASSUME IInv, NEW t \in Threads
  PROVE  /\ JobAt(pc[t], job[t]) /\ pc[t] \in Steps /\ DOMAIN job = Threads
         /\ pc \in [Threads -> Steps]
  BY DEF IInv, SharedOK, JobOK

LEMMA ReadMarketKeeps ==
  ASSUME IInv, NEW t \in Threads, NEW id \in OrderIds, ReadMarket(t, id)
  PROVE  IInv'
<1> DEFINE j == [ kind |-> IF TickDone(t) THEN "turn" ELSE "intent", id |-> id,
                  ref |-> RefPrice, age |-> IF market = NoTop THEN NoAge ELSE 0 ]
<1>1. RefPrice \in Nat
  BY DEF IInv, SharedOK, Tops, RefPrice
<1>2. JobAt("check", j)
  BY <1>1 DEF JobAt, Asked, Ordered, Draining, Carrying, NoAge
<1>3. job' = [job EXCEPT ![t] = j] /\ pc' = [pc EXCEPT ![t] = "check"] /\ "check" \in Steps
  BY DEF ReadMarket, Goto, Steps
<1> HIDE DEF j
<1>4. /\ pc' \in [Threads -> Steps] /\ DOMAIN job' = Threads
      /\ \A u \in Threads : JobOK(u)'
  BY <1>2, <1>3, ThreadMoves
<1>5. used' \subseteq OrderIds
  BY DEF IInv, SharedOK, ReadMarket
<1>6. SharedOK'
  BY <1>4, <1>5 DEF IInv, SharedOK, ReadMarket, engine, errors
<1> QED
  BY <1>4, <1>6 DEF IInv

LEMMA SubmitKeeps ==
  ASSUME IInv, NEW t \in Threads, Submit(t)
  PROVE  IInv'
<1> DEFINE id == job[t].id
           asked == IntentOf(id)
           facts == MarketOf(job[t])
           approved == Approves(Informed(risk), asked, facts, 0)
           placing == [ kind |-> job[t].kind, id |-> id, notional |-> Notional(asked, facts) ]
           after == IF job[t].kind = "turn" THEN "copy" ELSE "idle"
<1>1. Asked(job[t]) /\ job[t].ref \in Nat /\ id \in OrderIds
  BY JobOf DEF JobAt, Submit, Asked
<1>2. /\ asked.strategy = "oneshot" /\ asked.account = "paper_acc"
      /\ Notional(asked, facts) \in Nat
  <2>1. /\ Request[id].price \in Nat /\ Request[id].quantity \in Nat
        /\ Request[id] \in OrderRecords
    BY <1>1, SentType
  <2>2. PricedAt(asked, facts) \in Nat /\ asked.quantity \in Nat
    BY <1>1, <2>1 DEF PricedAt, IntentOf, MarketOf
  <2>3. \A a \in Nat, b \in Nat : a * b \in Nat
    OBVIOUS
  <2> QED
    BY <2>2, <2>3 DEF Notional, IntentOf
<1>3. RiskOK(risk')
  <2>1. RiskOK(Informed(risk))
    BY InformedOK DEF IInv, SharedOK
  <2>2. risk' = AfterCheck(Informed(risk), asked, facts, 0)
    BY DEF Submit
  <2>3. Notional(asked, facts) \in Int
    BY <1>2
  <2> HIDE DEF asked, facts
  <2> QED
    BY <1>2, <2>1, <2>2, <2>3, CheckOK
<1>4. CASE approved
  <2>1. Books(oms')
    <3>1. oms' = Put(oms, id, Request[id])
      BY <1>4 DEF Submit
    <3>2. Books(oms) /\ Request[id] \in OrderRecords
      BY <1>1, SentType DEF IInv, SharedOK
    <3> HIDE DEF id
    <3> QED
      BY <1>1, <3>1, <3>2, PutBooks
  <2>2. JobAt("place", placing)
    <3> HIDE DEF id, asked, facts
    <3> QED
      BY <1>1, <1>2 DEF JobAt, Asked, Ordered, Draining, Carrying
  <2>3. job' = [job EXCEPT ![t] = placing] /\ pc' = [pc EXCEPT ![t] = "place"]
    BY <1>4 DEF Submit, Goto
  <2>4. "place" \in Steps
    BY DEF Steps
  <2> HIDE DEF placing
  <2>5. /\ pc' \in [Threads -> Steps] /\ DOMAIN job' = Threads
        /\ \A u \in Threads : JobOK(u)'
    BY <2>2, <2>3, <2>4, ThreadMoves
  <2>6. SharedOK'
    BY <1>3, <2>1, <2>5 DEF IInv, SharedOK, Submit, engine, meta, errors
  <2> QED
    BY <2>5, <2>6 DEF IInv
<1>5. CASE ~ approved
  <2>1. JobAt(after, NoJob) /\ after \in Steps
    BY DEF JobAt, NoJob, Ordered, Draining, Carrying, Steps
  <2>2. job' = [job EXCEPT ![t] = NoJob] /\ pc' = [pc EXCEPT ![t] = after] /\ oms' = oms
    BY <1>5 DEF Submit, AfterRefusal, Goto
  <2> HIDE DEF after
  <2>3. /\ pc' \in [Threads -> Steps] /\ DOMAIN job' = Threads
        /\ \A u \in Threads : JobOK(u)'
    BY <2>1, <2>2, ThreadMoves
  <2>4. SharedOK'
    BY <1>3, <2>2, <2>3 DEF IInv, SharedOK, Submit, engine, meta, errors
  <2> QED
    BY <2>3, <2>4 DEF IInv
<1> QED
  BY <1>4, <1>5

LEMMA PlaceKeeps ==
  ASSUME IInv, NEW t \in Threads, Place(t)
  PROVE  IInv'
<1> DEFINE id == job[t].id
           result == Placed(id, book)
           j == [ kind |-> job[t].kind, id |-> id, notional |-> job[t].notional,
                  placed |-> result.order ]
<1>1. Asked(job[t]) /\ job[t].notional \in Nat /\ id \in OrderIds
  BY JobOf DEF JobAt, Place, Asked
<1>2. /\ book \in Tops /\ Books(venue) /\ pending \in Seq(FillRecords)
  BY DEF IInv, SharedOK
<1>3. /\ result.order \in OrderRecords
      /\ \/ result.fills = << >>
         \/ \E f \in FillRecords : result.fills = << f >>
  <2> HIDE DEF id, result
  <2> QED
    BY <1>1, <1>2, PlacedType DEF result
<1>4. /\ venue' = Put(venue, id, result.order) /\ pending' = pending \o result.fills
      /\ job' = [job EXCEPT ![t] = j] /\ pc' = [pc EXCEPT ![t] = "upsert"]
  BY DEF Place, Goto
<1> HIDE DEF id, result
<1>5. Books(venue') /\ pending' \in Seq(FillRecords)
  <2>1. result.fills \in Seq(FillRecords)
    BY <1>3, FilledByEmpty, FilledByOne
  <2> QED
    BY <1>1, <1>2, <1>3, <1>4, <2>1, PutBooks, ConcatProperties
<1>6. JobAt("upsert", j) /\ "upsert" \in Steps
  BY <1>1, <1>3 DEF JobAt, Asked, HasOrder, Ordered, Draining, Carrying, Steps
<1> HIDE DEF j
<1>7. /\ pc' \in [Threads -> Steps] /\ DOMAIN job' = Threads
      /\ \A u \in Threads : JobOK(u)'
  BY <1>4, <1>6, ThreadMoves
<1>8. SharedOK'
  BY <1>5, <1>7 DEF IInv, SharedOK, Place, meta, errors
<1> QED
  BY <1>7, <1>8 DEF IInv

\* A call that has placed its order goes on with the same locals.
LEMMA OrderedCall ==
  ASSUME IInv, NEW t \in Threads, pc[t] \in { "upsert", "save", "finish" }
  PROVE  /\ HasOrder(job[t]) /\ job[t].id \in OrderIds /\ job[t].placed \in OrderRecords
         /\ job[t].notional \in Nat /\ job[t].kind \in { "intent", "turn" }
         /\ \A p \in { "save", "drain", "finish" } : JobAt(p, job[t]) /\ p \in Steps
<1>1. HasOrder(job[t])
  BY JobOf DEF JobAt, Ordered, Draining, Carrying
<1> QED
  BY <1>1 DEF JobAt, HasOrder, Asked, Ordered, Draining, Carrying, Steps

LEMMA UpsertPlacedKeeps ==
  ASSUME IInv, NEW t \in Threads, UpsertPlaced(t)
  PROVE  IInv'
<1>1. /\ job[t].id \in OrderIds /\ job[t].placed \in OrderRecords
      /\ JobAt("save", job[t]) /\ "save" \in Steps
  BY OrderedCall DEF UpsertPlaced
<1>2. /\ oms' = Put(oms, job[t].id, job[t].placed) /\ pc' = [pc EXCEPT ![t] = "save"]
      /\ job' = job
  BY DEF UpsertPlaced, Goto
<1>3. Books(oms')
  BY <1>1, <1>2, PutBooks DEF IInv, SharedOK
<1>4. /\ pc' \in [Threads -> Steps] /\ DOMAIN job' = Threads
      /\ \A u \in Threads : JobOK(u)'
  BY <1>1, <1>2, ThreadMoves
<1>5. SharedOK'
  BY <1>3, <1>4 DEF IInv, SharedOK, UpsertPlaced, engine, meta, errors
<1> QED
  BY <1>4, <1>5 DEF IInv

LEMMA SavePlacedKeeps ==
  ASSUME IInv, NEW t \in Threads, SavePlaced(t)
  PROVE  IInv'
<1>1. /\ job[t].id \in OrderIds /\ job[t].placed \in OrderRecords
      /\ JobAt("drain", job[t]) /\ "drain" \in Steps
  BY OrderedCall DEF SavePlaced
<1>2. /\ db' = [db EXCEPT !.orders = Put(db.orders, job[t].id, job[t].placed)]
      /\ pc' = [pc EXCEPT ![t] = "drain"] /\ job' = job
  BY DEF SavePlaced, Goto
<1>3. Books(Put(db.orders, job[t].id, job[t].placed))
  BY <1>1, PutBooks DEF IInv, SharedOK
<1>4. /\ pc' \in [Threads -> Steps] /\ DOMAIN job' = Threads
      /\ \A u \in Threads : JobOK(u)'
  BY <1>1, <1>2, ThreadMoves
<1>5. SharedOK'
  BY <1>2, <1>3, <1>4 DEF IInv, SharedOK, SavePlaced, engine, meta, errors
<1> QED
  BY <1>4, <1>5 DEF IInv

LEMMA FinishKeeps ==
  ASSUME IInv, NEW t \in Threads, Finish(t)
  PROVE  IInv'
<1>1. job[t].notional \in Int /\ "kind" \in DOMAIN job[t]
  BY OrderedCall, JobOf DEF Finish, JobAt
<1>2. RiskOK(risk')
  BY <1>1, ReleaseOK DEF IInv, SharedOK, Finish
<1>3. JobAt("copy", job[t]) /\ "copy" \in Steps
  BY <1>1 DEF JobAt, Ordered, Draining, Carrying, Steps
<1>4. pc' = [pc EXCEPT ![t] = "copy"] /\ job' = job
  BY DEF Finish, Goto
<1>5. /\ pc' \in [Threads -> Steps] /\ DOMAIN job' = Threads
      /\ \A u \in Threads : JobOK(u)'
  BY <1>3, <1>4, ThreadMoves
<1>6. SharedOK'
  BY <1>2, <1>5 DEF IInv, SharedOK, Finish, engine, meta, errors
<1> QED
  BY <1>5, <1>6 DEF IInv

LEMMA TickMarketKeeps ==
  ASSUME IInv, NEW t \in Threads, NEW top \in Ticks, TickMarket(t, top)
  PROVE  IInv'
<1> DEFINE j == [kind |-> "tick", top |-> top]
<1>1. top \in Tops
  BY RuntimeAssumption
<1>2. JobAt("match", j) /\ "match" \in Steps
  BY <1>1 DEF JobAt, Ordered, Draining, Carrying, Steps
<1>3. job' = [job EXCEPT ![t] = j] /\ pc' = [pc EXCEPT ![t] = "match"] /\ market' = top
  BY DEF TickMarket, Goto
<1> HIDE DEF j
<1>4. /\ pc' \in [Threads -> Steps] /\ DOMAIN job' = Threads
      /\ \A u \in Threads : JobOK(u)'
  BY <1>2, <1>3, ThreadMoves
<1>5. SharedOK'
  BY <1>1, <1>3, <1>4 DEF IInv, SharedOK, TickMarket, engine, meta, errors
<1> QED
  BY <1>4, <1>5 DEF IInv

\* The engine's part of a tick: what the matching loop has made.
LEMMA TickMatched ==
  ASSUME IInv, NEW t \in Threads, TickEngine(t)
  PROVE  /\ job[t].top \in Tops /\ job[t].kind = "tick"
         /\ \E s \in Matching(venue) : venue' = s.orders /\ pending' = pending \o s.fills
<1> DEFINE top == job[t].top
           Resting == { id \in DOMAIN venue : Rests(venue[id]) }
<1>1. top \in Tops /\ job[t].kind = "tick"
  BY JobOf DEF JobAt, TickEngine
<1>2. Books(venue)
  BY DEF IInv, SharedOK
<1>3. IsFiniteSet(Resting)
  <2>1. Resting \in SUBSET OrderIds
    BY <1>2 DEF Books
  <2> QED
    BY <2>1, RuntimeAssumption, FS_Subset
<1>4. PICK ids \in SetToSeqs(Resting) :
        /\ venue' = Matched(top, ids).orders
        /\ pending' = pending \o Matched(top, ids).fills
  BY DEF TickEngine
<1>5. PICK n \in Nat : ids \in [1..n -> Resting]
  <2>1. Cardinality(Resting) \in Nat
    BY <1>3, FS_CardinalityType
  <2>2. ids \in [1..Cardinality(Resting) -> Resting]
    BY <1>4 DEF SetToSeqs
  <2> QED
    BY <2>1, <2>2
<1>6. DOMAIN ids = 1..n /\ \A k \in 1..n : ids[k] \in DOMAIN venue /\ Rests(venue[ids[k]])
  BY <1>5
<1> HIDE DEF top, Resting
<1>7. Matched(top, ids) \in Matching(venue)
  BY <1>1, <1>2, <1>6, MatchedKeeps
<1> QED
  BY <1>1, <1>4, <1>7 DEF top

LEMMA TickEngineKeeps ==
  ASSUME IInv, NEW t \in Threads, TickEngine(t)
  PROVE  IInv'
<1>1. job[t].top \in Tops /\ job[t].kind = "tick"
  BY TickMatched
<1>2. PICK s \in Matching(venue) : venue' = s.orders /\ pending' = pending \o s.fills
  BY TickMatched
<1>3. s.orders \in [DOMAIN venue -> OrderRecords] /\ s.fills \in Seq(FillRecords)
  BY DEF Matching
<1>4. Books(venue') /\ pending' \in Seq(FillRecords)
  <2>1. Books(venue) /\ pending \in Seq(FillRecords)
    BY DEF IInv, SharedOK
  <2>2. Books(venue')
    BY <1>2, <1>3, <2>1 DEF Books
  <2>3. pending' \in Seq(FillRecords)
    BY <1>2, <1>3, <2>1, ConcatProperties
  <2> QED
    BY <2>2, <2>3
<1>5. JobAt("drain", job[t]) /\ "drain" \in Steps
  BY <1>1, JobOf DEF JobAt, Ordered, Draining, Carrying, Steps
<1>6. book' = job[t].top /\ pc' = [pc EXCEPT ![t] = "drain"] /\ job' = job
  BY DEF TickEngine, Goto
<1>7. /\ pc' \in [Threads -> Steps] /\ DOMAIN job' = Threads
      /\ \A u \in Threads : JobOK(u)'
  BY <1>5, <1>6, ThreadMoves
<1>8. SharedOK'
  BY <1>1, <1>4, <1>6, <1>7 DEF IInv, SharedOK, TickEngine, meta, errors
<1> QED
  BY <1>7, <1>8 DEF IInv

LEMMA MissedTickKeeps ==
  ASSUME IInv, NEW t \in Threads, MissedTick(t)
  PROVE  IInv'
<1>1. JobAt("copy", job[t]) /\ "copy" \in Steps
  BY JobOf DEF JobAt, Ordered, Draining, Carrying, Steps
<1>2. pc' = [pc EXCEPT ![t] = "copy"] /\ job' = job
  BY DEF MissedTick, Goto
<1>3. /\ pc' \in [Threads -> Steps] /\ DOMAIN job' = Threads
      /\ \A u \in Threads : JobOK(u)'
  BY <1>1, <1>2, ThreadMoves
<1>4. SharedOK'
  BY <1>3 DEF IInv, SharedOK, MissedTick, engine, meta, errors
<1> QED
  BY <1>3, <1>4 DEF IInv

LEMMA TakeFillsKeeps ==
  ASSUME IInv, NEW t \in Threads, TakeFills(t)
  PROVE  IInv'
<1> DEFINE j == Put(job[t], "todo", pending)
           p == IF pending = << >> THEN AfterDrain(t) ELSE "apply"
<1>1. /\ "kind" \in DOMAIN job[t] /\ (HasOrder(job[t]) \/ job[t].kind = "tick")
  BY JobOf DEF JobAt, TakeFills, Ordered, Draining, Carrying
<1>2. pending \in Seq(FillRecords)
  BY DEF IInv, SharedOK
<1>3. /\ DOMAIN j = DOMAIN job[t] \cup { "todo" } /\ j.todo = pending
      /\ \A f \in { "kind", "id", "notional", "placed" } :
           /\ f \in DOMAIN job[t] => f \in DOMAIN j /\ j[f] = job[t][f]
  BY DEF Put
<1>4. JobAt(p, j) /\ p \in Steps
  <2> HIDE DEF j
  <2>1. CASE pending = << >>
    <3>1. JobAt(AfterDrain(t), j) /\ AfterDrain(t) \in Steps
      <4>1. CASE job[t].kind = "tick"
        BY <1>1, <1>3, <4>1 DEF AfterDrain, JobAt, Ordered, Draining, Carrying, Steps
      <4>2. CASE job[t].kind # "tick"
        BY <1>1, <1>3, <4>2 DEF AfterDrain, JobAt, HasOrder, Asked, Ordered, Draining,
                                Carrying, Steps
      <4> QED
        BY <4>1, <4>2
    <3> QED
      BY <2>1, <3>1
  <2>2. CASE pending # << >>
    BY <1>1, <1>2, <1>3, <2>2 DEF JobAt, HasOrder, Asked, Ordered, Draining, Carrying, Steps
  <2> QED
    BY <2>1, <2>2
<1>5. job' = [job EXCEPT ![t] = j] /\ pc' = [pc EXCEPT ![t] = p] /\ pending' = << >>
  BY DEF TakeFills, Goto
<1> HIDE DEF j, p
<1>6. /\ pc' \in [Threads -> Steps] /\ DOMAIN job' = Threads
      /\ \A u \in Threads : JobOK(u)'
  BY <1>4, <1>5, ThreadMoves
<1>7. << >> \in Seq(FillRecords)
  OBVIOUS
<1>8. SharedOK'
  BY <1>5, <1>6, <1>7 DEF IInv, SharedOK, TakeFills, meta, errors
<1> QED
  BY <1>6, <1>8 DEF IInv

\* What a fill does to the money: a buyer that can pay keeps a balance that is
\* not negative, and so does a seller that has what it sells, as no fee is more
\* than the notional it is charged on.
LEMMA FillPaid ==
  ASSUME NEW b \in Portfolios, NEW f \in FillRecords
  PROVE  /\ QuoteValue(f) \in Nat /\ FeeOf(f) \in Nat /\ FeeOf(f) <= QuoteValue(f)
         /\ AfterSpotFill(b, f) \in Portfolios
         /\ Affordable(b, f) /\ b.quote >= 0 /\ b.base >= 0 =>
              AfterSpotFill(b, f).quote >= 0 /\ AfterSpotFill(b, f).base >= 0
<1> DEFINE share == IF f.is_maker THEN MakerFee ELSE TakerFee
           worth == f.price * f.quantity
<1>1. /\ share \in Nat /\ share <= FeeScale /\ FeeScale \in Nat
      /\ f.price \in Nat /\ f.quantity \in Nat /\ f.side \in { "buy", "sell" }
  BY FeeAssumption DEF FillRecords, Sides
<1>2. /\ \A x \in Nat, y \in Nat : x * y \in Nat
      /\ \A x \in Nat, y \in Nat, z \in Nat : y <= z => x * y <= x * z
  OBVIOUS
<1>3. worth \in Nat
  BY <1>1, <1>2
<1>4. QuoteValue(f) = worth * FeeScale /\ FeeOf(f) = worth * share
  BY DEF QuoteValue, FeeOf
<1> HIDE DEF share, worth
<1>5. QuoteValue(f) \in Nat /\ FeeOf(f) \in Nat /\ FeeOf(f) <= QuoteValue(f)
  BY <1>1, <1>2, <1>3, <1>4
<1>6. b.quote \in Int /\ b.base \in Int /\ b.fees \in Nat
  BY DEF Portfolios
<1>7. AfterSpotFill(b, f) \in Portfolios
  BY <1>1, <1>5, <1>6 DEF AfterSpotFill, Portfolios
<1>8. Affordable(b, f) /\ b.quote >= 0 /\ b.base >= 0 =>
        AfterSpotFill(b, f).quote >= 0 /\ AfterSpotFill(b, f).base >= 0
  BY <1>1, <1>5, <1>6 DEF AfterSpotFill, Affordable
<1> QED
  BY <1>5, <1>7, <1>8

\* A call that has fills in hand.
LEMMA CarryingCall ==
  ASSUME IInv, NEW t \in Threads, pc[t] \in Carrying
  PROVE  /\ job[t].todo \in Seq(FillRecords) /\ job[t].todo # << >>
         /\ TheFill(t) \in FillRecords /\ TheFill(t).order \in OrderIds
         /\ Tail(job[t].todo) \in Seq(FillRecords)
         /\ { "kind", "todo" } \subseteq DOMAIN job[t]
         /\ HasOrder(job[t]) \/ job[t].kind = "tick"
         /\ \A p \in { "save_fill", "query", "next" } : JobAt(p, job[t]) /\ p \in Steps
<1>1. /\ { "kind", "todo" } \subseteq DOMAIN job[t]
      /\ HasOrder(job[t]) \/ job[t].kind = "tick"
      /\ job[t].todo \in Seq(FillRecords) /\ job[t].todo # << >>
  BY JobOf DEF JobAt, Ordered, Draining
<1>2. TheFill(t) \in FillRecords /\ Tail(job[t].todo) \in Seq(FillRecords)
  BY <1>1, HeadTailProperties DEF TheFill
<1>3. \A p \in { "save_fill", "query", "next" } : JobAt(p, job[t]) /\ p \in Steps
  BY <1>1 DEF JobAt, Ordered, Draining, Carrying, Steps
<1> QED
  BY <1>1, <1>2, <1>3 DEF FillRecords

LEMMA GivenUp ==
  ASSUME IInv, NEW t \in Threads, GiveUp(t)
  PROVE  /\ pc' \in [Threads -> Steps] /\ DOMAIN job' = Threads
         /\ \A u \in Threads : JobOK(u)'
<1> DEFINE p == IF job[t].kind = "intent" THEN "idle" ELSE "copy"
<1>1. JobAt(p, NoJob) /\ p \in Steps
  BY DEF JobAt, NoJob, Ordered, Draining, Carrying, Steps
<1>2. job' = [job EXCEPT ![t] = NoJob] /\ pc' = [pc EXCEPT ![t] = p]
  BY DEF GiveUp, Goto
<1> HIDE DEF p
<1> QED
  BY <1>1, <1>2, ThreadMoves

LEMMA ApplyToPortfolioKeeps ==
  ASSUME IInv, NEW t \in Threads, ApplyToPortfolio(t)
  PROVE  IInv'
<1>1. /\ TheFill(t) \in FillRecords /\ job[t].todo \in Seq(FillRecords)
      /\ JobAt("save_fill", job[t]) /\ "save_fill" \in Steps
  BY CarryingCall DEF ApplyToPortfolio, Carrying
<1>2. cash \in Portfolios /\ gone.lost \in Seq(FillRecords) /\ DOMAIN gone = { "lost", "unsaved" }
  BY DEF IInv, SharedOK
<1>3. CASE Affordable(cash, TheFill(t))
  <2>1. /\ cash' = AfterSpotFill(cash, TheFill(t)) /\ pc' = [pc EXCEPT ![t] = "save_fill"]
        /\ job' = job /\ gone' = gone
    BY <1>3 DEF ApplyToPortfolio, Goto
  <2>2. cash' \in Portfolios
    BY <1>1, <1>2, <2>1, FillPaid
  <2>3. /\ pc' \in [Threads -> Steps] /\ DOMAIN job' = Threads
        /\ \A u \in Threads : JobOK(u)'
    BY <1>1, <2>1, ThreadMoves
  <2>4. SharedOK'
    BY <2>1, <2>2, <2>3 DEF IInv, SharedOK, ApplyToPortfolio, engine
  <2> QED
    BY <2>3, <2>4 DEF IInv
<1>4. CASE ~ Affordable(cash, TheFill(t))
  <2>1. /\ gone' = [gone EXCEPT !.lost = gone.lost \o job[t].todo] /\ GiveUp(t)
        /\ cash' = cash
    BY <1>4 DEF ApplyToPortfolio
  <2>2. gone.lost \o job[t].todo \in Seq(FillRecords)
    BY <1>1, <1>2, ConcatProperties
  <2>3. /\ DOMAIN gone' = { "lost", "unsaved" } /\ gone'.lost \in Seq(FillRecords)
        /\ gone'.unsaved = gone.unsaved
    BY <1>2, <2>1, <2>2
  <2>4. /\ pc' \in [Threads -> Steps] /\ DOMAIN job' = Threads
        /\ \A u \in Threads : JobOK(u)'
    BY <2>1, GivenUp
  <2>5. SharedOK'
    BY <2>1, <2>3, <2>4 DEF IInv, SharedOK, ApplyToPortfolio, engine
  <2> QED
    BY <2>4, <2>5 DEF IInv
<1> QED
  BY <1>3, <1>4

LEMMA SaveFillKeeps ==
  ASSUME IInv, NEW t \in Threads, SaveFill(t)
  PROVE  IInv'
<1>1. TheFill(t) \in FillRecords /\ JobAt("query", job[t]) /\ "query" \in Steps
  BY CarryingCall DEF SaveFill, Carrying
<1>2. /\ db' = [db EXCEPT !.fills = Append(db.fills, TheFill(t))]
      /\ pc' = [pc EXCEPT ![t] = "query"] /\ job' = job
  BY DEF SaveFill, Goto
<1>3. Append(db.fills, TheFill(t)) \in Seq(FillRecords)
  BY <1>1, AppendProperties DEF IInv, SharedOK
<1>4. /\ pc' \in [Threads -> Steps] /\ DOMAIN job' = Threads
      /\ \A u \in Threads : JobOK(u)'
  BY <1>1, <1>2, ThreadMoves
<1>5. SharedOK'
  BY <1>2, <1>3, <1>4 DEF IInv, SharedOK, SaveFill, engine, meta, errors
<1> QED
  BY <1>4, <1>5 DEF IInv

LEMMA QueryOrderKeeps ==
  ASSUME IInv, NEW t \in Threads, QueryOrder(t)
  PROVE  IInv'
<1>1. /\ JobAt("next", job[t]) /\ "next" \in Steps
      /\ job[t].todo \in Seq(FillRecords) /\ job[t].todo # << >>
      /\ { "kind", "todo" } \subseteq DOMAIN job[t]
      /\ HasOrder(job[t]) \/ job[t].kind = "tick"
  BY CarryingCall DEF QueryOrder, Carrying
<1>2. /\ pc' \in [Threads -> Steps] /\ DOMAIN job' = Threads
      /\ \A u \in Threads : JobOK(u)'
  <2>1. CASE TheFill(t).order \in DOMAIN venue
    <3> DEFINE o == venue[TheFill(t).order]
               j == Put(job[t], "seen", o)
    <3>1. o \in OrderRecords
      BY <2>1 DEF IInv, SharedOK, Books
    <3>2. /\ DOMAIN j = DOMAIN job[t] \cup { "seen" } /\ j.seen = o
          /\ \A f \in { "kind", "id", "notional", "placed", "todo" } :
               f \in DOMAIN job[t] => f \in DOMAIN j /\ j[f] = job[t][f]
      BY DEF Put
    <3>3. job' = [job EXCEPT ![t] = j] /\ pc' = [pc EXCEPT ![t] = "reflect"]
      BY <2>1 DEF QueryOrder, Goto
    <3> HIDE DEF o, j
    <3>4. JobAt("reflect", j) /\ "reflect" \in Steps
      BY <1>1, <3>1, <3>2 DEF JobAt, HasOrder, Asked, Ordered, Draining, Carrying, Steps
    <3> QED
      BY <3>3, <3>4, ThreadMoves
  <2>2. CASE TheFill(t).order \notin DOMAIN venue
    <3>1. job' = job /\ pc' = [pc EXCEPT ![t] = "next"]
      BY <2>2 DEF QueryOrder, Goto
    <3> QED
      BY <1>1, <3>1, ThreadMoves
  <2> QED
    BY <2>1, <2>2
<1>3. SharedOK'
  BY <1>2 DEF IInv, SharedOK, QueryOrder, engine, meta, errors
<1> QED
  BY <1>2, <1>3 DEF IInv

\* A call that has asked the engine for the order of its fill.
LEMMA SeeingCall ==
  ASSUME IInv, NEW t \in Threads, pc[t] \in { "reflect", "release", "save_seen" }
  PROVE  /\ job[t].seen \in OrderRecords
         /\ TheFill(t) \in FillRecords /\ TheFill(t).order \in OrderIds
         /\ \A p \in { "release", "save_seen", "next" } : JobAt(p, job[t]) /\ p \in Steps
<1>1. job[t].seen \in OrderRecords
  BY JobOf DEF JobAt
<1>2. /\ TheFill(t) \in FillRecords /\ TheFill(t).order \in OrderIds
      /\ job[t].todo \in Seq(FillRecords) /\ job[t].todo # << >>
      /\ { "kind", "todo" } \subseteq DOMAIN job[t]
      /\ HasOrder(job[t]) \/ job[t].kind = "tick"
  BY CarryingCall DEF Carrying
<1>3. \A p \in { "release", "save_seen", "next" } : JobAt(p, job[t]) /\ p \in Steps
  BY <1>1, <1>2 DEF JobAt, Ordered, Draining, Carrying, Steps
<1> QED
  BY <1>1, <1>2, <1>3

LEMMA ReflectInOmsKeeps ==
  ASSUME IInv, NEW t \in Threads, ReflectInOms(t)
  PROVE  IInv'
<1>1. /\ TheFill(t).order \in OrderIds /\ job[t].seen \in OrderRecords
      /\ JobAt("release", job[t]) /\ "release" \in Steps
  BY SeeingCall DEF ReflectInOms
<1>2. /\ oms' = Put(oms, TheFill(t).order, job[t].seen)
      /\ pc' = [pc EXCEPT ![t] = "release"] /\ job' = job
  BY DEF ReflectInOms, Goto
<1>3. Books(oms')
  BY <1>1, <1>2, PutBooks DEF IInv, SharedOK
<1>4. /\ pc' \in [Threads -> Steps] /\ DOMAIN job' = Threads
      /\ \A u \in Threads : JobOK(u)'
  BY <1>1, <1>2, ThreadMoves
<1>5. SharedOK'
  BY <1>3, <1>4 DEF IInv, SharedOK, ReflectInOms, engine, meta, errors
<1> QED
  BY <1>4, <1>5 DEF IInv

LEMMA ReleaseFilledKeeps ==
  ASSUME IInv, NEW t \in Threads, ReleaseFilled(t)
  PROVE  IInv'
<1>1. /\ TheFill(t) \in FillRecords /\ job[t].seen \in OrderRecords
      /\ JobAt("save_seen", job[t]) /\ "save_seen" \in Steps
  BY SeeingCall DEF ReleaseFilled
<1>2. OrderNotional(job[t].seen, TheFill(t).price) \in Int
  <2>1. /\ job[t].seen.price \in Int /\ job[t].seen.quantity \in Int
        /\ TheFill(t).price \in Int
    BY <1>1, OrderFields DEF FillRecords
  <2> QED
    BY <2>1 DEF OrderNotional
<1>3. RiskOK(risk')
  BY <1>2, ReleaseOK DEF IInv, SharedOK, ReleaseFilled
<1>4. pc' = [pc EXCEPT ![t] = "save_seen"] /\ job' = job
  BY DEF ReleaseFilled, Goto
<1>5. /\ pc' \in [Threads -> Steps] /\ DOMAIN job' = Threads
      /\ \A u \in Threads : JobOK(u)'
  BY <1>1, <1>4, ThreadMoves
<1>6. SharedOK'
  BY <1>3, <1>5 DEF IInv, SharedOK, ReleaseFilled, engine, meta, errors
<1> QED
  BY <1>5, <1>6 DEF IInv

LEMMA SaveSeenKeeps ==
  ASSUME IInv, NEW t \in Threads, SaveSeen(t)
  PROVE  IInv'
<1>1. /\ TheFill(t).order \in OrderIds /\ job[t].seen \in OrderRecords
      /\ JobAt("next", job[t]) /\ "next" \in Steps
  BY SeeingCall DEF SaveSeen
<1>2. /\ db' = [db EXCEPT !.orders = Put(db.orders, TheFill(t).order, job[t].seen)]
      /\ pc' = [pc EXCEPT ![t] = "next"] /\ job' = job
  BY DEF SaveSeen, Goto
<1>3. Books(Put(db.orders, TheFill(t).order, job[t].seen))
  BY <1>1, PutBooks DEF IInv, SharedOK
<1>4. /\ pc' \in [Threads -> Steps] /\ DOMAIN job' = Threads
      /\ \A u \in Threads : JobOK(u)'
  BY <1>1, <1>2, ThreadMoves
<1>5. SharedOK'
  BY <1>2, <1>3, <1>4 DEF IInv, SharedOK, SaveSeen, engine, meta, errors
<1> QED
  BY <1>4, <1>5 DEF IInv

LEMMA NextFillKeeps ==
  ASSUME IInv, NEW t \in Threads, NextFill(t)
  PROVE  IInv'
<1> DEFINE rest == Tail(job[t].todo)
           j == [job[t] EXCEPT !.todo = rest]
           p == IF Len(job[t].todo) > 1 THEN "apply" ELSE AfterDrain(t)
<1>1. /\ { "kind", "todo" } \subseteq DOMAIN job[t]
      /\ HasOrder(job[t]) \/ job[t].kind = "tick"
      /\ job[t].todo \in Seq(FillRecords) /\ job[t].todo # << >>
      /\ rest \in Seq(FillRecords)
  BY CarryingCall DEF NextFill, Carrying
<1>2. Len(job[t].todo) > 1 => rest # << >>
  BY <1>1, AmountType, WeightTail
<1>3. job' = [job EXCEPT ![t] = j] /\ pc' = [pc EXCEPT ![t] = p]
  BY DEF NextFill, Goto
<1> HIDE DEF rest
<1>4. /\ DOMAIN j = DOMAIN job[t] /\ j.todo = rest
      /\ \A f \in { "kind", "id", "notional", "placed" } :
           f \in DOMAIN job[t] => f \in DOMAIN j /\ j[f] = job[t][f]
  BY <1>1
<1> HIDE DEF j
<1>5. JobAt(p, j) /\ p \in Steps
  <2>1. CASE Len(job[t].todo) > 1
    BY <1>1, <1>2, <1>4, <2>1
    DEF JobAt, HasOrder, Asked, Ordered, Draining, Carrying, Steps
  <2>2. CASE ~ (Len(job[t].todo) > 1) /\ job[t].kind = "tick"
    BY <1>1, <1>4, <2>2 DEF AfterDrain, JobAt, Ordered, Draining, Carrying, Steps
  <2>3. CASE ~ (Len(job[t].todo) > 1) /\ job[t].kind # "tick"
    BY <1>1, <1>4, <2>3
    DEF AfterDrain, JobAt, HasOrder, Asked, Ordered, Draining, Carrying, Steps
  <2> QED
    BY <2>1, <2>2, <2>3
<1> HIDE DEF p
<1>6. /\ pc' \in [Threads -> Steps] /\ DOMAIN job' = Threads
      /\ \A u \in Threads : JobOK(u)'
  BY <1>3, <1>5, ThreadMoves
<1>7. SharedOK'
  BY <1>6 DEF IInv, SharedOK, NextFill, engine, meta, errors
<1> QED
  BY <1>6, <1>7 DEF IInv

LEMMA CopyBalancesKeeps ==
  ASSUME IInv, NEW t \in Threads, CopyBalances(t)
  PROVE  IInv'
<1> DEFINE j == [kind |-> "persist", copy |-> Restrict(cash, Rows)]
<1>1. RowsOK(Restrict(cash, Rows))
  BY DEF IInv, SharedOK, Portfolios, RowsOK, Restrict, Rows
<1>2. JobAt("persist", j) /\ "persist" \in Steps
  BY <1>1 DEF JobAt, Ordered, Draining, Carrying, Steps
<1>3. job' = [job EXCEPT ![t] = j] /\ pc' = [pc EXCEPT ![t] = "persist"]
  BY DEF CopyBalances, Goto
<1>4. RiskOK(risk')
  BY InformedOK DEF IInv, SharedOK, CopyBalances
<1> HIDE DEF j
<1>5. /\ pc' \in [Threads -> Steps] /\ DOMAIN job' = Threads
      /\ \A u \in Threads : JobOK(u)'
  BY <1>2, <1>3, ThreadMoves
<1>6. SharedOK'
  BY <1>4, <1>5 DEF IInv, SharedOK, CopyBalances, engine, meta, errors
<1> QED
  BY <1>5, <1>6 DEF IInv

\* A thread that is through with its call.
LEMMA CallEnds ==
  ASSUME IInv, NEW t \in Threads, job' = [job EXCEPT ![t] = NoJob], Goto(t, "idle")
  PROVE  /\ pc' \in [Threads -> Steps] /\ DOMAIN job' = Threads
         /\ \A u \in Threads : JobOK(u)'
<1>1. JobAt("idle", NoJob) /\ "idle" \in Steps
  BY DEF JobAt, NoJob, Ordered, Draining, Carrying, Steps
<1> QED
  BY <1>1, ThreadMoves DEF Goto

\* Balances written over the stored ones, all rows or some.
LEMMA RowsWritten ==
  ASSUME IInv, NEW rows, RowsOK(rows), NEW d, d = WithBalances(rows)
  PROVE  /\ DOMAIN d = { "orders", "fills", "balances" }
         /\ d.orders = db.orders /\ d.fills = db.fills
         /\ d.balances = Over(rows, db.balances) /\ RowsOK(d.balances)
<1>1. DOMAIN db = { "orders", "fills", "balances" } /\ RowsOK(db.balances)
  BY DEF IInv, SharedOK
<1>2. RowsOK(Over(rows, db.balances))
  BY <1>1 DEF RowsOK, Over
<1> QED
  BY <1>1, <1>2 DEF WithBalances

LEMMA PartlyWrittenOK ==
  ASSUME IInv, NEW t \in Threads, NEW d \in PartlyWritten(t)
  PROVE  /\ DOMAIN d = { "orders", "fills", "balances" }
         /\ d.orders = db.orders /\ d.fills = db.fills /\ RowsOK(d.balances)
<1>1. CASE pc[t] # "persist"
  BY <1>1 DEF PartlyWritten, IInv, SharedOK
<1>2. CASE pc[t] = "persist"
  <2>1. PICK assets \in SUBSET DOMAIN job[t].copy :
          d = WithBalances(Restrict(job[t].copy, assets))
    BY <1>2 DEF PartlyWritten
  <2>2. RowsOK(job[t].copy)
    BY <1>2, JobOf DEF JobAt
  <2>3. RowsOK(Restrict(job[t].copy, assets))
    BY <2>2 DEF RowsOK, Restrict
  <2> QED
    BY <2>1, <2>3, RowsWritten
<1> QED
  BY <1>1, <1>2

LEMMA SaveBalancesKeeps ==
  ASSUME IInv, NEW t \in Threads, SaveBalances(t)
  PROVE  IInv'
<1>1. RowsOK(job[t].copy)
  BY JobOf DEF JobAt, SaveBalances
<1>2. /\ DOMAIN db' = { "orders", "fills", "balances" }
      /\ db'.orders = db.orders /\ db'.fills = db.fills /\ RowsOK(db'.balances)
  BY <1>1, RowsWritten DEF SaveBalances
<1>3. /\ pc' \in [Threads -> Steps] /\ DOMAIN job' = Threads
      /\ \A u \in Threads : JobOK(u)'
  BY CallEnds DEF SaveBalances
<1>4. SharedOK'
  BY <1>2, <1>3 DEF IInv, SharedOK, SaveBalances, engine, meta, errors
<1> QED
  BY <1>3, <1>4 DEF IInv

\* What a failing call drops is a sequence of fills.
LEMMA UnstoredType ==
  ASSUME IInv, NEW t \in Threads
  PROVE  Unstored(t) \in Seq(FillRecords)
<1>1. CASE pc[t] \in { "apply", "save_fill" }
  BY <1>1, CarryingCall DEF Unstored, Carrying
<1>2. CASE pc[t] \in { "query", "reflect", "release", "save_seen", "next" }
  BY <1>2, CarryingCall DEF Unstored, Carrying
<1>3. CASE pc[t] \notin Carrying
  <2>1. Unstored(t) = << >>
    BY <1>3 DEF Unstored, Carrying
  <2> QED
    BY <2>1, FilledByEmpty
<1> QED
  BY <1>1, <1>2, <1>3 DEF Carrying

LEMMA StoreFailsKeeps ==
  ASSUME IInv, NEW t \in Threads, StoreFails(t)
  PROVE  IInv'
<1>1. faults' \in 0..MaxFaults
  BY RuntimeAssumption DEF IInv, SharedOK, StoreFails
<1>2. gone.lost \in Seq(FillRecords) /\ gone.unsaved \in Seq(FillRecords)
      /\ DOMAIN gone = { "lost", "unsaved" }
  BY DEF IInv, SharedOK
<1>3. /\ DOMAIN gone' = { "lost", "unsaved" }
      /\ gone'.lost \in Seq(FillRecords) /\ gone'.unsaved \in Seq(FillRecords)
  <2>1. CASE gone' = gone
    BY <1>2, <2>1
  <2>2. CASE pc[t] = "save_fill" /\
             gone' = [ lost    |-> gone.lost \o Tail(job[t].todo),
                       unsaved |-> Append(gone.unsaved, TheFill(t)) ]
    <3>1. TheFill(t) \in FillRecords /\ Tail(job[t].todo) \in Seq(FillRecords)
      BY <2>2, CarryingCall DEF Carrying
    <3>2. /\ gone.lost \o Tail(job[t].todo) \in Seq(FillRecords)
          /\ Append(gone.unsaved, TheFill(t)) \in Seq(FillRecords)
      BY <1>2, <3>1, FilledByJoined, FilledByAppend
    <3> QED
      BY <2>2, <3>2
  <2>3. CASE gone' = [gone EXCEPT !.lost = gone.lost \o Unstored(t)]
    <3>1. gone.lost \o Unstored(t) \in Seq(FillRecords)
      BY <1>2, UnstoredType, FilledByJoined
    <3> QED
      BY <1>2, <2>3, <3>1
  <2> QED
    BY <2>1, <2>2, <2>3 DEF StoreFails
<1>4. /\ DOMAIN db' = { "orders", "fills", "balances" }
      /\ db'.orders = db.orders /\ db'.fills = db.fills /\ RowsOK(db'.balances)
  <2>1. db' = db \/ db' \in PartlyWritten(t)
    BY DEF StoreFails
  <2>2. /\ DOMAIN db = { "orders", "fills", "balances" } /\ RowsOK(db.balances)
    BY DEF IInv, SharedOK
  <2> QED
    BY <2>1, <2>2, PartlyWrittenOK
<1>5. /\ pc' \in [Threads -> Steps] /\ DOMAIN job' = Threads
      /\ \A u \in Threads : JobOK(u)'
  BY GivenUp, CallEnds DEF StoreFails
<1>6. SharedOK'
  BY <1>1, <1>3, <1>4, <1>5 DEF IInv, SharedOK, StoreFails, engine, errors
<1> QED
  BY <1>5, <1>6 DEF IInv

LEMMA CrashKeeps == IInv /\ Crash => IInv'
<1> SUFFICES ASSUME IInv, Crash
             PROVE  IInv'
  OBVIOUS
<1>1. /\ DOMAIN db' = { "orders", "fills", "balances" }
      /\ db'.orders = db.orders /\ db'.fills = db.fills /\ RowsOK(db'.balances)
  BY PartlyWrittenOK DEF Crash
<1>2. crashes' \in 0..MaxCrashes
  BY RuntimeAssumption DEF IInv, SharedOK, Crash
<1>3. Books(NoOrders)
  BY DEF Books, NoOrders
<1>4. RiskOK(FreshRisk)
  BY RuntimeAssumption DEF RiskOK, FreshRisk
<1>5. NoTop \in Tops /\ NoPortfolio \in Portfolios /\ << >> \in Seq(FillRecords)
  BY DEF Tops, NoTop, NoPrice, Portfolios, NoPortfolio
<1>6. SharedOK'
  BY <1>1, <1>2, <1>3, <1>4, <1>5, RuntimeAssumption
  DEF IInv, SharedOK, Crash, IdleThreads, NoJobs, AtBoot, NoneGone, Steps
<1>7. ASSUME NEW t \in Threads
      PROVE  JobOK(t)'
  BY DEF JobOK, JobAt, Crash, IdleThreads, NoJobs, NoJob, Ordered, Draining, Carrying
<1> QED
  BY <1>6, <1>7 DEF IInv

\* Every step keeps the invariant.
LEMMA StepKeeps ==
  ASSUME IInv, [Next]_vars
  PROVE  IInv'
<1>1. CASE Crash
  BY <1>1, CrashKeeps
<1>2. CASE Boot
  BY <1>2, BootSeedKeeps, BootLoadKeeps, BootRestoreKeeps DEF Boot
<1>3. ASSUME NEW t \in Threads, Continue(t)
      PROVE  IInv'
  BY <1>3, SubmitKeeps, PlaceKeeps, UpsertPlacedKeeps, SavePlacedKeeps, FinishKeeps,
     TickEngineKeeps, TakeFillsKeeps, ApplyToPortfolioKeeps, SaveFillKeeps,
     QueryOrderKeeps, ReflectInOmsKeeps, ReleaseFilledKeeps, SaveSeenKeeps,
     NextFillKeeps, CopyBalancesKeeps, SaveBalancesKeeps DEF Continue
<1>4. ASSUME NEW t \in Threads, StoreFails(t)
      PROVE  IInv'
  BY <1>4, StoreFailsKeeps
<1>5. ASSUME NEW t \in Threads, NEW id \in OrderIds, ReadMarket(t, id)
      PROVE  IInv'
  BY <1>5, ReadMarketKeeps
<1>6. ASSUME NEW t \in Threads, NEW top \in Ticks, TickMarket(t, top)
      PROVE  IInv'
  BY <1>6, TickMarketKeeps
<1>7. ASSUME NEW t \in Threads, MissedTick(t)
      PROVE  IInv'
  BY <1>7, MissedTickKeeps
<1>8. CASE UNCHANGED vars
  <2>1. SharedOK'
    BY <1>8 DEF IInv, SharedOK, vars
  <2>2. \A t \in Threads : JobOK(t)'
    BY <1>8 DEF IInv, JobOK, vars
  <2> QED
    BY <2>1, <2>2 DEF IInv
<1> QED
  BY <1>1, <1>2, <1>3, <1>4, <1>5, <1>6, <1>7, <1>8 DEF Next

\* For all threads, orders, ticks, crashes and failing writes: what the threads
\* share has its type, and a call has in hand what its step works on.
THEOREM InvariantHolds == Spec => []IInv
<1>1. IInv /\ [Next]_vars => IInv'
  BY StepKeeps
<1> QED
  BY <1>1, InitHolds, PTL DEF Spec

\* Every copy of an order, in the engine, the order manager, the store and a
\* restore, agrees with itself: its status with the quantity it has filled, at
\* most what was ordered (execute_intent, drain_fills, restore_from_store).
THEOREM TypeCorrect == Spec => []TypeOK
<1>1. IInv => TypeOK
  BY RuntimeAssumption DEF IInv, SharedOK, RowsOK, RiskOK, TypeOK, Steps
<1> QED
  BY <1>1, InvariantHolds, PTL

(***************************************************************************)
(* Balances                                                                *)
(***************************************************************************)

\* No balance is negative, of the portfolio, of a copy a call is about to save,
\* or of the stored ones.
NoneOwed(rows) == \A asset \in DOMAIN rows : rows[asset] >= 0

Funds ==
  /\ cash.quote >= 0 /\ cash.base >= 0 /\ NoneOwed(db.balances)
  /\ \A t \in Threads : pc[t] = "persist" => NoneOwed(job[t].copy)

\* A step that leaves the money alone: no thread gets to saving a copy.
MoneyStays ==
  /\ cash' = cash /\ db'.balances = db.balances
  /\ \A t \in Threads : pc'[t] = "persist" => pc[t] = "persist" /\ job'[t] = job[t]

LEMMA FundsStay ==
  ASSUME Funds, MoneyStays
  PROVE  Funds'
  BY DEF Funds, MoneyStays

LEMMA BalancesKept ==
  ASSUME IInv, NEW rows
  PROVE  /\ [db EXCEPT !.orders = rows].balances = db.balances
         /\ [db EXCEPT !.fills = rows].balances = db.balances
  BY DEF IInv, SharedOK

LEMMA ContinueStays ==
  ASSUME IInv, NEW t \in Threads, Continue(t),
         ~ ApplyToPortfolio(t), ~ CopyBalances(t), ~ SaveBalances(t)
  PROVE  MoneyStays
<1>1. pc \in [Threads -> Steps] /\ DOMAIN job = Threads
  BY JobOf
<1>2. CASE Submit(t)
  BY <1>1, <1>2 DEF MoneyStays, Submit, AfterRefusal, Goto
<1>3. CASE Place(t)
  BY <1>1, <1>3 DEF MoneyStays, Place, Goto
<1>4. CASE UpsertPlaced(t) \/ Finish(t) \/ ReflectInOms(t) \/ ReleaseFilled(t)
  BY <1>1, <1>4 DEF MoneyStays, UpsertPlaced, Finish, ReflectInOms, ReleaseFilled, Goto
<1>5. CASE SavePlaced(t) \/ SaveFill(t) \/ SaveSeen(t)
  BY <1>1, <1>5, BalancesKept DEF MoneyStays, SavePlaced, SaveFill, SaveSeen, Goto
<1>6. CASE TickEngine(t)
  BY <1>1, <1>6 DEF MoneyStays, TickEngine, Goto
<1>7. CASE TakeFills(t)
  BY <1>1, <1>7 DEF MoneyStays, TakeFills, AfterDrain, Goto
<1>8. CASE QueryOrder(t)
  BY <1>1, <1>8 DEF MoneyStays, QueryOrder, Goto
<1>9. CASE NextFill(t)
  BY <1>1, <1>9 DEF MoneyStays, NextFill, AfterDrain, Goto
<1> QED
  BY <1>2, <1>3, <1>4, <1>5, <1>6, <1>7, <1>8, <1>9 DEF Continue

LEMMA ReceivedStays ==
  ASSUME IInv, NEW t \in Threads,
         \/ \E id \in OrderIds : ReadMarket(t, id)
         \/ \E top \in Ticks : TickMarket(t, top)
         \/ MissedTick(t)
  PROVE  MoneyStays
<1>1. pc \in [Threads -> Steps] /\ DOMAIN job = Threads
  BY JobOf
<1> QED
  BY <1>1 DEF MoneyStays, ReadMarket, TickMarket, MissedTick, Goto

LEMMA ApplyKeepsFunds ==
  ASSUME IInv, Funds, NEW t \in Threads, ApplyToPortfolio(t)
  PROVE  Funds'
<1>1. pc \in [Threads -> Steps] /\ DOMAIN job = Threads /\ cash \in Portfolios
  BY JobOf DEF IInv, SharedOK
<1>2. TheFill(t) \in FillRecords
  BY CarryingCall DEF ApplyToPortfolio, Carrying
<1>3. \/ Affordable(cash, TheFill(t)) /\ cash' = AfterSpotFill(cash, TheFill(t))
      \/ cash' = cash
  BY DEF ApplyToPortfolio
<1>4. cash'.quote >= 0 /\ cash'.base >= 0
  BY <1>1, <1>2, <1>3, FillPaid DEF Funds
<1>5. \A u \in Threads : pc'[u] = "persist" => pc[u] = "persist" /\ job'[u] = job[u]
  BY <1>1 DEF ApplyToPortfolio, GiveUp, Goto
<1>6. db' = db
  BY DEF ApplyToPortfolio
<1> QED
  BY <1>4, <1>5, <1>6 DEF Funds

LEMMA CopyKeepsFunds ==
  ASSUME IInv, Funds, NEW t \in Threads, CopyBalances(t)
  PROVE  Funds'
<1> DEFINE j == [kind |-> "persist", copy |-> Restrict(cash, Rows)]
<1>1. pc \in [Threads -> Steps] /\ DOMAIN job = Threads
  BY JobOf
<1>2. job' = [job EXCEPT ![t] = j] /\ pc' = [pc EXCEPT ![t] = "persist"]
  BY DEF CopyBalances, Goto
<1>3. NoneOwed(j.copy)
  BY DEF Funds, NoneOwed, Restrict, Rows, IInv, SharedOK, RowsOK
<1> HIDE DEF j
<1>4. ASSUME NEW u \in Threads, pc'[u] = "persist"
      PROVE  NoneOwed(job'[u].copy)
  BY <1>1, <1>2, <1>3, <1>4 DEF Funds
<1>5. cash' = cash /\ db' = db
  BY DEF CopyBalances
<1> QED
  BY <1>4, <1>5 DEF Funds

LEMMA WrittenKeepsFunds ==
  ASSUME IInv, Funds, NEW t \in Threads
  PROVE  /\ \A d \in PartlyWritten(t) : NoneOwed(d.balances)
         /\ pc[t] = "persist" => NoneOwed(WithBalances(job[t].copy).balances)
<1>1. NoneOwed(db.balances) /\ (pc[t] = "persist" => NoneOwed(job[t].copy))
  BY DEF Funds
<1>2. ASSUME NEW rows, RowsOK(rows), NoneOwed(rows)
      PROVE  NoneOwed(WithBalances(rows).balances)
  <2>1. WithBalances(rows).balances = Over(rows, db.balances)
    BY <1>2, RowsWritten
  <2> QED
    BY <1>1, <1>2, <2>1 DEF NoneOwed, Over
<1>3. pc[t] = "persist" => RowsOK(job[t].copy)
  BY JobOf DEF JobAt
<1>4. pc[t] = "persist" => \A assets \in SUBSET DOMAIN job[t].copy :
        /\ RowsOK(Restrict(job[t].copy, assets)) /\ NoneOwed(Restrict(job[t].copy, assets))
  BY <1>1, <1>3 DEF RowsOK, NoneOwed, Restrict
<1> QED
  BY <1>1, <1>2, <1>3, <1>4 DEF PartlyWritten

LEMMA SaveKeepsFunds ==
  ASSUME IInv, Funds, NEW t \in Threads, SaveBalances(t) \/ StoreFails(t)
  PROVE  Funds'
<1>1. pc \in [Threads -> Steps] /\ DOMAIN job = Threads
  BY JobOf
<1>2. cash' = cash
  BY DEF SaveBalances, StoreFails
<1>3. NoneOwed(db'.balances)
  BY WrittenKeepsFunds DEF SaveBalances, StoreFails, Funds
<1>4. \A u \in Threads : pc'[u] = "persist" => pc[u] = "persist" /\ job'[u] = job[u]
  BY <1>1 DEF SaveBalances, StoreFails, GiveUp, Goto
<1> QED
  BY <1>2, <1>3, <1>4 DEF Funds

LEMMA BootKeepsFunds ==
  ASSUME IInv, Funds, Boot
  PROVE  Funds'
<1>1. pc' = pc /\ job' = job /\ db' = db
  BY DEF Boot, BootSeed, BootLoad, BootRestore, limbs
<1>2. cash'.quote >= 0 /\ cash'.base >= 0
  <2>1. DOMAIN cash = { "quote", "base", "fees" } /\ SeedQuote \in Nat
    BY RuntimeAssumption DEF IInv, SharedOK, Portfolios
  <2>2. /\ [cash EXCEPT !.quote = SeedQuote].quote = SeedQuote
        /\ [cash EXCEPT !.quote = SeedQuote].base = cash.base
    BY <2>1
  <2>3. Over(db.balances, cash).quote >= 0 /\ Over(db.balances, cash).base >= 0
    BY <2>1 DEF Over, Funds, NoneOwed
  <2>4. \/ cash' = [cash EXCEPT !.quote = SeedQuote]
        \/ cash' = Over(db.balances, cash)
        \/ cash' = cash
    BY DEF Boot, BootSeed, BootLoad, BootRestore
  <2> QED
    BY <2>1, <2>2, <2>3, <2>4 DEF Funds
<1> QED
  BY <1>1, <1>2 DEF Funds

LEMMA CrashKeepsFunds ==
  ASSUME IInv, Funds, Crash
  PROVE  Funds'
<1>1. NoneOwed(db'.balances)
  BY WrittenKeepsFunds DEF Crash
<1>2. \A t \in Threads : pc'[t] # "persist"
  BY DEF Crash, IdleThreads
<1> QED
  BY <1>1, <1>2 DEF Funds, Crash, NoPortfolio

LEMMA FundsInit == Init => Funds
  BY DEF Init, Funds, NoneOwed, NoPortfolio, IdleThreads

LEMMA FundsStep ==
  ASSUME IInv, Funds, [Next]_vars
  PROVE  Funds'
<1>1. CASE Crash
  BY <1>1, CrashKeepsFunds
<1>2. CASE Boot
  BY <1>2, BootKeepsFunds
<1>3. ASSUME NEW t \in Threads, Continue(t)
      PROVE  Funds'
  BY <1>3, ContinueStays, FundsStay, ApplyKeepsFunds, CopyKeepsFunds, SaveKeepsFunds
<1>4. ASSUME NEW t \in Threads, StoreFails(t)
      PROVE  Funds'
  BY <1>4, SaveKeepsFunds
<1>5. ASSUME NEW t \in Threads,
             \/ \E id \in OrderIds : ReadMarket(t, id)
             \/ \E top \in Ticks : TickMarket(t, top)
             \/ MissedTick(t)
      PROVE  Funds'
  BY <1>5, ReceivedStays, FundsStay
<1>6. CASE UNCHANGED vars
  BY <1>6 DEF Funds, vars
<1> QED
  BY <1>1, <1>2, <1>3, <1>4, <1>5, <1>6 DEF Next

\* The free balances never go negative, for all threads that fill and refuse at
\* the same time, and whatever a crash or a failing write leaves of the stored
\* rows: apply_spot_fill checks what it takes, no fee is more than the notional,
\* and a restore brings back rows that were not negative when they were copied.
THEOREM BalancesAlwaysNonNegative == Spec => []BalancesNonNegative
<1>1. IInv /\ Funds /\ [Next]_vars => Funds'
  BY FundsStep
<1>2. Funds => BalancesNonNegative
  BY DEF Funds, BalancesNonNegative
<1> QED
  BY <1>1, <1>2, InvariantHolds, FundsInit, PTL DEF Spec

(***************************************************************************)
(* The way of a fill from the engine to the store                          *)
(***************************************************************************)

\* The fills a call has in hand and not yet stored, when it stands at the step p
\* with the locals j; and the one it has paid for and not yet stored.
HandAt(p, j) ==
  IF p \in { "apply", "save_fill" } THEN j.todo
  ELSE IF p \in Carrying THEN Tail(j.todo) ELSE << >>

PaidAt(p, j) == IF p = "save_fill" THEN << Head(j.todo) >> ELSE << >>

Hands(pcs, jobs) == [t \in Threads |-> HandAt(pcs[t], jobs[t])]
Paids(pcs, jobs) == [t \in Threads |-> PaidAt(pcs[t], jobs[t])]

\* What the fills in all hands weigh.
Total(h, w) == SumFunction([t \in Threads |-> Weight(h[t], w)])

LEMMA TotalType ==
  ASSUME NEW h \in [Threads -> Seq(FillRecords)], NEW w \in [FillRecords -> Int]
  PROVE  /\ [t \in Threads |-> Weight(h[t], w)] \in [Threads -> Int]
         /\ Total(h, w) \in Int
         /\ (\A t \in Threads : h[t] = << >>) => Total(h, w) = 0
<1> DEFINE f == [t \in Threads |-> Weight(h[t], w)]
<1>1. \A t \in Threads : Weight(h[t], w) \in Int
  BY WeightType
<1>2. f \in [Threads -> Int]
  BY <1>1
<1>3. (\A t \in Threads : h[t] = << >>) => \A t \in Threads : f[t] = 0
  BY WeightEmpty
<1>4. Total(h, w) = SumFunction(f)
  BY DEF Total
<1> HIDE DEF f
<1>5. SumFunction(f) \in Int /\ ((\A t \in Threads : f[t] = 0) => SumFunction(f) = 0)
  BY <1>2, RuntimeAssumption, SumType
<1> QED
  BY <1>2, <1>3, <1>4, <1>5 DEF f

\* Where no fill weighs less than zero, all together do not.
LEMMA TotalNonNegative ==
  ASSUME NEW h \in [Threads -> Seq(FillRecords)], NEW w \in [FillRecords -> Int],
         \A f \in FillRecords : w[f] >= 0
  PROVE  Total(h, w) >= 0
<1> DEFINE f == [t \in Threads |-> Weight(h[t], w)]
<1>1. \A t \in Threads : Weight(h[t], w) \in Int /\ Weight(h[t], w) >= 0
  BY WeightType
<1>2. f \in [Threads -> Int] /\ \A t \in Threads : f[t] >= 0
  BY <1>1
<1>3. Total(h, w) = SumFunction(f)
  BY DEF Total
<1> HIDE DEF f
<1> QED
  BY <1>2, <1>3, RuntimeAssumption, SumType

\* When one thread's fills change, the total changes by as much.
LEMMA TotalChange ==
  ASSUME NEW h \in [Threads -> Seq(FillRecords)], NEW g \in [Threads -> Seq(FillRecords)],
         NEW t \in Threads, \A u \in Threads : u # t => g[u] = h[u],
         NEW w \in [FillRecords -> Int]
  PROVE  Total(g, w) = Total(h, w) - Weight(h[t], w) + Weight(g[t], w)
<1> DEFINE a == [u \in Threads |-> Weight(h[u], w)]
           b == [u \in Threads |-> Weight(g[u], w)]
<1>1. a \in [Threads -> Int] /\ b \in [Threads -> Int]
  BY TotalType
<1>2. \A u \in Threads \ {t} : b[u] = a[u]
  OBVIOUS
<1>3. a[t] = Weight(h[t], w) /\ b[t] = Weight(g[t], w)
  OBVIOUS
<1> HIDE DEF a, b
<1>4. DifferAt(Threads, t, a, b)
  BY <1>1, <1>2, RuntimeAssumption DEF DifferAt
<1>5. SumFunction(b) = SumFunction(a) - a[t] + b[t]
  BY <1>4, SumChange
<1> QED
  BY <1>3, <1>5 DEF Total, a, b

LEMMA HandsType ==
  ASSUME NEW pcs, NEW jobs, \A t \in Threads : JobAt(pcs[t], jobs[t])
  PROVE  /\ Hands(pcs, jobs) \in [Threads -> Seq(FillRecords)]
         /\ Paids(pcs, jobs) \in [Threads -> Seq(FillRecords)]
<1>1. ASSUME NEW t \in Threads
      PROVE  /\ HandAt(pcs[t], jobs[t]) \in Seq(FillRecords)
             /\ PaidAt(pcs[t], jobs[t]) \in Seq(FillRecords)
  <2>1. CASE pcs[t] \in Carrying
    <3>1. jobs[t].todo \in Seq(FillRecords) /\ jobs[t].todo # << >>
      BY <2>1 DEF JobAt
    <3>2. Head(jobs[t].todo) \in FillRecords /\ Tail(jobs[t].todo) \in Seq(FillRecords)
      BY <3>1, HeadTailProperties
    <3>3. << Head(jobs[t].todo) >> \in Seq(FillRecords) /\ << >> \in Seq(FillRecords)
      BY <3>2, FilledByOne, FilledByEmpty
    <3> QED
      BY <3>1, <3>2, <3>3 DEF HandAt, PaidAt
  <2>2. CASE pcs[t] \notin Carrying
    <3>1. HandAt(pcs[t], jobs[t]) = << >> /\ PaidAt(pcs[t], jobs[t]) = << >>
      BY <2>2 DEF HandAt, PaidAt, Carrying
    <3> QED
      BY <3>1, FilledByEmpty
  <2> QED
    BY <2>1, <2>2
<1> QED
  BY <1>1 DEF Hands, Paids

\* The other threads stand where they stood.
Others(t) == \A u \in Threads : u # t => pc'[u] = pc[u] /\ job'[u] = job[u]

ThreadStep(t) ==
  \/ Continue(t) \/ StoreFails(t) \/ MissedTick(t)
  \/ \E id \in OrderIds : ReadMarket(t, id)
  \/ \E top \in Ticks : TickMarket(t, top)

LEMMA OthersStand ==
  ASSUME IInv, NEW t \in Threads, ThreadStep(t)
  PROVE  Others(t)
<1>1. pc \in [Threads -> Steps] /\ DOMAIN job = Threads
  BY JobOf
<1>2. CASE Submit(t)
  BY <1>1, <1>2 DEF Others, Submit, AfterRefusal, Goto
<1>3. CASE Place(t)
  BY <1>1, <1>3 DEF Others, Place, Goto
<1>4. CASE UpsertPlaced(t) \/ Finish(t) \/ ReflectInOms(t) \/ ReleaseFilled(t)
  BY <1>1, <1>4 DEF Others, UpsertPlaced, Finish, ReflectInOms, ReleaseFilled, Goto
<1>5. CASE SavePlaced(t) \/ SaveFill(t) \/ SaveSeen(t)
  BY <1>1, <1>5 DEF Others, SavePlaced, SaveFill, SaveSeen, Goto
<1>6. CASE TickEngine(t)
  BY <1>1, <1>6 DEF Others, TickEngine, Goto
<1>7. CASE TakeFills(t) \/ NextFill(t)
  BY <1>1, <1>7 DEF Others, TakeFills, NextFill, Goto
<1>8. CASE QueryOrder(t)
  BY <1>1, <1>8 DEF Others, QueryOrder, Goto
<1>9. CASE ApplyToPortfolio(t)
  BY <1>1, <1>9 DEF Others, ApplyToPortfolio, GiveUp, Goto
<1>10. CASE CopyBalances(t) \/ SaveBalances(t)
  BY <1>1, <1>10 DEF Others, CopyBalances, SaveBalances, Goto
<1>11. CASE StoreFails(t)
  BY <1>1, <1>11 DEF Others, StoreFails, GiveUp, Goto
<1>12. CASE MissedTick(t) \/ \E id \in OrderIds : ReadMarket(t, id)
  BY <1>1, <1>12 DEF Others, MissedTick, ReadMarket, Goto
<1>13. CASE \E top \in Ticks : TickMarket(t, top)
  BY <1>1, <1>13 DEF Others, TickMarket, Goto
<1> QED
  BY <1>2, <1>3, <1>4, <1>5, <1>6, <1>7, <1>8, <1>9, <1>10, <1>11, <1>12, <1>13
  DEF ThreadStep, Continue

\* All fills on their way, and stored, and dropped.
Ledger(d, g, p, h, w) ==
  Weight(d.fills, w) + Weight(g.lost, w) + Weight(g.unsaved, w) + Weight(p, w) + Total(h, w)

LEMMA LedgerType ==
  ASSUME IInv, NEW w \in [FillRecords -> Int]
  PROVE  /\ Hands(pc, job) \in [Threads -> Seq(FillRecords)]
         /\ Paids(pc, job) \in [Threads -> Seq(FillRecords)]
         /\ Weight(db.fills, w) \in Int /\ Weight(gone.lost, w) \in Int
         /\ Weight(gone.unsaved, w) \in Int /\ Weight(pending, w) \in Int
         /\ Total(Hands(pc, job), w) \in Int /\ Total(Paids(pc, job), w) \in Int
         /\ \A t \in Threads : /\ Weight(HandAt(pc[t], job[t]), w) \in Int
                               /\ Weight(PaidAt(pc[t], job[t]), w) \in Int
<1>1. \A t \in Threads : JobAt(pc[t], job[t])
  BY JobOf
<1>2. /\ Hands(pc, job) \in [Threads -> Seq(FillRecords)]
      /\ Paids(pc, job) \in [Threads -> Seq(FillRecords)]
  BY <1>1, HandsType
<1>3. \A t \in Threads : /\ HandAt(pc[t], job[t]) \in Seq(FillRecords)
                         /\ PaidAt(pc[t], job[t]) \in Seq(FillRecords)
  BY <1>2 DEF Hands, Paids
<1>4. /\ db.fills \in Seq(FillRecords) /\ gone.lost \in Seq(FillRecords)
      /\ gone.unsaved \in Seq(FillRecords) /\ pending \in Seq(FillRecords)
  BY DEF IInv, SharedOK
<1> QED
  BY <1>2, <1>3, <1>4, TotalType, WeightType

\* What a thread's step does to the fills in hand.
LEMMA HandsChange ==
  ASSUME IInv, IInv', NEW t \in Threads, ThreadStep(t), NEW w \in [FillRecords -> Int]
  PROVE  /\ Total(Hands(pc', job'), w)
              = Total(Hands(pc, job), w) - Weight(HandAt(pc[t], job[t]), w)
                  + Weight(HandAt(pc'[t], job'[t]), w)
         /\ Total(Paids(pc', job'), w)
              = Total(Paids(pc, job), w) - Weight(PaidAt(pc[t], job[t]), w)
                  + Weight(PaidAt(pc'[t], job'[t]), w)
         /\ Hands(pc', job') \in [Threads -> Seq(FillRecords)]
         /\ Paids(pc', job') \in [Threads -> Seq(FillRecords)]
         /\ Weight(HandAt(pc'[t], job'[t]), w) \in Int
         /\ Weight(PaidAt(pc'[t], job'[t]), w) \in Int
<1>1. \A u \in Threads : JobAt(pc[u], job[u]) /\ JobAt(pc'[u], job'[u])
  BY DEF IInv, JobOK
<1>2. /\ Hands(pc, job) \in [Threads -> Seq(FillRecords)]
      /\ Paids(pc, job) \in [Threads -> Seq(FillRecords)]
      /\ Hands(pc', job') \in [Threads -> Seq(FillRecords)]
      /\ Paids(pc', job') \in [Threads -> Seq(FillRecords)]
  BY <1>1, HandsType
<1>3. \A u \in Threads : u # t => /\ Hands(pc', job')[u] = Hands(pc, job)[u]
                                  /\ Paids(pc', job')[u] = Paids(pc, job)[u]
  BY OthersStand DEF Others, Hands, Paids
<1>4. /\ Hands(pc, job)[t] = HandAt(pc[t], job[t])
      /\ Paids(pc, job)[t] = PaidAt(pc[t], job[t])
      /\ Hands(pc', job')[t] = HandAt(pc'[t], job'[t])
      /\ Paids(pc', job')[t] = PaidAt(pc'[t], job'[t])
  BY DEF Hands, Paids
<1>5. /\ Total(Hands(pc', job'), w)
           = Total(Hands(pc, job), w) - Weight(Hands(pc, job)[t], w)
               + Weight(Hands(pc', job')[t], w)
      /\ Total(Paids(pc', job'), w)
           = Total(Paids(pc, job), w) - Weight(Paids(pc, job)[t], w)
               + Weight(Paids(pc', job')[t], w)
  BY <1>2, <1>3, TotalChange
<1>6. /\ HandAt(pc'[t], job'[t]) \in Seq(FillRecords)
      /\ PaidAt(pc'[t], job'[t]) \in Seq(FillRecords)
  BY <1>2, <1>4
<1> QED
  BY <1>2, <1>4, <1>5, <1>6, WeightType

\* The facts about weights, for sequences of fills.
LEMMA FillsWeigh ==
  ASSUME NEW w \in [FillRecords -> Int]
  PROVE  /\ \A p \in Seq(FillRecords) : Weight(p, w) \in Int
         /\ \A f \in FillRecords : w[f] \in Int
         /\ \A p \in Seq(FillRecords), q \in Seq(FillRecords) :
              Weight(p \o q, w) = Weight(p, w) + Weight(q, w)
         /\ \A p \in Seq(FillRecords), f \in FillRecords :
              Weight(Append(p, f), w) = Weight(p, w) + w[f]
         /\ \A f \in FillRecords : Weight(<< f >>, w) = w[f]
         /\ Weight(<< >>, w) = 0
<1>1. \A p \in Seq(FillRecords) : Weight(p, w) \in Int
  BY WeightType
<1>2. \A p \in Seq(FillRecords), q \in Seq(FillRecords) :
        Weight(p \o q, w) = Weight(p, w) + Weight(q, w)
  BY WeightJoined
<1>3. \A p \in Seq(FillRecords), f \in FillRecords :
        Weight(Append(p, f), w) = Weight(p, w) + w[f]
  BY WeightAppend
<1>4. \A f \in FillRecords : Weight(<< f >>, w) = w[f]
  BY WeightOne
<1> QED
  BY <1>1, <1>2, <1>3, <1>4, WeightEmpty

\* A step that moves no fill.
Still(t) ==
  /\ db'.fills = db.fills /\ gone' = gone /\ pending' = pending
  /\ HandAt(pc'[t], job'[t]) = HandAt(pc[t], job[t])

LEMMA FillsKept ==
  ASSUME IInv, NEW rows
  PROVE  /\ [db EXCEPT !.orders = rows].fills = db.fills
         /\ [db EXCEPT !.balances = rows].fills = db.fills
  BY DEF IInv, SharedOK

LEMMA StillSteps ==
  ASSUME IInv, NEW t \in Threads,
         \/ Submit(t) \/ UpsertPlaced(t) \/ SavePlaced(t) \/ Finish(t) \/ CopyBalances(t)
         \/ SaveBalances(t) \/ QueryOrder(t) \/ ReflectInOms(t) \/ ReleaseFilled(t)
         \/ SaveSeen(t) \/ MissedTick(t) \/ (\E id \in OrderIds : ReadMarket(t, id))
         \/ \E top \in Ticks : TickMarket(t, top)
  PROVE  Still(t)
<1>1. pc \in [Threads -> Steps] /\ DOMAIN job = Threads
  BY JobOf
<1>2. CASE Submit(t)
  BY <1>1, <1>2
  DEF Still, HandAt, Carrying, Submit, AfterRefusal, Goto, engine, meta, errors
<1>3. CASE UpsertPlaced(t) \/ SavePlaced(t) \/ Finish(t)
  BY <1>1, <1>3, FillsKept
  DEF Still, HandAt, Carrying, UpsertPlaced, SavePlaced, Finish, Goto, engine, meta, errors
<1>4. CASE CopyBalances(t) \/ SaveBalances(t)
  BY <1>1, <1>4, FillsKept
  DEF Still, HandAt, Carrying, CopyBalances, SaveBalances, WithBalances, Goto, engine,
      meta, errors
<1>5. CASE QueryOrder(t)
  <2>1. "todo" \in DOMAIN job[t]
    BY <1>5, CarryingCall DEF QueryOrder, Carrying
  <2>2. job'[t] = job[t] \/ \E o : job'[t] = Put(job[t], "seen", o)
    BY <1>1, <1>5 DEF QueryOrder
  <2>3. job'[t].todo = job[t].todo
    BY <2>1, <2>2 DEF Put
  <2>4. pc[t] = "query" /\ pc'[t] \in { "reflect", "next" }
    BY <1>1, <1>5 DEF QueryOrder, Goto
  <2>5. db' = db /\ gone' = gone /\ pending' = pending
    BY <1>5 DEF QueryOrder, engine, meta, errors
  <2> QED
    BY <2>3, <2>4, <2>5 DEF Still, HandAt, Carrying
<1>6. CASE ReflectInOms(t) \/ ReleaseFilled(t) \/ SaveSeen(t)
  BY <1>1, <1>6, FillsKept
  DEF Still, HandAt, Carrying, ReflectInOms, ReleaseFilled, SaveSeen, Goto, engine, meta,
      errors
<1>7. CASE MissedTick(t) \/ \E id \in OrderIds : ReadMarket(t, id)
  BY <1>1, <1>7
  DEF Still, HandAt, Carrying, MissedTick, ReadMarket, Ready, TickDone, Goto, engine, meta,
      errors
<1>8. CASE \E top \in Ticks : TickMarket(t, top)
  BY <1>1, <1>8
  DEF Still, HandAt, Carrying, TickMarket, Ready, Goto, engine, meta, errors
<1> QED
  BY <1>2, <1>3, <1>4, <1>5, <1>6, <1>7, <1>8

\* What the fills weigh wherever they are.
LedgerNow(w) == Ledger(db, gone, pending, Hands(pc, job), w)

\* The part of it that a step of the thread t can change.
Moved(t, w) ==
  Weight(db.fills, w) + Weight(gone.lost, w) + Weight(gone.unsaved, w)
    + Weight(pending, w) + Weight(HandAt(pc[t], job[t]), w)

LEMMA LedgerMoves ==
  ASSUME IInv, IInv', NEW t \in Threads, ThreadStep(t), NEW w \in [FillRecords -> Int]
  PROVE  LedgerNow(w)' - LedgerNow(w) = Moved(t, w)' - Moved(t, w)
<1> DEFINE a == Weight(db.fills, w) + Weight(gone.lost, w) + Weight(gone.unsaved, w)
                  + Weight(pending, w)
           b == Weight(HandAt(pc[t], job[t]), w)
           c == Total(Hands(pc, job), w)
           x == Weight(db'.fills, w) + Weight(gone'.lost, w) + Weight(gone'.unsaved, w)
                  + Weight(pending', w)
           y == Weight(HandAt(pc'[t], job'[t]), w)
           z == Total(Hands(pc', job'), w)
<1>1. a \in Int /\ b \in Int /\ c \in Int
  BY LedgerType
<1>2. x \in Int
  <2>1. /\ Weight(db'.fills, w) \in Int /\ Weight(gone'.lost, w) \in Int
        /\ Weight(gone'.unsaved, w) \in Int /\ Weight(pending', w) \in Int
    BY WeightType DEF IInv, SharedOK
  <2> QED
    BY <2>1
<1>3. y \in Int /\ z = c - b + y
  BY HandsChange
<1>4. LedgerNow(w) = a + c /\ LedgerNow(w)' = x + z
  BY DEF LedgerNow, Ledger
<1>5. Moved(t, w) = a + b /\ Moved(t, w)' = x + y
  BY DEF Moved
<1> HIDE DEF a, b, c, x, y, z
<1> QED
  BY <1>1, <1>2, <1>3, <1>4, <1>5

LEMMA MovedParts ==
  ASSUME IInv, NEW t \in Threads, NEW w \in [FillRecords -> Int]
  PROVE  /\ Weight(db.fills, w) \in Int /\ Weight(gone.lost, w) \in Int
         /\ Weight(gone.unsaved, w) \in Int /\ Weight(pending, w) \in Int
         /\ Weight(HandAt(pc[t], job[t]), w) \in Int
         /\ db.fills \in Seq(FillRecords) /\ gone.lost \in Seq(FillRecords)
         /\ gone.unsaved \in Seq(FillRecords) /\ pending \in Seq(FillRecords)
         /\ DOMAIN db = { "orders", "fills", "balances" }
         /\ DOMAIN gone = { "lost", "unsaved" }
         /\ pc \in [Threads -> Steps] /\ DOMAIN job = Threads
  BY LedgerType DEF IInv, SharedOK

\* The fills a call makes wait in the engine.
LEMMA MakingMoves ==
  ASSUME IInv, NEW t \in Threads, Place(t) \/ TickEngine(t),
         NEW w \in [FillRecords -> Int], NEW made \in Seq(FillRecords),
         pending' = pending \o made
  PROVE  Moved(t, w)' = Moved(t, w) + Weight(made, w)
<1>1. Weight(pending', w) = Weight(pending, w) + Weight(made, w)
  BY MovedParts, FillsWeigh
<1>2. HandAt(pc[t], job[t]) = << >> /\ HandAt(pc'[t], job'[t]) = << >>
  BY MovedParts DEF Place, TickEngine, HandAt, Carrying, Goto
<1>3. db' = db /\ gone' = gone
  BY DEF Place, TickEngine, meta, errors
<1>4. Weight(made, w) \in Int
  BY FillsWeigh
<1>5. Moved(t, w)' = Weight(db.fills, w) + Weight(gone.lost, w) + Weight(gone.unsaved, w)
                       + Weight(pending', w) + Weight(<< >>, w)
  BY <1>2, <1>3 DEF Moved
<1>6. Moved(t, w) = Weight(db.fills, w) + Weight(gone.lost, w) + Weight(gone.unsaved, w)
                      + Weight(pending, w) + Weight(<< >>, w)
  BY <1>2 DEF Moved
<1>7. /\ Weight(db.fills, w) \in Int /\ Weight(gone.lost, w) \in Int
      /\ Weight(gone.unsaved, w) \in Int /\ Weight(pending, w) \in Int
      /\ Weight(<< >>, w) = 0
  BY MovedParts, FillsWeigh
<1> QED
  BY <1>1, <1>4, <1>5, <1>6, <1>7

LEMMA StillMoves ==
  ASSUME IInv, NEW t \in Threads, Still(t), NEW w \in [FillRecords -> Int]
  PROVE  Moved(t, w)' = Moved(t, w)
BY DEF Still, Moved

LEMMA TakingMoves ==
  ASSUME IInv, NEW t \in Threads, TakeFills(t), NEW w \in [FillRecords -> Int]
  PROVE  Moved(t, w)' = Moved(t, w)
<1>1. HandAt(pc[t], job[t]) = << >>
  BY DEF TakeFills, HandAt, Carrying
<1>2. HandAt(pc'[t], job'[t]) = pending
  <2>1. job'[t].todo = pending
    BY MovedParts DEF TakeFills, Put
  <2>2. pc'[t] = IF pending = << >> THEN AfterDrain(t) ELSE "apply"
    BY MovedParts DEF TakeFills, Goto
  <2> QED
    BY <2>1, <2>2 DEF HandAt, AfterDrain, Carrying
<1>3. db' = db /\ gone' = gone /\ pending' = << >>
  BY DEF TakeFills, meta, errors
<1>4. Moved(t, w)' = Weight(db.fills, w) + Weight(gone.lost, w) + Weight(gone.unsaved, w)
                       + Weight(<< >>, w) + Weight(pending, w)
  BY <1>2, <1>3 DEF Moved
<1>5. Moved(t, w) = Weight(db.fills, w) + Weight(gone.lost, w) + Weight(gone.unsaved, w)
                      + Weight(pending, w) + Weight(<< >>, w)
  BY <1>1 DEF Moved
<1>6. /\ Weight(db.fills, w) \in Int /\ Weight(gone.lost, w) \in Int
      /\ Weight(gone.unsaved, w) \in Int /\ Weight(pending, w) \in Int
      /\ Weight(<< >>, w) = 0
  BY MovedParts, FillsWeigh
<1> QED
  BY <1>4, <1>5, <1>6

LEMMA ApplyingMoves ==
  ASSUME IInv, NEW t \in Threads, ApplyToPortfolio(t), NEW w \in [FillRecords -> Int]
  PROVE  Moved(t, w)' = Moved(t, w)
<1> DEFINE todo == job[t].todo
<1>1. /\ pc[t] = "apply" /\ HandAt(pc[t], job[t]) = todo /\ todo \in Seq(FillRecords)
  BY CarryingCall DEF ApplyToPortfolio, HandAt, Carrying
<1>2. db' = db /\ pending' = pending
  BY DEF ApplyToPortfolio, engine
<1>3. CASE Affordable(cash, TheFill(t))
  <2>1. HandAt(pc'[t], job'[t]) = HandAt(pc[t], job[t]) /\ gone' = gone
    BY MovedParts, <1>1, <1>3 DEF ApplyToPortfolio, HandAt, Goto
  <2> QED
    BY <1>2, <2>1 DEF Moved
<1>4. CASE ~ Affordable(cash, TheFill(t))
  <2>1. HandAt(pc'[t], job'[t]) = << >>
    BY MovedParts, <1>4 DEF ApplyToPortfolio, GiveUp, HandAt, Carrying, Goto
  <2>2. gone'.lost = gone.lost \o todo /\ gone'.unsaved = gone.unsaved
    BY MovedParts, <1>4 DEF ApplyToPortfolio
  <2>3. Weight(gone'.lost, w) = Weight(gone.lost, w) + Weight(todo, w)
    <3>1. gone.lost \in Seq(FillRecords)
      BY MovedParts
    <3>2. Weight(gone.lost \o todo, w) = Weight(gone.lost, w) + Weight(todo, w)
      BY <1>1, <3>1, WeightJoined
    <3> QED
      BY <2>2, <3>2
  <2>4. Moved(t, w)' = Weight(db.fills, w) + Weight(gone'.lost, w)
                         + Weight(gone.unsaved, w) + Weight(pending, w) + Weight(<< >>, w)
    BY <1>2, <2>1, <2>2 DEF Moved
  <2>5. Moved(t, w) = Weight(db.fills, w) + Weight(gone.lost, w) + Weight(gone.unsaved, w)
                        + Weight(pending, w) + Weight(todo, w)
    BY <1>1 DEF Moved
  <2>6. /\ Weight(db.fills, w) \in Int /\ Weight(gone.lost, w) \in Int
        /\ Weight(gone.unsaved, w) \in Int /\ Weight(pending, w) \in Int
        /\ Weight(todo, w) \in Int /\ Weight(<< >>, w) = 0
    BY MovedParts, FillsWeigh, <1>1
  <2> HIDE DEF todo
  <2> QED
    BY <2>3, <2>4, <2>5, <2>6
<1> QED
  BY <1>3, <1>4

LEMMA SavingMoves ==
  ASSUME IInv, NEW t \in Threads, SaveFill(t), NEW w \in [FillRecords -> Int]
  PROVE  Moved(t, w)' = Moved(t, w)
<1> DEFINE todo == job[t].todo
           rest == Tail(job[t].todo)
<1>1. /\ pc[t] = "save_fill" /\ HandAt(pc[t], job[t]) = todo /\ todo \in Seq(FillRecords)
      /\ todo # << >>
  BY CarryingCall DEF SaveFill, HandAt, Carrying
<1>2. HandAt(pc'[t], job'[t]) = rest
  BY MovedParts DEF SaveFill, HandAt, Carrying, Goto
<1>3. db'.fills = Append(db.fills, TheFill(t)) /\ gone' = gone /\ pending' = pending
  BY MovedParts DEF SaveFill, engine, meta, errors
<1>4. /\ Weight(todo, w) = w[TheFill(t)] + Weight(rest, w)
      /\ TheFill(t) \in FillRecords /\ rest \in Seq(FillRecords)
  BY <1>1, WeightTail DEF TheFill
<1>5. Weight(db'.fills, w) = Weight(db.fills, w) + w[TheFill(t)] /\ w[TheFill(t)] \in Int
  <2>1. db.fills \in Seq(FillRecords)
    BY MovedParts
  <2>2. Weight(Append(db.fills, TheFill(t)), w) = Weight(db.fills, w) + w[TheFill(t)]
    BY <1>4, <2>1, WeightAppend
  <2> QED
    BY <1>3, <1>4, <2>2
<1>6. Moved(t, w)' = Weight(db'.fills, w) + Weight(gone.lost, w)
                       + Weight(gone.unsaved, w) + Weight(pending, w) + Weight(rest, w)
  BY <1>2, <1>3 DEF Moved
<1>7. Moved(t, w) = Weight(db.fills, w) + Weight(gone.lost, w) + Weight(gone.unsaved, w)
                      + Weight(pending, w) + Weight(todo, w)
  BY <1>1 DEF Moved
<1>8. /\ Weight(db.fills, w) \in Int /\ Weight(gone.lost, w) \in Int
      /\ Weight(gone.unsaved, w) \in Int /\ Weight(pending, w) \in Int
      /\ Weight(rest, w) \in Int
  BY MovedParts, FillsWeigh, <1>4
<1> HIDE DEF todo, rest
<1> QED
  BY <1>4, <1>5, <1>6, <1>7, <1>8

LEMMA NextStill ==
  ASSUME IInv, NEW t \in Threads, NextFill(t)
  PROVE  Still(t)
<1>1. /\ pc[t] = "next" /\ HandAt(pc[t], job[t]) = Tail(job[t].todo)
      /\ job[t].todo \in Seq(FillRecords) /\ job[t].todo # << >>
      /\ "todo" \in DOMAIN job[t]
  BY CarryingCall DEF NextFill, HandAt, Carrying
<1>2. job'[t].todo = Tail(job[t].todo)
  BY <1>1, JobOf DEF NextFill
<1>3. pc'[t] = IF Len(job[t].todo) > 1 THEN "apply" ELSE AfterDrain(t)
  BY JobOf DEF NextFill, Goto
<1>4. Len(job[t].todo) > 1 <=> Tail(job[t].todo) # << >>
  BY <1>1, AmountType, WeightTail
<1>5. HandAt(pc'[t], job'[t]) = Tail(job[t].todo)
  BY <1>2, <1>3, <1>4 DEF HandAt, AfterDrain, Carrying
<1> QED
  BY <1>1, <1>5 DEF Still, NextFill, engine, meta, errors

\* A write that fails: the fills the call had in hand are dropped, the one it had
\* paid for apart from the others.
LEMMA FailingMoves ==
  ASSUME IInv, NEW t \in Threads, StoreFails(t), NEW w \in [FillRecords -> Int]
  PROVE  Moved(t, w)' = Moved(t, w)
<1> DEFINE hand == HandAt(pc[t], job[t])
           rest == Tail(job[t].todo)
<1>1. HandAt(pc'[t], job'[t]) = << >> /\ pending' = pending /\ db'.fills = db.fills
  <2>1. HandAt(pc'[t], job'[t]) = << >>
    BY JobOf DEF StoreFails, GiveUp, HandAt, Carrying, Goto
  <2>2. db'.fills = db.fills
    BY PartlyWrittenOK DEF StoreFails
  <2> QED
    BY <2>1, <2>2 DEF StoreFails, engine
<1>2. Moved(t, w)' = Weight(db.fills, w) + Weight(gone'.lost, w)
                       + Weight(gone'.unsaved, w) + Weight(pending, w) + Weight(<< >>, w)
  BY <1>1 DEF Moved
<1>3. Moved(t, w) = Weight(db.fills, w) + Weight(gone.lost, w) + Weight(gone.unsaved, w)
                      + Weight(pending, w) + Weight(hand, w)
  BY DEF Moved
<1>4. /\ Weight(db.fills, w) \in Int /\ Weight(gone.lost, w) \in Int
      /\ Weight(gone.unsaved, w) \in Int /\ Weight(pending, w) \in Int
      /\ Weight(hand, w) \in Int /\ Weight(<< >>, w) = 0
  BY MovedParts, FillsWeigh
<1>5. /\ gone.lost \in Seq(FillRecords) /\ gone.unsaved \in Seq(FillRecords)
      /\ DOMAIN gone = { "lost", "unsaved" }
  BY MovedParts
<1>6. CASE pc[t] = "save_fill"
  <2>1. gone' = [ lost |-> gone.lost \o rest, unsaved |-> Append(gone.unsaved, TheFill(t)) ]
    BY <1>6 DEF StoreFails
  <2>2. job[t].todo \in Seq(FillRecords) /\ job[t].todo # << >> /\ hand = job[t].todo
    BY <1>6, CarryingCall DEF HandAt, Carrying
  <2>3. /\ Weight(job[t].todo, w) = w[TheFill(t)] + Weight(rest, w)
        /\ TheFill(t) \in FillRecords /\ rest \in Seq(FillRecords)
    BY <2>2, WeightTail DEF TheFill
  <2>4. Weight(hand, w) = w[TheFill(t)] + Weight(rest, w)
    BY <2>2, <2>3
  <2>5. Weight(gone.lost \o rest, w) = Weight(gone.lost, w) + Weight(rest, w)
    BY <1>5, <2>3, WeightJoined
  <2>6. Weight(Append(gone.unsaved, TheFill(t)), w)
          = Weight(gone.unsaved, w) + w[TheFill(t)]
    BY <1>5, <2>3, WeightAppend
  <2>7. Weight(rest, w) \in Int /\ w[TheFill(t)] \in Int
    BY <2>3, FillsWeigh
  <2>8. /\ Weight(gone'.lost, w) = Weight(gone.lost, w) + Weight(rest, w)
        /\ Weight(gone'.unsaved, w) = Weight(gone.unsaved, w) + w[TheFill(t)]
    BY <2>1, <2>5, <2>6
  <2> HIDE DEF hand, rest
  <2> QED
    BY <1>2, <1>3, <1>4, <2>4, <2>7, <2>8
<1>7. CASE pc[t] \in { "save", "save_seen", "next" }
  <2>1. Unstored(t) = hand
    BY DEF Unstored, HandAt, Carrying
  <2>2. gone' = [gone EXCEPT !.lost = @ \o Unstored(t)]
    BY <1>7 DEF StoreFails
  <2>3. gone'.lost = gone.lost \o hand /\ gone'.unsaved = gone.unsaved
    BY <1>5, <2>1, <2>2
  <2>4. hand \in Seq(FillRecords)
    BY <2>1, UnstoredType
  <2>5. Weight(gone.lost \o hand, w) = Weight(gone.lost, w) + Weight(hand, w)
    BY <1>5, <2>4, WeightJoined
  <2> HIDE DEF hand
  <2>6. /\ Weight(gone'.lost, w) = Weight(gone.lost, w) + Weight(hand, w)
        /\ Weight(gone'.unsaved, w) = Weight(gone.unsaved, w)
    BY <2>3, <2>5
  <2> QED
    BY <1>2, <1>3, <1>4, <2>6
<1>8. CASE pc[t] \notin { "save", "save_seen", "next", "save_fill" }
  <2>1. gone' = gone
    BY <1>8 DEF StoreFails
  <2>2. pc[t] \in { "persist", "copy" }
    BY <1>8 DEF StoreFails
  <2>3. hand = << >>
    BY <2>2 DEF HandAt, Carrying
  <2> HIDE DEF hand
  <2> QED
    BY <1>2, <1>3, <1>4, <2>1, <2>3
<1> QED
  BY <1>6, <1>7, <1>8

\* The fills the engine makes in a step come to the others, and no other step of
\* a thread makes, drops or doubles any.
LEMMA LedgerStep ==
  ASSUME IInv, IInv', NEW t \in Threads, ThreadStep(t), NEW w \in [FillRecords -> Int]
  PROVE  /\ ~ Place(t) /\ ~ TickEngine(t) => LedgerNow(w)' = LedgerNow(w)
         /\ \A made \in Seq(FillRecords) :
              (Place(t) \/ TickEngine(t)) /\ pending' = pending \o made
                => LedgerNow(w)' = LedgerNow(w) + Weight(made, w)
<1>1. LedgerNow(w) \in Int /\ LedgerNow(w)' \in Int
  <2>1. LedgerNow(w) \in Int
    BY LedgerType DEF LedgerNow, Ledger
  <2>2. Total(Hands(pc', job'), w) \in Int
    BY HandsChange, LedgerType
  <2>3. /\ Weight(db'.fills, w) \in Int /\ Weight(gone'.lost, w) \in Int
        /\ Weight(gone'.unsaved, w) \in Int /\ Weight(pending', w) \in Int
    BY WeightType DEF IInv, SharedOK
  <2>4. LedgerNow(w)' = Weight(db'.fills, w) + Weight(gone'.lost, w)
                          + Weight(gone'.unsaved, w) + Weight(pending', w)
                          + Total(Hands(pc', job'), w)
    BY DEF LedgerNow, Ledger
  <2> QED
    BY <2>1, <2>2, <2>3, <2>4
<1>2. Moved(t, w) \in Int
  BY MovedParts DEF Moved
<1>3. LedgerNow(w)' - LedgerNow(w) = Moved(t, w)' - Moved(t, w)
  BY LedgerMoves
<1>4. ASSUME ~ Place(t), ~ TickEngine(t)
      PROVE  Moved(t, w)' = Moved(t, w)
  <2>1. CASE TakeFills(t)
    BY <2>1, TakingMoves
  <2>2. CASE ApplyToPortfolio(t)
    BY <2>2, ApplyingMoves
  <2>3. CASE SaveFill(t)
    BY <2>3, SavingMoves
  <2>4. CASE NextFill(t)
    BY <2>4, NextStill, StillMoves
  <2>5. CASE StoreFails(t)
    BY <2>5, FailingMoves
  <2>6. CASE ~ (TakeFills(t) \/ ApplyToPortfolio(t) \/ SaveFill(t) \/ NextFill(t) \/ StoreFails(t))
    <3>1. Still(t)
      BY <1>4, <2>6, StillSteps DEF ThreadStep, Continue
    <3> QED
      BY <3>1, StillMoves
  <2> QED
    BY <2>1, <2>2, <2>3, <2>4, <2>5, <2>6
<1>5. ASSUME NEW made \in Seq(FillRecords), Place(t) \/ TickEngine(t),
             pending' = pending \o made
      PROVE  Moved(t, w)' = Moved(t, w) + Weight(made, w) /\ Weight(made, w) \in Int
  BY <1>5, MakingMoves, FillsWeigh
<1>6. ASSUME ~ Place(t), ~ TickEngine(t)
      PROVE  LedgerNow(w)' = LedgerNow(w)
  BY <1>1, <1>2, <1>3, <1>4, <1>6
<1>7. ASSUME NEW made \in Seq(FillRecords), Place(t) \/ TickEngine(t),
             pending' = pending \o made
      PROVE  LedgerNow(w)' = LedgerNow(w) + Weight(made, w)
  <2>1. Moved(t, w)' = Moved(t, w) + Weight(made, w) /\ Weight(made, w) \in Int
    BY <1>5, <1>7
  <2> QED
    BY <1>1, <1>2, <1>3, <2>1
<1> QED
  BY <1>6, <1>7

(***************************************************************************)
(* The first life of the process, with no call before the restore ends     *)
(***************************************************************************)

CallsWait == EarlyCalls = FALSE
FirstLife == crashes = 0

\* Before the restore has ended nothing has happened.
Unstarted ==
  boot.step # "done" =>
    /\ \A t \in Threads : pc[t] = "idle"
    /\ DOMAIN venue = {} /\ DOMAIN boot.loaded = {}
    /\ pending = << >> /\ gone = NoneGone
    /\ DOMAIN db.orders = {} /\ db.fills = << >> /\ db.balances = << >>
    /\ cash = IF boot.step = "seed" THEN NoPortfolio ELSE Opening

\* An intent is submitted once, and on its way to the engine until it is there.
Asking(t) == pc[t] \in { "check", "place" }

FreshIds ==
  /\ DOMAIN venue \subseteq used
  /\ \A t \in Threads : Asking(t) => job[t].id \in used \ DOMAIN venue
  /\ \A t \in Threads, u \in Threads :
       Asking(t) /\ Asking(u) /\ job[t].id = job[u].id => t = u

Executed(id) == IF id \in DOMAIN venue THEN venue[id].filled ELSE 0

FillsAccounted == \A id \in OrderIds : Executed(id) = LedgerNow(Amount(id))

LEMMA StillFirstLife ==
  ASSUME IInv, [Next]_vars, FirstLife'
  PROVE  FirstLife /\ ~ Crash
<1>1. ~ Crash
  BY DEF FirstLife, IInv, SharedOK, Crash
<1>2. ASSUME Boot
      PROVE  FirstLife
  BY <1>2 DEF Boot, BootSeed, BootLoad, BootRestore, FirstLife
<1>3. ASSUME NEW t \in Threads, Continue(t)
      PROVE  FirstLife
  BY <1>3
  DEF Continue, Submit, Place, UpsertPlaced, SavePlaced, Finish, TickEngine, TakeFills,
      ApplyToPortfolio, SaveFill, QueryOrder, ReflectInOms, ReleaseFilled, SaveSeen,
      NextFill, CopyBalances, SaveBalances, meta, FirstLife
<1>4. ASSUME NEW t \in Threads, ThreadStep(t), ~ Continue(t)
      PROVE  FirstLife
  BY <1>4 DEF ThreadStep, StoreFails, ReadMarket, TickMarket, MissedTick, meta, FirstLife
<1>5. ASSUME UNCHANGED vars
      PROVE  FirstLife
  BY <1>5 DEF vars, FirstLife
<1> QED
  BY <1>1, <1>2, <1>3, <1>4, <1>5 DEF Next, ThreadStep

LEMMA StartedCall ==
  ASSUME CallsWait, IInv, boot.step # "done" => \A u \in Threads : pc[u] = "idle",
         NEW t \in Threads, ThreadStep(t)
  PROVE  boot.step = "done" /\ boot' = boot
<1>1. ASSUME pc[t] = "idle"
      PROVE  boot.step = "done"
  <2>1. Ready(t)
    BY <1>1
    DEF ThreadStep, Continue, Submit, Place, UpsertPlaced, SavePlaced, Finish, TickEngine,
        TakeFills, ApplyToPortfolio, SaveFill, QueryOrder, ReflectInOms, ReleaseFilled,
        SaveSeen, NextFill, CopyBalances, SaveBalances, StoreFails, ReadMarket, TickMarket,
        MissedTick, TickDone
  <2> QED
    BY <2>1 DEF Ready, CallsWait
<1>2. ASSUME pc[t] # "idle"
      PROVE  boot.step = "done"
  BY <1>2
<1>3. boot' = boot
  <2>1. CASE Continue(t)
    BY <2>1
    DEF Continue, Submit, Place, UpsertPlaced, SavePlaced, Finish, TickEngine, TakeFills,
        ApplyToPortfolio, SaveFill, QueryOrder, ReflectInOms, ReleaseFilled, SaveSeen,
        NextFill, CopyBalances, SaveBalances, meta
  <2>2. CASE ~ Continue(t)
    BY <2>2 DEF ThreadStep, StoreFails, ReadMarket, TickMarket, MissedTick, meta
  <2> QED
    BY <2>1, <2>2
<1> QED
  BY <1>1, <1>2, <1>3

LEMMA UnstartedInit == Init => Unstarted
  BY DEF Init, Unstarted, IdleThreads, NoOrders, AtBoot

LEMMA UnstartedStep ==
  ASSUME CallsWait, FirstLife', IInv, Unstarted, [Next]_vars
  PROVE  Unstarted'
<1>1. CASE \E t \in Threads : ThreadStep(t)
  BY <1>1, StartedCall DEF Unstarted
<1>2. CASE BootSeed
  <2>1. cash' = Opening
    BY <1>2 DEF Unstarted, BootSeed, Opening
  <2> QED
    BY <1>2, <2>1 DEF Unstarted, BootSeed, IInv, SharedOK, engine, limbs, errors
<1>3. CASE BootLoad
  <2>1. DOMAIN boot'.loaded = {} /\ boot'.step = "restore"
    BY <1>3 DEF Unstarted, BootLoad, Open
  <2> QED
    BY <1>3, <2>1 DEF Unstarted, BootLoad, engine, limbs, errors
<1>4. CASE BootRestore
  BY <1>4 DEF Unstarted, BootRestore
<1>5. CASE UNCHANGED vars
  BY <1>5 DEF Unstarted, vars
<1> QED
  BY <1>1, <1>2, <1>3, <1>4, <1>5, StillFirstLife DEF Next, ThreadStep, Boot

\* What a step does to the ids on their way.
LEMMA FreshInit == Init => FreshIds
  BY DEF Init, FreshIds, IdleThreads, NoOrders, Asking

LEMMA FreshStands ==
  ASSUME IInv, FreshIds, NEW t \in Threads, Others(t),
         DOMAIN venue' = DOMAIN venue, used' = used,
         Asking(t)' => Asking(t) /\ job'[t].id = job[t].id
  PROVE  FreshIds'
<1>1. \A u \in Threads : Asking(u)' => Asking(u) /\ job'[u].id = job[u].id
  BY DEF Others, Asking
<1> QED
  BY <1>1 DEF FreshIds

LEMMA FreshStep ==
  ASSUME CallsWait, FirstLife', IInv, Unstarted, FreshIds, [Next]_vars
  PROVE  FreshIds'
<1>1. CASE Boot
  <2>1. CASE boot.step # "done" /\ DOMAIN venue' = {} /\ pc' = pc
    BY <2>1 DEF Unstarted, FreshIds, Asking
  <2>2. CASE BootSeed \/ BootLoad
    BY <2>2, <2>1 DEF BootSeed, BootLoad, Unstarted, engine, limbs
  <2>3. CASE BootRestore
    <3>1. DOMAIN venue' = {}
      BY <2>3 DEF BootRestore, Unstarted, Over, Restrict
    <3> QED
      BY <2>1, <2>3, <3>1 DEF BootRestore, limbs
  <2> QED
    BY <1>1, <2>2, <2>3 DEF Boot
<1>2. ASSUME NEW t \in Threads, NEW id \in OrderIds, ReadMarket(t, id)
      PROVE  FreshIds'
  <2>1. Others(t) /\ pc'[t] = "check" /\ job'[t].id = id
    BY <1>2, OthersStand, JobOf DEF ThreadStep, ReadMarket, Goto
  <2>2. id \notin used /\ used' = used \cup {id} /\ venue' = venue
    BY <1>2 DEF ReadMarket, engine
  <2>3. \A u \in Threads : u # t /\ Asking(u)' => Asking(u) /\ job'[u].id = job[u].id
    BY <2>1 DEF Others, Asking
  <2> QED
    BY <2>1, <2>2, <2>3 DEF FreshIds
<1>3. ASSUME NEW t \in Threads, Submit(t)
      PROVE  FreshIds'
  <2>1. Others(t) /\ venue' = venue /\ used' = used
    BY <1>3, OthersStand DEF ThreadStep, Continue, Submit, engine, meta
  <2>2. Asking(t)' => Asking(t) /\ job'[t].id = job[t].id
    BY <1>3, JobOf DEF Submit, AfterRefusal, Goto, Asking
  <2> QED
    BY <2>1, <2>2, FreshStands
<1>4. ASSUME NEW t \in Threads, Place(t)
      PROVE  FreshIds'
  <2>1. Others(t) /\ used' = used /\ pc'[t] = "upsert" /\ Asking(t)
    BY <1>4, OthersStand, JobOf DEF ThreadStep, Continue, Place, Goto, meta, Asking
  <2>2. DOMAIN venue' = DOMAIN venue \cup {job[t].id}
    BY <1>4 DEF Place, Put
  <2>3. \A u \in Threads : Asking(u)' => u # t /\ Asking(u) /\ job'[u].id = job[u].id
    BY <2>1 DEF Others, Asking
  <2> QED
    BY <2>1, <2>2, <2>3 DEF FreshIds
<1>5. ASSUME NEW t \in Threads, ThreadStep(t), ~ Submit(t), ~ Place(t),
             \A id \in OrderIds : ~ ReadMarket(t, id)
      PROVE  FreshIds'
  <2>1. Others(t)
    BY <1>5, OthersStand
  <2>2. used' = used
    BY <1>5
    DEF ThreadStep, Continue, UpsertPlaced, SavePlaced, Finish, TickEngine, TakeFills,
        ApplyToPortfolio, SaveFill, QueryOrder, ReflectInOms, ReleaseFilled, SaveSeen,
        NextFill, CopyBalances, SaveBalances, StoreFails, TickMarket, MissedTick, meta
  <2>3. DOMAIN venue' = DOMAIN venue
    <3>1. CASE TickEngine(t)
      BY <3>1, TickMatched DEF Matching
    <3>2. CASE ~ TickEngine(t)
      BY <1>5, <3>2
      DEF ThreadStep, Continue, UpsertPlaced, SavePlaced, Finish, TakeFills,
          ApplyToPortfolio, SaveFill, QueryOrder, ReflectInOms, ReleaseFilled, SaveSeen,
          NextFill, CopyBalances, SaveBalances, StoreFails, TickMarket, MissedTick, engine
    <3> QED
      BY <3>1, <3>2
  <2>4. ~ Asking(t)'
    BY <1>5, JobOf
    DEF ThreadStep, Continue, UpsertPlaced, SavePlaced, Finish, TickEngine, TakeFills,
        ApplyToPortfolio, SaveFill, QueryOrder, ReflectInOms, ReleaseFilled, SaveSeen,
        NextFill, CopyBalances, SaveBalances, StoreFails, TickMarket, MissedTick, Goto,
        GiveUp, AfterDrain, Asking
  <2> QED
    BY <2>1, <2>2, <2>3, <2>4, FreshStands
<1>6. CASE UNCHANGED vars
  BY <1>6 DEF FreshIds, Asking, vars
<1> QED
  BY <1>1, <1>2, <1>3, <1>4, <1>5, <1>6, StillFirstLife DEF Next, ThreadStep

LEMMA AccountedInit ==
  ASSUME IInv, Init
  PROVE  FillsAccounted
<1>1. /\ db.fills = << >> /\ gone.lost = << >> /\ gone.unsaved = << >> /\ pending = << >>
      /\ DOMAIN venue = {} /\ \A t \in Threads : pc[t] = "idle"
  BY DEF Init, NoneGone, NoOrders, IdleThreads
<1>2. ASSUME NEW id \in OrderIds
      PROVE  Executed(id) = LedgerNow(Amount(id))
  <2>1. Amount(id) \in [FillRecords -> Int]
    BY AmountType
  <2>2. \A t \in Threads : Hands(pc, job)[t] = << >>
    BY <1>1 DEF Hands, HandAt, Carrying
  <2>3. Total(Hands(pc, job), Amount(id)) = 0
    BY <2>1, <2>2, LedgerType, TotalType
  <2>4. Weight(<< >>, Amount(id)) = 0
    BY <2>1, WeightEmpty
  <2> QED
    BY <1>1, <2>3, <2>4 DEF LedgerNow, Ledger, Executed
<1> QED
  BY <1>2 DEF FillsAccounted

\* The fill that place_order makes is that of the order it answers with.
LEMMA PlaceAccounts ==
  ASSUME IInv, IInv', FreshIds, FillsAccounted, NEW t \in Threads, Place(t),
         NEW id \in OrderIds
  PROVE  Executed(id)' = LedgerNow(Amount(id))'
<1> DEFINE me == job[t].id
           w == Amount(id)
           r == Placed(me, book)
<1>1. me \in OrderIds /\ me \notin DOMAIN venue
  BY JobOf DEF FreshIds, Asking, Place, JobAt, Asked
<1>2. /\ r.order \in OrderRecords
      /\ \/ r.fills = << >> /\ r.order.filled = 0
         \/ \E f \in FillRecords :
              r.fills = << f >> /\ f.order = me /\ f.quantity = r.order.filled
  BY <1>1, PlacedType DEF IInv, SharedOK
<1>3. venue' = Put(venue, me, r.order) /\ pending' = pending \o r.fills
  BY DEF Place
<1>4. w \in [FillRecords -> Int]
  BY AmountType
<1>5. /\ r.fills \in Seq(FillRecords)
      /\ Weight(r.fills, w) = IF id = me THEN r.order.filled ELSE 0
  <2>1. CASE r.fills = << >> /\ r.order.filled = 0
    <3>1. r.fills \in Seq(FillRecords) /\ Weight(<< >>, w) = 0
      BY <1>4, <2>1, WeightEmpty, FilledByEmpty
    <3> QED
      BY <2>1, <3>1
  <2>2. ASSUME NEW f \in FillRecords,
               r.fills = << f >>, f.order = me, f.quantity = r.order.filled
        PROVE  /\ r.fills \in Seq(FillRecords)
               /\ Weight(r.fills, w) = IF id = me THEN r.order.filled ELSE 0
    <3>1. << f >> \in Seq(FillRecords) /\ Weight(<< f >>, w) = w[f]
      BY <1>4, FilledByOne, WeightOne
    <3>2. w[f] = IF id = me THEN r.order.filled ELSE 0
      BY <2>2, AmountType
    <3> QED
      BY <2>2, <3>1, <3>2
  <2> QED
    BY <1>2, <2>1, <2>2
<1>6. LedgerNow(w)' = LedgerNow(w) + Weight(r.fills, w)
  BY <1>3, <1>4, <1>5, LedgerStep DEF ThreadStep, Continue
<1>7. LedgerNow(w) = Executed(id)
  BY DEF FillsAccounted
<1>8. CASE id = me
  <2>1. Executed(id) = 0
    BY <1>1, <1>8 DEF Executed
  <2>2. Executed(id)' = r.order.filled
    BY <1>3, <1>8 DEF Executed, Put
  <2>3. r.order.filled \in Nat
    BY <1>2, OrderFields
  <2> HIDE DEF r, w, me
  <2> QED
    BY <1>5, <1>6, <1>7, <1>8, <2>1, <2>2, <2>3 DEF w
<1>9. CASE id # me
  <2>1. Executed(id)' = Executed(id)
    BY <1>3, <1>9 DEF Executed, Put
  <2>2. LedgerNow(w) \in Int
    BY <1>4, LedgerType DEF LedgerNow, Ledger
  <2> HIDE DEF r, w, me
  <2> QED
    BY <1>5, <1>6, <1>7, <1>9, <2>1, <2>2 DEF w
<1> QED
  BY <1>8, <1>9

LEMMA TickAccounts ==
  ASSUME IInv, IInv', FillsAccounted, NEW t \in Threads, TickEngine(t), NEW id \in OrderIds
  PROVE  Executed(id)' = LedgerNow(Amount(id))'
<1> DEFINE w == Amount(id)
<1>1. PICK s \in Matching(venue) : venue' = s.orders /\ pending' = pending \o s.fills
  BY TickMatched
<1>2. w \in [FillRecords -> Int]
  BY AmountType
<1>3. s.fills \in Seq(FillRecords) /\ DOMAIN s.orders = DOMAIN venue
  BY DEF Matching
<1>4. LedgerNow(w)' = LedgerNow(w) + Weight(s.fills, w)
  BY <1>1, <1>2, <1>3, LedgerStep DEF ThreadStep, Continue
<1>5. LedgerNow(w) = Executed(id)
  BY DEF FillsAccounted
<1>6. Weight(s.fills, w) = FilledBy(s.fills, id)
  BY <1>3, FilledByWeight
<1>7. Executed(id)' = Executed(id) + FilledBy(s.fills, id)
  <2>1. CASE id \in DOMAIN venue
    BY <1>1, <1>3, <2>1 DEF Matching, Executed
  <2>2. CASE id \notin DOMAIN venue
    BY <1>1, <1>3, <2>2 DEF Matching, Executed
  <2> QED
    BY <2>1, <2>2
<1> HIDE DEF w
<1> QED
  BY <1>4, <1>5, <1>6, <1>7 DEF w

\* Only those two change the orders of the engine, once the process has started.
LEMMA VenueStands ==
  ASSUME NEW t \in Threads, ThreadStep(t), ~ Place(t), ~ TickEngine(t)
  PROVE  venue' = venue
  BY DEF ThreadStep, Continue, Submit, UpsertPlaced, SavePlaced, Finish, TakeFills,
         ApplyToPortfolio, SaveFill, QueryOrder, ReflectInOms, ReleaseFilled, SaveSeen,
         NextFill, CopyBalances, SaveBalances, StoreFails, ReadMarket, TickMarket,
         MissedTick, engine

LEMMA NothingRestored ==
  ASSUME Unstarted, Boot
  PROVE  DOMAIN venue = {} /\ DOMAIN venue' = {}
<1>1. CASE BootSeed
  BY <1>1 DEF BootSeed, Unstarted, engine
<1>2. CASE BootLoad
  BY <1>2 DEF BootLoad, Unstarted, engine
<1>3. CASE BootRestore
  BY <1>3 DEF BootRestore, Unstarted, Over, Restrict
<1> QED
  BY <1>1, <1>2, <1>3 DEF Boot

LEMMA AccountedStep ==
  ASSUME CallsWait, FirstLife', IInv, IInv', Unstarted, FreshIds, FillsAccounted, [Next]_vars
  PROVE  FillsAccounted'
<1>1. CASE Boot
  <2>1. db' = db /\ gone' = gone /\ pending' = pending /\ pc' = pc /\ job' = job
    BY <1>1 DEF Boot, BootSeed, BootLoad, BootRestore, engine, limbs, errors
  <2>2. DOMAIN venue = {} /\ DOMAIN venue' = {}
    BY <1>1, NothingRestored
  <2>3. \A w : LedgerNow(w)' = LedgerNow(w)
    BY <2>1 DEF LedgerNow, Ledger
  <2> QED
    BY <2>2, <2>3 DEF FillsAccounted, Executed
<1>2. ASSUME NEW t \in Threads, Place(t)
      PROVE  FillsAccounted'
  BY <1>2, PlaceAccounts DEF FillsAccounted
<1>3. ASSUME NEW t \in Threads, TickEngine(t)
      PROVE  FillsAccounted'
  BY <1>3, TickAccounts DEF FillsAccounted
<1>4. ASSUME NEW t \in Threads, ThreadStep(t), ~ Place(t), ~ TickEngine(t)
      PROVE  FillsAccounted'
  <2>1. venue' = venue
    BY <1>4, VenueStands
  <2>2. \A id \in OrderIds : LedgerNow(Amount(id))' = LedgerNow(Amount(id))
    BY <1>4, AmountType, LedgerStep
  <2> QED
    BY <2>1, <2>2 DEF FillsAccounted, Executed
<1>5. CASE UNCHANGED vars
  BY <1>5 DEF FillsAccounted, LedgerNow, Ledger, Hands, Executed, vars
<1> QED
  BY <1>1, <1>2, <1>3, <1>4, <1>5, StillFirstLife DEF Next, ThreadStep

\* No fill is lost or stored twice on its way from the engine to the store,
\* whichever of any number of threads drains it, and whatever is refused or fails
\* to be written: what an order has executed is what is stored, what waits, what
\* calls hold, and what an error made a call drop.  Until the first crash.
THEOREM FillsAlwaysReachTheStore ==
  ASSUME CallsWait
  PROVE  Spec => [](FirstLife => FillsReachTheStore)
<1> DEFINE Inv == FirstLife => Unstarted /\ FreshIds /\ FillsAccounted
<1>1. IInv /\ Init => Inv
  BY UnstartedInit, FreshInit, AccountedInit
<1>2. IInv /\ IInv' /\ Inv /\ [Next]_vars => Inv'
  BY StillFirstLife, UnstartedStep, FreshStep, AccountedStep
<1>3. ASSUME IInv, Inv, FirstLife, NEW id \in DOMAIN venue
      PROVE  venue[id].filled =
               Accounted(id) + FilledBy(pending, id)
                 + SumFunction([t \in Threads |-> FilledBy(Unstored(t), id)])
  <2>1. id \in OrderIds
    BY <1>3 DEF IInv, SharedOK, Books
  <2>2. venue[id].filled = LedgerNow(Amount(id))
    BY <1>3, <2>1 DEF FillsAccounted, Executed
  <2>3. /\ FilledBy(db.fills, id) = Weight(db.fills, Amount(id))
        /\ FilledBy(gone.lost, id) = Weight(gone.lost, Amount(id))
        /\ FilledBy(gone.unsaved, id) = Weight(gone.unsaved, Amount(id))
        /\ FilledBy(pending, id) = Weight(pending, Amount(id))
    BY <1>3, FilledByWeight DEF IInv, SharedOK
  <2>4. \A t \in Threads : FilledBy(Unstored(t), id) = Weight(Hands(pc, job)[t], Amount(id))
    <3>1. \A t \in Threads : Unstored(t) = Hands(pc, job)[t]
      BY DEF Unstored, Hands, HandAt, Carrying
    <3> QED
      BY <1>3, <3>1, LedgerType, AmountType, FilledByWeight
  <2>5. SumFunction([t \in Threads |-> FilledBy(Unstored(t), id)])
          = Total(Hands(pc, job), Amount(id))
    BY <2>4 DEF Total
  <2>6. /\ Weight(db.fills, Amount(id)) \in Int /\ Weight(gone.lost, Amount(id)) \in Int
        /\ Weight(gone.unsaved, Amount(id)) \in Int /\ Weight(pending, Amount(id)) \in Int
        /\ Total(Hands(pc, job), Amount(id)) \in Int
    BY <1>3, AmountType, LedgerType
  <2> QED
    BY <2>2, <2>3, <2>5, <2>6 DEF LedgerNow, Ledger, Accounted
<1>4. IInv /\ Inv => (FirstLife => FillsReachTheStore)
  BY <1>3 DEF FillsReachTheStore
<1> HIDE DEF Inv
<1> QED
  BY <1>1, <1>2, <1>4, InvariantHolds, PTL DEF Spec

(***************************************************************************)
(* What fills make of the portfolio                                        *)
(***************************************************************************)

\* What each fill adds to each part of the portfolio.
QuoteGain ==
  [ f \in FillRecords |->
      (IF f.side = "buy" THEN - QuoteValue(f) ELSE QuoteValue(f)) - FeeOf(f) ]
BaseGain == [f \in FillRecords |-> IF f.side = "buy" THEN f.quantity ELSE - f.quantity]
FeeGain  == [f \in FillRecords |-> FeeOf(f)]

\* The portfolio b with so much more.
Credited(b, quote, base, fees) ==
  [quote |-> b.quote + quote, base |-> b.base + base, fees |-> b.fees + fees]

LEMMA GainTypes ==
  /\ QuoteGain \in [FillRecords -> Int] /\ BaseGain \in [FillRecords -> Int]
  /\ FeeGain \in [FillRecords -> Int] /\ \A f \in FillRecords : FeeGain[f] >= 0
<1>1. ASSUME NEW f \in FillRecords
      PROVE  QuoteValue(f) \in Nat /\ FeeOf(f) \in Nat /\ f.quantity \in Nat
  <2>1. NoPortfolio \in Portfolios
    BY DEF NoPortfolio, Portfolios
  <2>2. QuoteValue(f) \in Nat /\ FeeOf(f) \in Nat
    BY <2>1, FillPaid
  <2> QED
    BY <2>2 DEF FillRecords
<1>2. QuoteGain \in [FillRecords -> Int]
  BY <1>1 DEF QuoteGain
<1>3. BaseGain \in [FillRecords -> Int]
  BY <1>1 DEF BaseGain
<1>4. FeeGain \in [FillRecords -> Int] /\ \A f \in FillRecords : FeeGain[f] >= 0
  BY <1>1 DEF FeeGain
<1> QED
  BY <1>2, <1>3, <1>4

LEMMA FillCredits ==
  ASSUME NEW b \in [quote : Int, base : Int, fees : Int], NEW f \in FillRecords
  PROVE  AfterSpotFill(b, f) = Credited(b, QuoteGain[f], BaseGain[f], FeeGain[f])
<1>1. QuoteValue(f) \in Int /\ FeeOf(f) \in Int /\ f.quantity \in Int
  <2>1. NoPortfolio \in Portfolios
    BY DEF NoPortfolio, Portfolios
  <2> QED
    BY <2>1, FillPaid DEF FillRecords
<1>2. b.quote \in Int /\ b.base \in Int /\ b.fees \in Int
  OBVIOUS
<1> QED
  BY <1>1, <1>2 DEF AfterSpotFill, Credited, QuoteGain, BaseGain, FeeGain

\* The portfolio after a sequence of fills: what each fill adds, summed up.
LEMMA FillsCredit ==
  ASSUME NEW b \in Portfolios, NEW s \in Seq(FillRecords)
  PROVE  AfterSpotFills(b, s)
           = Credited(b, Weight(s, QuoteGain), Weight(s, BaseGain), Weight(s, FeeGain))
<1> DEFINE D == DOMAIN s
           q(S) == SumFunctionOnSet(Weights(s, QuoteGain), S)
           a(S) == SumFunctionOnSet(Weights(s, BaseGain), S)
           e(S) == SumFunctionOnSet(Weights(s, FeeGain), S)
           pick == [S \in SUBSET D |-> Max(S)]
           sums == [S \in SUBSET D |-> Credited(b, q(S), a(S), e(S))]
           IsFold(g) == g = [S \in SUBSET D |->
             IF S = {} THEN b ELSE AfterSpotFill(g[S \ {Max(S)}], s[Max(S)])]
<1>1. /\ IsFiniteSet(D) /\ \A n \in D : s[n] \in FillRecords
      /\ \E n \in Nat : D = 1..n
  BY WeightType, GainTypes, ElementOfSeq
<1>2. \A S \in SUBSET D : S # {} => Max(S) \in S /\ pick[S] = Max(S)
  BY <1>1, GreatestElement DEF Max
<1>3. /\ \A n \in D : Weights(s, QuoteGain)[n] = QuoteGain[s[n]] /\ QuoteGain[s[n]] \in Int
      /\ \A n \in D : Weights(s, BaseGain)[n] = BaseGain[s[n]] /\ BaseGain[s[n]] \in Int
      /\ \A n \in D : Weights(s, FeeGain)[n] = FeeGain[s[n]] /\ FeeGain[s[n]] \in Nat
  BY <1>1, GainTypes DEF Weights
<1>4. ASSUME NEW S \in SUBSET D
      PROVE  /\ q(S) \in Int /\ a(S) \in Int /\ e(S) \in Int
             /\ S = {} => q(S) = 0 /\ a(S) = 0 /\ e(S) = 0
  <2>1. IsFiniteSet(S)
    BY <1>1, FS_Subset
  <2> QED
    <3>1. /\ \A n \in S : Weights(s, QuoteGain)[n] \in Int
          /\ \A n \in S : Weights(s, BaseGain)[n] \in Int
          /\ \A n \in S : Weights(s, FeeGain)[n] \in Int
      BY <1>3
    <3>2. q(S) \in Int /\ (S = {} => q(S) = 0)
      BY <2>1, <3>1, SumChosen
    <3>3. a(S) \in Int /\ (S = {} => a(S) = 0)
      BY <2>1, <3>1, SumChosen
    <3>4. e(S) \in Int /\ (S = {} => e(S) = 0)
      BY <2>1, <3>1, SumChosen
    <3> QED
      BY <3>2, <3>3, <3>4
<1> HIDE DEF q, a, e
<1>5. /\ b \in [quote : Int, base : Int, fees : Int] /\ b = Credited(b, 0, 0, 0)
      /\ \A S \in SUBSET D : sums[S] \in [quote : Int, base : Int, fees : Int]
  <2>1. b.quote \in Int /\ b.base \in Int /\ b.fees \in Int
    BY DEF Portfolios
  <2>2. b = [quote |-> b.quote, base |-> b.base, fees |-> b.fees]
    BY DEF Portfolios
  <2>3. b = Credited(b, 0, 0, 0)
    BY <2>1, <2>2 DEF Credited
  <2>4. ASSUME NEW S \in SUBSET D
        PROVE  sums[S] \in [quote : Int, base : Int, fees : Int]
    <3>1. sums[S] = Credited(b, q(S), a(S), e(S))
      OBVIOUS
    <3>2. q(S) \in Int /\ a(S) \in Int /\ e(S) \in Int
      BY <1>4
    <3> HIDE DEF sums, D
    <3> QED
      BY <2>1, <3>1, <3>2 DEF Credited
  <2>5. b \in [quote : Int, base : Int, fees : Int]
    BY DEF Portfolios
  <2> HIDE DEF sums, D
  <2> QED
    BY <2>3, <2>4, <2>5
<1>6. ASSUME NEW S \in SUBSET D, S # {}
      PROVE  /\ S \ {Max(S)} \in SUBSET D
             /\ sums[S] = AfterSpotFill(sums[S \ {Max(S)}], s[Max(S)])
  <2> DEFINE m == Max(S)
             rest == S \ {m}
             f == s[m]
  <2>1. m \in S /\ m \in D /\ rest \in SUBSET D /\ f \in FillRecords
    BY <1>1, <1>2, <1>6
  <2>2. IsFiniteSet(S)
    BY <1>1, FS_Subset
  <2>3. /\ q(S) = QuoteGain[f] + q(rest) /\ a(S) = BaseGain[f] + a(rest)
        /\ e(S) = FeeGain[f] + e(rest)
    <3> HIDE DEF m
    <3>1. \A n \in S : n \in D
      OBVIOUS
    <3>2. \A n \in S : Weights(s, QuoteGain)[n] \in Int
      BY <1>3, <3>1
    <3>3. \A n \in S : Weights(s, BaseGain)[n] \in Int
      BY <1>3, <3>1
    <3>4. \A n \in S : Weights(s, FeeGain)[n] \in Int
      BY <1>3, <3>1
    <3>5. q(S) = Weights(s, QuoteGain)[m] + q(rest)
      BY <2>1, <2>2, <3>2, SumRemove DEF q
    <3>6. a(S) = Weights(s, BaseGain)[m] + a(rest)
      BY <2>1, <2>2, <3>3, SumRemove DEF a
    <3>7. e(S) = Weights(s, FeeGain)[m] + e(rest)
      BY <2>1, <2>2, <3>4, SumRemove DEF e
    <3> QED
      BY <1>3, <2>1, <3>5, <3>6, <3>7
  <2>4. /\ q(rest) \in Int /\ a(rest) \in Int /\ e(rest) \in Int
        /\ QuoteGain[f] \in Int /\ BaseGain[f] \in Int /\ FeeGain[f] \in Int
    <3>1. q(rest) \in Int /\ a(rest) \in Int /\ e(rest) \in Int
      BY <1>4, <2>1
    <3> HIDE DEF m, f
    <3>2. QuoteGain[f] \in Int /\ BaseGain[f] \in Int /\ FeeGain[f] \in Int
      BY <2>1, GainTypes
    <3> QED
      BY <3>1, <3>2
  <2>5. AfterSpotFill(sums[rest], f)
          = Credited(sums[rest], QuoteGain[f], BaseGain[f], FeeGain[f])
    BY <1>5, <2>1, FillCredits
  <2>6. /\ sums[rest] = Credited(b, q(rest), a(rest), e(rest))
        /\ sums[S] = Credited(b, q(S), a(S), e(S))
    BY <2>1
  <2>7. b.quote \in Int /\ b.base \in Int /\ b.fees \in Int
    BY <1>5
  <2> HIDE DEF m, rest, f, sums
  <2>8. sums[S] = AfterSpotFill(sums[rest], f)
    <3>1. /\ sums[rest].quote = b.quote + q(rest) /\ sums[rest].base = b.base + a(rest)
          /\ sums[rest].fees = b.fees + e(rest)
      BY <2>6 DEF Credited
    <3>2. \A x \in Int, y \in Int, z \in Int : (x + y) + z = x + (z + y)
      OBVIOUS
    <3>3. sums[rest].quote + QuoteGain[f] = b.quote + q(S)
      BY <2>3, <2>4, <2>7, <3>1, <3>2
    <3>4. sums[rest].base + BaseGain[f] = b.base + a(S)
      BY <2>3, <2>4, <2>7, <3>1, <3>2
    <3>5. sums[rest].fees + FeeGain[f] = b.fees + e(S)
      BY <2>3, <2>4, <2>7, <3>1, <3>2
    <3> QED
      BY <2>5, <2>6, <3>3, <3>4, <3>5 DEF Credited
  <2> QED
    BY <2>1, <2>8 DEF m, rest, f
<1>7. IsFold(sums)
  <2>1. sums[{}] = b
    <3>1. q({}) = 0 /\ a({}) = 0 /\ e({}) = 0
      BY <1>4
    <3>2. sums[{}] = Credited(b, q({}), a({}), e({}))
      OBVIOUS
    <3> QED
      BY <1>5, <3>1, <3>2
  <2> HIDE DEF D
  <2> QED
    BY <1>6, <2>1
<1>8. PICK g : IsFold(g) /\ AfterSpotFills(b, s) = g[D]
  <2>1. IsFold(CHOOSE g : IsFold(g))
    BY <1>7
  <2>2. AfterSpotFills(b, s) = (CHOOSE g : IsFold(g))[D]
    BY DEF AfterSpotFills, FoldLeft, MapThenFoldSet
  <2> QED
    BY <2>1, <2>2
<1>9. g[D] = sums[D]
  <2> DEFINE Bad == { S \in SUBSET D : g[S] # sums[S] }
  <2>1. SUFFICES ASSUME Bad # {}
                 PROVE  FALSE
    OBVIOUS
  <2>2. PICK S \in Bad : \A n \in S : S \ {n} \notin Bad
    BY <1>1, <2>1, MinimalSubset
  <2>3. S \in SUBSET D /\ g[S] # sums[S]
    OBVIOUS
  <2>4. CASE S = {}
    BY <1>7, <1>8, <2>3, <2>4
  <2>5. CASE S # {}
    <3>1. Max(S) \in S /\ S \ {Max(S)} \in SUBSET D
      BY <1>2, <2>3, <2>5
    <3>2. g[S \ {Max(S)}] = sums[S \ {Max(S)}]
      BY <2>2, <3>1
    <3>3. g[S] = AfterSpotFill(g[S \ {Max(S)}], s[Max(S)])
      BY <1>8, <2>3, <2>5
    <3>4. sums[S] = AfterSpotFill(sums[S \ {Max(S)}], s[Max(S)])
      BY <1>6, <2>3, <2>5
    <3> QED
      BY <2>3, <3>2, <3>3, <3>4
  <2> QED
    BY <2>4, <2>5
<1>10. /\ q(D) = Weight(s, QuoteGain) /\ a(D) = Weight(s, BaseGain)
       /\ e(D) = Weight(s, FeeGain)
  BY DEF q, a, e, Weight, Weights, SumFunction
<1> QED
  BY <1>8, <1>9, <1>10

(***************************************************************************)
(* The portfolio and the stored fills                                      *)
(***************************************************************************)

\* What the fills weigh that have been paid for in this life.
PaidNow(w) ==
  Weight(db.fills, w) + Weight(gone.unsaved, w) + Total(Paids(pc, job), w)

\* The part of it that a step of the thread t can change.
PaidPart(t, w) ==
  Weight(db.fills, w) + Weight(gone.unsaved, w) + Weight(PaidAt(pc[t], job[t]), w)

LEMMA PaidMoves ==
  ASSUME IInv, IInv', NEW t \in Threads, ThreadStep(t), NEW w \in [FillRecords -> Int]
  PROVE  /\ PaidNow(w)' - PaidNow(w) = PaidPart(t, w)' - PaidPart(t, w)
         /\ PaidNow(w) \in Int /\ PaidNow(w)' \in Int /\ PaidPart(t, w) \in Int
<1> DEFINE a == Weight(db.fills, w) + Weight(gone.unsaved, w)
           b == Weight(PaidAt(pc[t], job[t]), w)
           c == Total(Paids(pc, job), w)
           x == Weight(db'.fills, w) + Weight(gone'.unsaved, w)
           y == Weight(PaidAt(pc'[t], job'[t]), w)
           z == Total(Paids(pc', job'), w)
<1>1. a \in Int /\ b \in Int /\ c \in Int
  BY LedgerType
<1>2. x \in Int
  <2>1. Weight(db'.fills, w) \in Int /\ Weight(gone'.unsaved, w) \in Int
    BY WeightType DEF IInv, SharedOK
  <2> QED
    BY <2>1
<1>3. y \in Int /\ z = c - b + y
  BY HandsChange
<1>4. PaidNow(w) = a + c /\ PaidNow(w)' = x + z
  BY DEF PaidNow
<1>5. PaidPart(t, w) = a + b /\ PaidPart(t, w)' = x + y
  BY DEF PaidPart
<1> HIDE DEF a, b, c, x, y, z
<1> QED
  BY <1>1, <1>2, <1>3, <1>4, <1>5

\* No call is storing a fill before the step, nor after.
LEMMA NothingPaid ==
  ASSUME IInv, NEW t \in Threads, ThreadStep(t), pc[t] # "save_fill",
         ~ (ApplyToPortfolio(t) /\ Affordable(cash, TheFill(t)))
  PROVE  /\ PaidAt(pc[t], job[t]) = << >> /\ PaidAt(pc'[t], job'[t]) = << >>
         /\ db'.fills = db.fills /\ gone'.unsaved = gone.unsaved /\ cash' = cash
<1>1. DOMAIN gone = { "lost", "unsaved" } /\ pc \in [Threads -> Steps] /\ DOMAIN job = Threads
  BY DEF IInv, SharedOK
<1>2. PaidAt(pc[t], job[t]) = << >>
  BY DEF PaidAt
<1>3. CASE \/ Submit(t) \/ UpsertPlaced(t) \/ SavePlaced(t) \/ Finish(t) \/ CopyBalances(t)
           \/ SaveBalances(t) \/ QueryOrder(t) \/ ReflectInOms(t) \/ ReleaseFilled(t)
           \/ SaveSeen(t) \/ MissedTick(t) \/ (\E id \in OrderIds : ReadMarket(t, id))
           \/ \E top \in Ticks : TickMarket(t, top)
  <2>1. db'.fills = db.fills /\ gone' = gone
    BY <1>3, StillSteps DEF Still
  <2>2. pc'[t] # "save_fill" /\ cash' = cash
    BY <1>1, <1>3
    DEF Submit, AfterRefusal, UpsertPlaced, SavePlaced, Finish, CopyBalances, SaveBalances,
        QueryOrder, ReflectInOms, ReleaseFilled, SaveSeen, MissedTick, ReadMarket,
        TickMarket, Goto
  <2> QED
    BY <1>2, <2>1, <2>2 DEF PaidAt
<1>4. CASE Place(t) \/ TickEngine(t) \/ TakeFills(t) \/ NextFill(t)
  <2>1. db' = db /\ gone' = gone /\ cash' = cash
    BY <1>4 DEF Place, TickEngine, TakeFills, NextFill, meta, errors
  <2>2. pc'[t] # "save_fill"
    BY <1>1, <1>4 DEF Place, TickEngine, TakeFills, NextFill, AfterDrain, Goto
  <2> QED
    BY <1>2, <2>1, <2>2 DEF PaidAt
<1>5. CASE ApplyToPortfolio(t)
  <2>1. db' = db /\ gone'.unsaved = gone.unsaved /\ cash' = cash
    BY <1>1, <1>5 DEF ApplyToPortfolio
  <2>2. pc'[t] # "save_fill"
    BY <1>1, <1>5 DEF ApplyToPortfolio, GiveUp, Goto
  <2> QED
    BY <1>2, <2>1, <2>2 DEF PaidAt
<1>6. CASE StoreFails(t)
  <2>1. db'.fills = db.fills
    BY <1>6, PartlyWrittenOK DEF StoreFails
  <2>2. gone'.unsaved = gone.unsaved /\ cash' = cash
    BY <1>1, <1>6 DEF StoreFails
  <2>3. pc'[t] # "save_fill"
    BY <1>1, <1>6 DEF StoreFails, GiveUp, Goto
  <2> QED
    BY <1>2, <2>1, <2>2, <2>3 DEF PaidAt
<1>7. CASE SaveFill(t)
  BY <1>7 DEF SaveFill
<1> QED
  BY <1>3, <1>4, <1>5, <1>6, <1>7 DEF ThreadStep, Continue

\* A fill is paid for when the portfolio takes it, and by no other step.
LEMMA PaidStep ==
  ASSUME IInv, IInv', NEW t \in Threads, ThreadStep(t), NEW w \in [FillRecords -> Int]
  PROVE  IF ApplyToPortfolio(t) /\ Affordable(cash, TheFill(t))
           THEN PaidNow(w)' = PaidNow(w) + w[TheFill(t)]
           ELSE PaidNow(w)' = PaidNow(w) /\ cash' = cash
<1>1. /\ Weight(db.fills, w) \in Int /\ Weight(gone.unsaved, w) \in Int
      /\ db.fills \in Seq(FillRecords) /\ gone.unsaved \in Seq(FillRecords)
      /\ DOMAIN gone = { "lost", "unsaved" } /\ DOMAIN db = { "orders", "fills", "balances" }
      /\ pc \in [Threads -> Steps] /\ DOMAIN job = Threads
  BY MovedParts
<1>2. Weight(<< >>, w) = 0
  BY WeightEmpty
<1>3. PaidPart(t, w) = Weight(db.fills, w) + Weight(gone.unsaved, w)
                         + Weight(PaidAt(pc[t], job[t]), w)
  BY DEF PaidPart
<1>4. PaidPart(t, w)' = Weight(db'.fills, w) + Weight(gone'.unsaved, w)
                          + Weight(PaidAt(pc'[t], job'[t]), w)
  BY DEF PaidPart
<1>5. /\ PaidNow(w)' - PaidNow(w) = PaidPart(t, w)' - PaidPart(t, w)
      /\ PaidNow(w) \in Int /\ PaidNow(w)' \in Int /\ PaidPart(t, w) \in Int
  BY PaidMoves
<1>6. ASSUME ApplyToPortfolio(t), Affordable(cash, TheFill(t))
      PROVE  PaidNow(w)' = PaidNow(w) + w[TheFill(t)]
  <2>1. TheFill(t) \in FillRecords
    BY <1>6, CarryingCall DEF ApplyToPortfolio, Carrying
  <2>2. pc[t] = "apply" /\ pc'[t] = "save_fill" /\ job' = job /\ db' = db /\ gone' = gone
    BY <1>1, <1>6 DEF ApplyToPortfolio, Goto
  <2>3. PaidAt(pc[t], job[t]) = << >> /\ PaidAt(pc'[t], job'[t]) = << TheFill(t) >>
    BY <2>2 DEF PaidAt, TheFill
  <2>4. Weight(<< TheFill(t) >>, w) = w[TheFill(t)] /\ w[TheFill(t)] \in Int
    BY <2>1, FillsWeigh
  <2>5. PaidPart(t, w) = Weight(db.fills, w) + Weight(gone.unsaved, w) + Weight(<< >>, w)
    BY <1>3, <2>3
  <2>6. PaidPart(t, w)' = Weight(db.fills, w) + Weight(gone.unsaved, w)
                            + Weight(<< TheFill(t) >>, w)
    BY <1>4, <2>2, <2>3
  <2>7. PaidPart(t, w)' = PaidPart(t, w) + w[TheFill(t)]
    BY <1>1, <1>2, <2>4, <2>5, <2>6
  <2> QED
    BY <1>5, <2>4, <2>7
<1>7. ASSUME pc[t] = "save_fill"
      PROVE  PaidPart(t, w)' = PaidPart(t, w) /\ cash' = cash
  <2>1. TheFill(t) \in FillRecords
    BY <1>7, CarryingCall DEF Carrying
  <2>2. PaidAt(pc[t], job[t]) = << TheFill(t) >>
    BY <1>7 DEF PaidAt, TheFill
  <2>3. Weight(<< TheFill(t) >>, w) = w[TheFill(t)] /\ w[TheFill(t)] \in Int
    BY <2>1, FillsWeigh
  <2>4. PaidPart(t, w) = Weight(db.fills, w) + Weight(gone.unsaved, w) + w[TheFill(t)]
    BY <1>3, <2>2, <2>3
  <2>5. CASE SaveFill(t)
    <3>1. db'.fills = Append(db.fills, TheFill(t)) /\ gone' = gone /\ cash' = cash
      BY <1>1, <2>5 DEF SaveFill, meta, errors
    <3>2. PaidAt(pc'[t], job'[t]) = << >>
      BY <1>1, <2>5 DEF SaveFill, Goto, PaidAt
    <3>3. Weight(Append(db.fills, TheFill(t)), w) = Weight(db.fills, w) + w[TheFill(t)]
      <4>1. db.fills \in Seq(FillRecords)
        BY <1>1
      <4> QED
        BY <2>1, <4>1, WeightAppend
    <3>4. PaidPart(t, w)' = (Weight(db.fills, w) + w[TheFill(t)]) + Weight(gone.unsaved, w)
                              + Weight(<< >>, w)
      BY <1>4, <3>1, <3>2, <3>3
    <3> QED
      BY <1>1, <1>2, <2>3, <2>4, <3>1, <3>4
  <2>6. CASE StoreFails(t)
    <3>1. /\ gone'.unsaved = Append(gone.unsaved, TheFill(t)) /\ db' = db /\ cash' = cash
      BY <1>7, <2>6 DEF StoreFails
    <3>2. PaidAt(pc'[t], job'[t]) = << >>
      BY <1>1, <2>6 DEF StoreFails, GiveUp, Goto, PaidAt
    <3>3. Weight(Append(gone.unsaved, TheFill(t)), w)
            = Weight(gone.unsaved, w) + w[TheFill(t)]
      <4>1. gone.unsaved \in Seq(FillRecords)
        BY <1>1
      <4> QED
        BY <2>1, <4>1, WeightAppend
    <3>4. PaidPart(t, w)' = Weight(db.fills, w) + (Weight(gone.unsaved, w) + w[TheFill(t)])
                              + Weight(<< >>, w)
      BY <1>4, <3>1, <3>2, <3>3
    <3> QED
      BY <1>1, <1>2, <2>3, <2>4, <3>1, <3>4
  <2>7. SaveFill(t) \/ StoreFails(t)
    BY <1>7
    DEF ThreadStep, Continue, Submit, Place, UpsertPlaced, SavePlaced, Finish, TickEngine,
        TakeFills, ApplyToPortfolio, QueryOrder, ReflectInOms, ReleaseFilled, SaveSeen,
        NextFill, CopyBalances, SaveBalances, ReadMarket, TickMarket, MissedTick, Ready,
        TickDone
  <2> QED
    BY <2>5, <2>6, <2>7
<1>8. ASSUME pc[t] # "save_fill", ~ (ApplyToPortfolio(t) /\ Affordable(cash, TheFill(t)))
      PROVE  PaidPart(t, w)' = PaidPart(t, w) /\ cash' = cash
  BY <1>3, <1>4, <1>8, NothingPaid
<1>9. ApplyToPortfolio(t) => pc[t] # "save_fill"
  BY DEF ApplyToPortfolio
<1>10. ASSUME ~ (ApplyToPortfolio(t) /\ Affordable(cash, TheFill(t)))
       PROVE  PaidNow(w)' = PaidNow(w) /\ cash' = cash
  <2>1. PaidPart(t, w)' = PaidPart(t, w) /\ cash' = cash
    BY <1>7, <1>8, <1>10
  <2> QED
    BY <1>5, <2>1
<1> QED
  BY <1>6, <1>10

\* The portfolio is the opening one with what every fill adds that was paid for.
MoneyAccounted ==
  cash = Credited(IF boot.step = "seed" THEN NoPortfolio ELSE Opening,
                  PaidNow(QuoteGain), PaidNow(BaseGain), PaidNow(FeeGain))

LEMMA NothingPaidYet ==
  ASSUME IInv, db.fills = << >>, gone.unsaved = << >>, \A t \in Threads : pc[t] = "idle",
         NEW w \in [FillRecords -> Int]
  PROVE  PaidNow(w) = 0
<1>1. Weight(<< >>, w) = 0
  BY WeightEmpty
<1>2. \A t \in Threads : Paids(pc, job)[t] = << >>
  BY DEF Paids, PaidAt
<1>3. Total(Paids(pc, job), w) = 0
  BY <1>2, LedgerType, TotalType
<1> QED
  BY <1>1, <1>3 DEF PaidNow

LEMMA OpeningTypes ==
  /\ NoPortfolio \in Portfolios /\ Opening \in Portfolios
  /\ Credited(NoPortfolio, 0, 0, 0) = NoPortfolio /\ Credited(Opening, 0, 0, 0) = Opening
<1>1. Opening = [quote |-> SeedQuote, base |-> 0, fees |-> 0] /\ SeedQuote \in Nat
  BY RuntimeAssumption DEF Opening, NoPortfolio
<1> QED
  BY <1>1 DEF NoPortfolio, Portfolios, Credited

LEMMA MoneyInit ==
  ASSUME IInv, Init
  PROVE  MoneyAccounted
<1>1. PaidNow(QuoteGain) = 0 /\ PaidNow(BaseGain) = 0 /\ PaidNow(FeeGain) = 0
  BY NothingPaidYet, GainTypes DEF Init, NoneGone, IdleThreads
<1> QED
  BY <1>1, OpeningTypes DEF Init, AtBoot, MoneyAccounted

LEMMA MoneyStep ==
  ASSUME CallsWait, FirstLife', IInv, IInv', Unstarted, Unstarted', MoneyAccounted, [Next]_vars
  PROVE  MoneyAccounted'
<1>1. CASE Boot
  <2>1. db' = db /\ gone' = gone /\ pc' = pc /\ job' = job
    BY <1>1 DEF Boot, BootSeed, BootLoad, BootRestore, limbs, errors
  <2>2. boot.step # "done"
    BY <1>1 DEF Boot, BootSeed, BootLoad, BootRestore
  <2>3. /\ \A t \in Threads : pc[t] = "idle"
        /\ db.fills = << >> /\ gone.unsaved = << >>
    BY <2>2 DEF Unstarted, NoneGone
  <2>4. PaidNow(QuoteGain) = 0 /\ PaidNow(BaseGain) = 0 /\ PaidNow(FeeGain) = 0
    BY <2>3, NothingPaidYet, GainTypes
  <2>5. /\ PaidNow(QuoteGain)' = PaidNow(QuoteGain) /\ PaidNow(BaseGain)' = PaidNow(BaseGain)
        /\ PaidNow(FeeGain)' = PaidNow(FeeGain)
    BY <2>1 DEF PaidNow
  <2>6. cash' = Opening /\ boot'.step # "seed"
    <3>1. CASE BootSeed
      BY <3>1 DEF BootSeed, Unstarted, Opening, IInv, SharedOK
    <3>2. CASE BootLoad
      BY <3>2 DEF BootLoad, Unstarted
    <3>3. CASE BootRestore
      BY <3>3 DEF BootRestore, Unstarted
    <3> QED
      BY <1>1, <3>1, <3>2, <3>3 DEF Boot
  <2> QED
    BY <2>4, <2>5, <2>6, OpeningTypes DEF MoneyAccounted
<1>2. ASSUME NEW t \in Threads, ThreadStep(t)
      PROVE  MoneyAccounted'
  <2>1. boot' = boot
    BY <1>2, StartedCall DEF Unstarted
  <2> DEFINE f == TheFill(t)
             old == IF boot.step = "seed" THEN NoPortfolio ELSE Opening
  <2>2. CASE ~ (ApplyToPortfolio(t) /\ Affordable(cash, TheFill(t)))
    <3>1. /\ PaidNow(QuoteGain)' = PaidNow(QuoteGain) /\ PaidNow(BaseGain)' = PaidNow(BaseGain)
          /\ PaidNow(FeeGain)' = PaidNow(FeeGain) /\ cash' = cash
      BY <1>2, <2>2, PaidStep, GainTypes
    <3> QED
      BY <2>1, <3>1 DEF MoneyAccounted
  <2>3. CASE ApplyToPortfolio(t) /\ Affordable(cash, TheFill(t))
    <3>1. f \in FillRecords /\ cash' = AfterSpotFill(cash, f)
      BY <2>3, CarryingCall DEF ApplyToPortfolio, Carrying
    <3>2. cash \in [quote : Int, base : Int, fees : Int]
      BY DEF IInv, SharedOK, Portfolios
    <3>3. cash' = Credited(cash, QuoteGain[f], BaseGain[f], FeeGain[f])
      BY <3>1, <3>2, FillCredits
    <3>4. PaidNow(QuoteGain)' = PaidNow(QuoteGain) + QuoteGain[f]
      BY <1>2, <2>3, PaidStep, GainTypes
    <3>5. PaidNow(BaseGain)' = PaidNow(BaseGain) + BaseGain[f]
      BY <1>2, <2>3, PaidStep, GainTypes
    <3>6. PaidNow(FeeGain)' = PaidNow(FeeGain) + FeeGain[f]
      BY <1>2, <2>3, PaidStep, GainTypes
    <3>7. PaidNow(QuoteGain) \in Int /\ PaidNow(BaseGain) \in Int /\ PaidNow(FeeGain) \in Int
      BY <1>2, PaidMoves, GainTypes
    <3> HIDE DEF f
    <3>8. QuoteGain[f] \in Int /\ BaseGain[f] \in Int /\ FeeGain[f] \in Int
      BY <3>1, GainTypes
    <3>9. old.quote \in Int /\ old.base \in Int /\ old.fees \in Int
      BY OpeningTypes DEF Portfolios
    <3>10. cash = Credited(old, PaidNow(QuoteGain), PaidNow(BaseGain), PaidNow(FeeGain))
      BY DEF MoneyAccounted
    <3> HIDE DEF old
    <3>11. \A x \in Int, y \in Int, z \in Int : (x + y) + z = x + (y + z)
      OBVIOUS
    <3>12. /\ cash.quote = old.quote + PaidNow(QuoteGain)
           /\ cash.base = old.base + PaidNow(BaseGain)
           /\ cash.fees = old.fees + PaidNow(FeeGain)
      BY <3>10 DEF Credited
    <3>13. cash.quote + QuoteGain[f] = old.quote + (PaidNow(QuoteGain) + QuoteGain[f])
      BY <3>7, <3>8, <3>9, <3>11, <3>12
    <3>14. cash.base + BaseGain[f] = old.base + (PaidNow(BaseGain) + BaseGain[f])
      BY <3>7, <3>8, <3>9, <3>11, <3>12
    <3>15. cash.fees + FeeGain[f] = old.fees + (PaidNow(FeeGain) + FeeGain[f])
      BY <3>7, <3>8, <3>9, <3>11, <3>12
    <3>16. cash' = Credited(old, PaidNow(QuoteGain) + QuoteGain[f],
                            PaidNow(BaseGain) + BaseGain[f], PaidNow(FeeGain) + FeeGain[f])
      BY <3>3, <3>13, <3>14, <3>15 DEF Credited
    <3> QED
      BY <2>1, <3>4, <3>5, <3>6, <3>16 DEF MoneyAccounted, old
  <2> QED
    BY <2>2, <2>3
<1>3. CASE UNCHANGED vars
  BY <1>3 DEF MoneyAccounted, PaidNow, Paids, vars
<1> QED
  BY <1>1, <1>2, <1>3, StillFirstLife DEF Next, ThreadStep

\* When nothing is in progress the portfolio is what the fills make of the opening
\* balances that are stored, or that failed to be: of any number of threads, no
\* two pay for the same fill, none stores one unpaid, and none is paid for whose
\* storing did not at least fail.  Until the first crash.
THEOREM PortfolioAlwaysMatchesFills ==
  ASSUME CallsWait
  PROVE  Spec => [](FirstLife => PortfolioMatchesFills)
<1> DEFINE Inv == FirstLife => Unstarted /\ MoneyAccounted
<1>1. IInv /\ Init => Inv
  BY UnstartedInit, MoneyInit
<1>2. IInv /\ IInv' /\ Inv /\ [Next]_vars => Inv'
  BY StillFirstLife, UnstartedStep, MoneyStep
<1>3. ASSUME IInv, Inv, FirstLife, Quiet
      PROVE  cash = AfterSpotFills(Opening, db.fills \o gone.unsaved)
  <2> DEFINE fills == db.fills \o gone.unsaved
  <2>1. db.fills \in Seq(FillRecords) /\ gone.unsaved \in Seq(FillRecords)
    BY <1>3 DEF IInv, SharedOK
  <2>2. fills \in Seq(FillRecords)
    BY <2>1, ConcatProperties
  <2>3. \A t \in Threads : Paids(pc, job)[t] = << >>
    BY <1>3 DEF Quiet, Paids, PaidAt
  <2>4. ASSUME NEW w \in [FillRecords -> Int]
        PROVE  PaidNow(w) = Weight(fills, w)
    <3>1. Total(Paids(pc, job), w) = 0
      BY <1>3, <2>3, LedgerType, TotalType
    <3>2. Weight(fills, w) = Weight(db.fills, w) + Weight(gone.unsaved, w)
      BY <2>1, WeightJoined
    <3>3. Weight(db.fills, w) \in Int /\ Weight(gone.unsaved, w) \in Int
      BY <2>1, WeightType
    <3> QED
      BY <3>1, <3>2, <3>3 DEF PaidNow
  <2>5. cash = Credited(Opening, PaidNow(QuoteGain), PaidNow(BaseGain), PaidNow(FeeGain))
    BY <1>3 DEF Quiet, MoneyAccounted
  <2> HIDE DEF fills
  <2>6. cash = Credited(Opening, Weight(fills, QuoteGain), Weight(fills, BaseGain),
                        Weight(fills, FeeGain))
    BY <2>4, <2>5, GainTypes
  <2>7. AfterSpotFills(Opening, fills)
          = Credited(Opening, Weight(fills, QuoteGain), Weight(fills, BaseGain),
                     Weight(fills, FeeGain))
    BY <2>2, OpeningTypes, FillsCredit
  <2> QED
    BY <2>6, <2>7 DEF fills
<1>4. IInv /\ Inv => (FirstLife => PortfolioMatchesFills)
  BY <1>3 DEF PortfolioMatchesFills
<1> HIDE DEF Inv
<1> QED
  BY <1>1, <1>2, <1>4, InvariantHolds, PTL DEF Spec

(***************************************************************************)
(* What is executed in all                                                 *)
(***************************************************************************)

\* The engine holds an order in the quantity its intent asked for.
AsAsked == \A id \in DOMAIN venue : venue[id].quantity = Request[id].quantity

LEMMA AskedStep ==
  ASSUME CallsWait, FirstLife', IInv, Unstarted, AsAsked, [Next]_vars
  PROVE  AsAsked'
<1>1. CASE Boot
  BY <1>1, NothingRestored DEF AsAsked
<1>2. ASSUME NEW t \in Threads, Place(t)
      PROVE  AsAsked'
  <2>1. job[t].id \in OrderIds /\ book \in Tops
    BY <1>2, JobOf DEF Place, JobAt, Asked, IInv, SharedOK
  <2>2. Placed(job[t].id, book).order.quantity = Request[job[t].id].quantity
    BY <2>1, PlacedType
  <2>3. venue' = Put(venue, job[t].id, Placed(job[t].id, book).order)
    BY <1>2 DEF Place
  <2> QED
    BY <2>2, <2>3 DEF AsAsked, Put
<1>3. ASSUME NEW t \in Threads, TickEngine(t)
      PROVE  AsAsked'
  BY <1>3, TickMatched DEF AsAsked, Matching, Continues
<1>4. ASSUME NEW t \in Threads, ThreadStep(t), ~ Place(t), ~ TickEngine(t)
      PROVE  AsAsked'
  BY <1>4, VenueStands DEF AsAsked
<1>5. CASE UNCHANGED vars
  BY <1>5 DEF AsAsked, vars
<1> QED
  BY <1>1, <1>2, <1>3, <1>4, <1>5, StillFirstLife DEF Next, ThreadStep

\* Until the first crash no order is executed beyond its quantity, by any number
\* of threads and through any errors: that it may be needs a crash.
THEOREM ExecutedAtMostOnceInFirstLife ==
  ASSUME CallsWait
  PROVE  Spec => [](FirstLife => ExecutedAtMostOnce)
<1> DEFINE Inv == FirstLife => Unstarted /\ FreshIds /\ FillsAccounted /\ AsAsked
<1>1. IInv /\ Init => Inv
  <2>1. Init => AsAsked
    BY DEF Init, AsAsked, NoOrders
  <2> QED
    BY <2>1, UnstartedInit, FreshInit, AccountedInit
<1>2. IInv /\ IInv' /\ Inv /\ [Next]_vars => Inv'
  BY StillFirstLife, UnstartedStep, FreshStep, AccountedStep, AskedStep
<1>3. ASSUME IInv, Inv, FirstLife, NEW id \in OrderIds
      PROVE  FilledBy(db.fills, id) <= Request[id].quantity
  <2>1. Executed(id) <= Request[id].quantity /\ Executed(id) \in Nat
    <3>1. CASE id \in DOMAIN venue
      <4>1. venue[id] \in OrderRecords /\ venue[id].quantity = Request[id].quantity
        BY <1>3, <3>1 DEF IInv, SharedOK, Books, AsAsked
      <4>2. venue[id].filled \in Nat /\ venue[id].filled <= venue[id].quantity
        BY <4>1, OrderFields
      <4> QED
        BY <3>1, <4>1, <4>2 DEF Executed
    <3>2. CASE id \notin DOMAIN venue
      BY <3>2, SentType DEF Executed
    <3> QED
      BY <3>1, <3>2
  <2>2. Executed(id) = LedgerNow(Amount(id))
    BY <1>3 DEF FillsAccounted
  <2> DEFINE w == Amount(id)
  <2>3. w \in [FillRecords -> Int] /\ \A f \in FillRecords : w[f] >= 0
    BY AmountType
  <2>4. FilledBy(db.fills, id) = Weight(db.fills, w)
    BY <1>3, FilledByWeight DEF IInv, SharedOK
  <2>5. Weight(db.fills, w) <= LedgerNow(w)
    <3> HIDE DEF w
    <3>1. /\ Weight(gone.lost, w) >= 0 /\ Weight(gone.unsaved, w) >= 0
          /\ Weight(pending, w) >= 0
      BY <1>3, <2>3, WeightType DEF IInv, SharedOK
    <3>2. Total(Hands(pc, job), w) >= 0
      BY <1>3, <2>3, LedgerType, TotalNonNegative
    <3>3. /\ Weight(db.fills, w) \in Int /\ Weight(gone.lost, w) \in Int
          /\ Weight(gone.unsaved, w) \in Int /\ Weight(pending, w) \in Int
          /\ Total(Hands(pc, job), w) \in Int
      BY <1>3, <2>3, LedgerType
    <3> QED
      BY <3>1, <3>2, <3>3 DEF LedgerNow, Ledger
  <2>6. Weight(db.fills, w) \in Int /\ LedgerNow(w) \in Int
    BY <1>3, <2>1, <2>2, <2>3, LedgerType
  <2> HIDE DEF w
  <2>7. LedgerNow(w) = Executed(id)
    BY <2>2 DEF w
  <2>8. Request[id].quantity \in Int
    BY SentType
  <2> QED
    BY <2>1, <2>4, <2>5, <2>6, <2>7, <2>8
<1>4. IInv /\ Inv => (FirstLife => ExecutedAtMostOnce)
  BY <1>3 DEF ExecutedAtMostOnce
<1> HIDE DEF Inv
<1> QED
  BY <1>1, <1>2, <1>4, InvariantHolds, PTL DEF Spec

(***************************************************************************)
(* One thread: the demo process                                            *)
(***************************************************************************)

OneThread == \E t : Threads = {t}

\* What no call has gone wrong after, none had gone wrong before.
LEMMA NoErrorBefore ==
  ASSUME IInv, [Next]_vars, ~ Crash, NoError'
  PROVE  /\ NoError
         /\ \A t \in Threads : /\ ~ StoreFails(t)
                               /\ ApplyToPortfolio(t) => Affordable(cash, TheFill(t))
<1>1. faults \in Nat /\ DOMAIN gone = { "lost", "unsaved" } /\ gone.lost \in Seq(FillRecords)
  BY RuntimeAssumption DEF IInv, SharedOK
<1>2. ASSUME NEW t \in Threads, StoreFails(t)
      PROVE  FALSE
  BY <1>1, <1>2 DEF StoreFails, NoError
<1>3. ASSUME NEW t \in Threads, ApplyToPortfolio(t)
      PROVE  Affordable(cash, TheFill(t)) /\ NoError
  <2>1. job[t].todo \in Seq(FillRecords) /\ job[t].todo # << >>
    BY <1>3, CarryingCall DEF ApplyToPortfolio, Carrying
  <2>2. gone.lost \o job[t].todo # << >>
    <3>1. /\ Len(job[t].todo) > 0 /\ Len(gone.lost) \in Nat
          /\ Len(gone.lost \o job[t].todo) = Len(gone.lost) + Len(job[t].todo)
      BY <1>1, <2>1, AmountType, WeightTail, ConcatProperties, LenProperties
    <3> QED
      BY <3>1
  <2>3. gone'.lost = << >> /\ faults' = faults
    BY <1>3 DEF NoError, NoneGone, ApplyToPortfolio
  <2>4. Affordable(cash, TheFill(t))
    BY <1>1, <1>3, <2>2, <2>3 DEF ApplyToPortfolio
  <2> QED
    BY <1>3, <2>4 DEF ApplyToPortfolio, NoError
<1>4. ASSUME NEW t \in Threads, Continue(t), ~ ApplyToPortfolio(t)
      PROVE  NoError
  BY <1>4
  DEF Continue, Submit, Place, UpsertPlaced, SavePlaced, Finish, TickEngine, TakeFills,
      SaveFill, QueryOrder, ReflectInOms, ReleaseFilled, SaveSeen, NextFill, CopyBalances,
      SaveBalances, meta, errors, NoError
<1>5. ASSUME NEW t \in Threads, ThreadStep(t), ~ Continue(t), ~ StoreFails(t)
      PROVE  NoError
  BY <1>5 DEF ThreadStep, ReadMarket, TickMarket, MissedTick, meta, errors, NoError
<1>6. ASSUME Boot
      PROVE  NoError
  BY <1>6 DEF Boot, BootSeed, BootLoad, BootRestore, errors, NoError
<1>7. ASSUME UNCHANGED vars
      PROVE  NoError
  BY <1>7 DEF vars, NoError
<1> QED
  BY <1>2, <1>3, <1>4, <1>5, <1>6, <1>7 DEF Next, ThreadStep

\* These rows say what the portfolio holds.
Tells(rows) == Over(rows, NoBalances) = BalancesOf(cash)

\* Where a call has changed nothing yet, or nothing any more.
Untouched(t) == pc[t] = "idle" \/ (pc[t] = "check" /\ job[t].kind = "intent")

RowsCurrent(t) ==
  /\ Untouched(t) /\ db.balances # << >> => Tells(db.balances)
  /\ pc[t] = "persist" => Tells(Over(job[t].copy, db.balances))

LEMMA CopyCurrent ==
  ASSUME IInv, boot.step = "done"
  PROVE  Tells(Over(Restrict(cash, Rows), db.balances))
<1>1. /\ cash \in Portfolios /\ DOMAIN db.balances \subseteq { "quote", "base" }
  BY DEF IInv, SharedOK, RowsOK
<1>2. /\ Rows \subseteq { "quote", "base" } /\ DOMAIN db.balances \subseteq Rows
      /\ \A x \in { "quote", "base" } \ Rows : cash[x] = 0
  BY <1>1 DEF Rows
<1> DEFINE both == Over(Restrict(cash, Rows), db.balances)
<1>3. DOMAIN both = Rows /\ \A x \in Rows : both[x] = cash[x]
  BY <1>2 DEF Over, Restrict
<1> HIDE DEF both
<1>4. Over(both, NoBalances) = [x \in { "quote", "base" } |-> cash[x]]
  <2>1. /\ DOMAIN NoBalances = { "quote", "base" }
        /\ \A x \in { "quote", "base" } : NoBalances[x] = 0
    BY DEF NoBalances
  <2>2. DOMAIN both \cup DOMAIN NoBalances = { "quote", "base" }
    BY <1>2, <1>3, <2>1
  <2>3. \A x \in { "quote", "base" } :
          (IF x \in DOMAIN both THEN both[x] ELSE NoBalances[x]) = cash[x]
    BY <1>2, <1>3, <2>1
  <2> QED
    BY <2>2, <2>3 DEF Over
<1>5. BalancesOf(cash) = [x \in { "quote", "base" } |-> cash[x]]
  BY DEF BalancesOf
<1> QED
  BY <1>4, <1>5 DEF both, Tells

\* The steps that end at a place where the rows have to be current.
LEMMA RowsStep ==
  ASSUME CallsWait, IInv, Unstarted, NEW t \in Threads, ThreadStep(t), RowsCurrent(t),
         ~ StoreFails(t), ApplyToPortfolio(t) => Affordable(cash, TheFill(t))
  PROVE  RowsCurrent(t)'
<1>1. pc \in [Threads -> Steps] /\ DOMAIN job = Threads
  BY DEF IInv, SharedOK
<1>2. CASE \E id \in OrderIds : ReadMarket(t, id)
  <2>1. db' = db /\ cash' = cash /\ pc'[t] = "check"
    BY <1>1, <1>2 DEF ReadMarket, Goto
  <2>2. job'[t].kind = "intent" => pc[t] = "idle"
    BY <1>1, <1>2 DEF ReadMarket, Ready
  <2> QED
    BY <2>1, <2>2 DEF RowsCurrent, Untouched, Tells
<1>3. CASE Submit(t)
  <2>1. db' = db /\ cash' = cash /\ pc[t] = "check" /\ pc'[t] \in { "place", "copy", "idle" }
    BY <1>1, <1>3 DEF Submit, AfterRefusal, Goto
  <2>2. pc'[t] = "idle" => job[t].kind = "intent"
    <3>1. job[t].kind \in { "intent", "turn" }
      BY <2>1, JobOf DEF JobAt, Asked
    <3> QED
      BY <1>1, <1>3, <3>1 DEF Submit, AfterRefusal, Goto
  <2> QED
    BY <2>1, <2>2 DEF RowsCurrent, Untouched, Tells
<1>4. CASE CopyBalances(t)
  <2>1. boot.step = "done"
    BY <1>4, StartedCall DEF Unstarted
  <2>2. /\ db' = db /\ cash' = cash /\ pc'[t] = "persist"
        /\ job'[t].copy = Restrict(cash, Rows)
    BY <1>1, <1>4 DEF CopyBalances, Goto
  <2> QED
    BY <2>1, <2>2, CopyCurrent DEF RowsCurrent, Untouched, Tells
<1>5. CASE SaveBalances(t)
  <2>1. db'.balances = Over(job[t].copy, db.balances) /\ cash' = cash
    BY <1>5 DEF SaveBalances, WithBalances, IInv, SharedOK
  <2>2. pc[t] = "persist" /\ pc'[t] = "idle"
    BY <1>1, <1>5 DEF SaveBalances, Goto
  <2> QED
    BY <2>1, <2>2 DEF RowsCurrent, Untouched, Tells
<1>6. ASSUME ~ (\E id \in OrderIds : ReadMarket(t, id)), ~ Submit(t), ~ CopyBalances(t),
             ~ SaveBalances(t)
      PROVE  pc'[t] \notin { "idle", "check", "persist" }
  <2>1. CASE ApplyToPortfolio(t)
    BY <1>1, <2>1 DEF ApplyToPortfolio, Goto
  <2>2. CASE Continue(t) /\ ~ ApplyToPortfolio(t)
    BY <1>1, <1>6, <2>2
    DEF Continue, Place, UpsertPlaced, SavePlaced, Finish, TickEngine, TakeFills, SaveFill,
        QueryOrder, ReflectInOms, ReleaseFilled, SaveSeen, NextFill, AfterDrain, Goto
  <2>3. CASE MissedTick(t) \/ \E top \in Ticks : TickMarket(t, top)
    BY <1>1, <2>3 DEF MissedTick, TickMarket, Goto
  <2> QED
    BY <1>6, <2>1, <2>2, <2>3 DEF ThreadStep
<1> QED
  BY <1>2, <1>3, <1>4, <1>5, <1>6 DEF RowsCurrent, Untouched

BalancesCurrent == NoError => \A t \in Threads : RowsCurrent(t)

LEMMA BalancesCurrentStep ==
  ASSUME CallsWait, OneThread, FirstLife', IInv, Unstarted, BalancesCurrent, [Next]_vars
  PROVE  BalancesCurrent'
<1> SUFFICES ASSUME NoError'
             PROVE  \A t \in Threads : RowsCurrent(t)'
  BY DEF BalancesCurrent
<1>1. /\ NoError /\ \A t \in Threads : RowsCurrent(t)
      /\ \A t \in Threads : /\ ~ StoreFails(t)
                            /\ ApplyToPortfolio(t) => Affordable(cash, TheFill(t))
  BY StillFirstLife, NoErrorBefore DEF BalancesCurrent
<1>2. CASE Boot
  <2>1. boot.step # "done" /\ db' = db /\ pc' = pc
    BY <1>2 DEF Boot, BootSeed, BootLoad, BootRestore, limbs
  <2> QED
    BY <2>1 DEF Unstarted, RowsCurrent
<1>3. ASSUME NEW t \in Threads, ThreadStep(t)
      PROVE  \A u \in Threads : RowsCurrent(u)'
  BY <1>1, <1>3, RowsStep DEF OneThread
<1>4. CASE UNCHANGED vars
  BY <1>1, <1>4 DEF RowsCurrent, Untouched, Tells, vars
<1> QED
  BY <1>2, <1>3, <1>4, StillFirstLife DEF Next, ThreadStep

\* Of the demo process: once every call has ended the saved balances are what the
\* stored fills make of the opening ones, as no way through a call that has moved
\* money ends before they are saved.  Until the first crash or error.
THEOREM StoredBalancesAlwaysCurrent ==
  ASSUME CallsWait, OneThread
  PROVE  Spec => []StoredBalancesCurrent
<1> DEFINE Inv == FirstLife => Unstarted /\ BalancesCurrent
<1>1. Init => Inv
  BY UnstartedInit DEF Init, BalancesCurrent, RowsCurrent, IdleThreads
<1>2. IInv /\ Inv /\ [Next]_vars => Inv'
  BY StillFirstLife, UnstartedStep, BalancesCurrentStep
<1>3. ASSUME IInv, Inv, FirstLife => PortfolioMatchesFills,
             Quiet, db.balances # << >>, crashes = 0, NoError
      PROVE  Over(db.balances, NoBalances) = BalancesOf(AfterSpotFills(Opening, db.fills))
  <2>1. cash = AfterSpotFills(Opening, db.fills \o gone.unsaved)
    BY <1>3 DEF FirstLife, PortfolioMatchesFills
  <2>2. db.fills \o gone.unsaved = db.fills
    BY <1>3 DEF IInv, SharedOK, NoError, NoneGone
  <2>3. Over(db.balances, NoBalances) = BalancesOf(cash)
    BY <1>3 DEF FirstLife, Quiet, BalancesCurrent, RowsCurrent, Untouched, Tells, OneThread
  <2> QED
    BY <2>1, <2>2, <2>3
<1>4. IInv /\ Inv /\ (FirstLife => PortfolioMatchesFills) => StoredBalancesCurrent
  BY <1>3 DEF StoredBalancesCurrent
<1>5. Spec => [](FirstLife => PortfolioMatchesFills)
  BY PortfolioAlwaysMatchesFills
<1> HIDE DEF Inv
<1> QED
  BY <1>1, <1>2, <1>4, <1>5, InvariantHolds, PTL DEF Spec

(***************************************************************************)
(* The copies of an order, through all lives of the demo process           *)
(***************************************************************************)

\* Before a restore has ended nothing of this life has happened, and what it has
\* loaded is what is stored.
Restoring ==
  boot.step # "done" =>
    /\ \A t \in Threads : pc[t] = "idle"
    /\ DOMAIN venue = {} /\ pending = << >>
    /\ boot.step = "restore" =>
         /\ DOMAIN boot.loaded \subseteq DOMAIN db.orders
         /\ \A id \in DOMAIN boot.loaded : boot.loaded[id] = db.orders[id]

\* The order whose fill a call applies.
Filling(t) == TheFill(t).order

\* What a call holds of an order is what the engine and the order manager hold.
CallKnows(t) ==
  /\ Asking(t) => job[t].id \in used \ (DOMAIN venue \cup DOMAIN db.orders)
  /\ pc[t] \in { "upsert", "save" } =>
       /\ job[t].id \in DOMAIN venue \ DOMAIN db.orders
       /\ job[t].placed = venue[job[t].id]
  /\ pc[t] = "save" => job[t].id \in DOMAIN oms /\ oms[job[t].id] = venue[job[t].id]
  /\ pc[t] \in { "reflect", "release", "save_seen" } =>
       Filling(t) \in DOMAIN venue /\ job[t].seen = venue[Filling(t)]
  /\ pc[t] \in { "release", "save_seen" } =>
       Filling(t) \in DOMAIN oms /\ oms[Filling(t)] = venue[Filling(t)]

Known ==
  /\ Restoring
  /\ DOMAIN venue \subseteq used /\ DOMAIN db.orders \subseteq used
  /\ \A t \in Threads : CallKnows(t)

\* The order manager and the store hold the order as the engine does.
Copied(id) ==
  /\ id \in DOMAIN oms /\ oms[id] = venue[id]
  /\ id \in DOMAIN db.orders /\ db.orders[id] = venue[id]

\* A fill of the order is among these.
Names(fills, id) == \E n \in DOMAIN fills : fills[n].order = id

\* A call at step p with the locals j has still to copy the order.
OwedAt(p, j, id) ==
  \/ p \in { "upsert", "save" } /\ j.id = id
  \/ p \in Carrying \ { "next" } /\ Names(j.todo, id)
  \/ p = "next" /\ Names(Tail(j.todo), id)

Owed(id) == Names(pending, id) \/ \E t \in Threads : OwedAt(pc[t], job[t], id)

CopiesFollow == NoError => \A id \in DOMAIN venue : Copied(id) \/ Owed(id)

LEMMA KnownInit ==
  ASSUME Init
  PROVE  Known
  BY DEF Init, Known, Restoring, CallKnows, Asking, IdleThreads, NoOrders, AtBoot

LEMMA KnownStep ==
  ASSUME CallsWait, OneThread, IInv, IInv', Known, [Next]_vars
  PROVE  Known'
<1>1. pc \in [Threads -> Steps] /\ DOMAIN job = Threads
  BY DEF IInv, SharedOK
<1>2. CASE Crash
  <2>1. db'.orders = db.orders
    BY <1>2, PartlyWrittenOK DEF Crash, PartlyWritten, WithBalances, IInv, SharedOK
  <2> QED
    BY <1>2, <2>1
    DEF Crash, Known, Restoring, CallKnows, Asking, IdleThreads, NoOrders, AtBoot
<1>3. CASE Boot
  <2>1. /\ boot.step # "done" /\ \A t \in Threads : pc'[t] = "idle"
        /\ pending' = << >> /\ db' = db /\ used' = used
    BY <1>3 DEF Boot, BootSeed, BootLoad, BootRestore, limbs, engine, Known, Restoring
  <2>2. DOMAIN venue' \subseteq DOMAIN db.orders
    <3>1. CASE BootSeed \/ BootLoad
      BY <3>1 DEF BootSeed, BootLoad, engine, Known, Restoring
    <3>2. CASE BootRestore
      BY <3>2 DEF BootRestore, Over, Restrict, Known, Restoring
    <3> QED
      BY <1>3, <3>1, <3>2 DEF Boot
  <2>3. Restoring'
    <3>1. CASE BootSeed
      BY <2>1, <3>1 DEF BootSeed, engine, Known, Restoring, IInv, SharedOK
    <3>2. CASE BootLoad
      BY <2>1, <3>2 DEF BootLoad, Open, engine, Known, Restoring
    <3>3. CASE BootRestore
      BY <3>3 DEF BootRestore, Restoring
    <3> QED
      BY <1>3, <3>1, <3>2, <3>3 DEF Boot
  <2> QED
    BY <2>1, <2>2, <2>3 DEF Known, CallKnows, Asking
<1>4. ASSUME NEW t \in Threads, ThreadStep(t)
      PROVE  Known'
  <2>1. boot.step = "done" /\ boot' = boot
    BY <1>4, StartedCall DEF Known, Restoring
  <2> SUFFICES /\ DOMAIN venue' \subseteq used' /\ DOMAIN db'.orders \subseteq used'
               /\ CallKnows(t)'
    BY <2>1 DEF OneThread, Known, Restoring
  <2>2. CallKnows(t) /\ DOMAIN venue \subseteq used /\ DOMAIN db.orders \subseteq used
    BY DEF Known
  <2>3. CASE \E id \in OrderIds : ReadMarket(t, id)
    BY <1>1, <2>2, <2>3 DEF ReadMarket, Goto, engine, CallKnows, Asking
  <2>4. CASE Submit(t)
    <3>1. /\ venue' = venue /\ db' = db /\ used' = used
          /\ pc'[t] \in { "place", "idle", "copy" }
          /\ pc'[t] = "place" => job'[t].id = job[t].id /\ Asking(t)
      BY <1>1, <2>4 DEF Submit, AfterRefusal, Goto, engine, meta, Asking
    <3> QED
      BY <2>2, <3>1 DEF CallKnows, Asking
  <2>5. CASE Place(t)
    <3>1. /\ db' = db /\ used' = used /\ pc'[t] = "upsert" /\ Asking(t)
          /\ job'[t].id = job[t].id /\ job'[t].placed = Placed(job[t].id, book).order
          /\ venue' = Put(venue, job[t].id, Placed(job[t].id, book).order)
      BY <1>1, <2>5 DEF Place, Goto, meta, Asking
    <3> QED
      BY <2>2, <3>1 DEF CallKnows, Asking, Put
  <2>6. CASE UpsertPlaced(t)
    BY <1>1, <2>2, <2>6 DEF UpsertPlaced, Goto, engine, meta, CallKnows, Asking, Put
  <2>7. CASE SavePlaced(t)
    <3>1. /\ venue' = venue /\ used' = used /\ pc'[t] = "drain" /\ pc[t] = "save"
          /\ DOMAIN db'.orders = DOMAIN db.orders \cup {job[t].id}
      BY <1>1, <2>7 DEF SavePlaced, Goto, engine, meta, Put, IInv, SharedOK
    <3> QED
      BY <2>2, <3>1 DEF CallKnows, Asking
  <2>8. CASE QueryOrder(t)
    <3>1. /\ venue' = venue /\ used' = used /\ db' = db /\ oms' = oms
          /\ pc'[t] \in { "reflect", "next" }
      BY <1>1, <2>8 DEF QueryOrder, Goto, engine, meta
    <3>2. ASSUME pc'[t] = "reflect"
          PROVE  Filling(t)' = Filling(t) /\ Filling(t) \in DOMAIN venue
                   /\ job'[t].seen = venue[Filling(t)]
      <4>1. Filling(t) \in DOMAIN venue /\ job'[t] = Put(job[t], "seen", venue[Filling(t)])
        BY <1>1, <2>8, <3>2 DEF QueryOrder, Goto, Filling
      <4>2. "todo" \in DOMAIN job[t]
        BY <2>8, CarryingCall DEF QueryOrder, Carrying
      <4>3. job'[t].todo = job[t].todo /\ job'[t].seen = venue[Filling(t)]
        BY <4>1, <4>2 DEF Put
      <4> QED
        BY <4>1, <4>3 DEF Filling, TheFill
    <3> QED
      BY <2>2, <3>1, <3>2 DEF CallKnows, Asking
  <2>9. CASE ReflectInOms(t)
    <3>1. /\ venue' = venue /\ used' = used /\ db' = db /\ job' = job
          /\ pc[t] = "reflect" /\ pc'[t] = "release" /\ oms' = Put(oms, Filling(t), job[t].seen)
      BY <1>1, <2>9 DEF ReflectInOms, Goto, engine, meta, Filling
    <3>2. Filling(t)' = Filling(t)
      BY <3>1 DEF Filling, TheFill
    <3> QED
      BY <2>2, <3>1, <3>2 DEF CallKnows, Asking, Put
  <2>10. CASE ReleaseFilled(t)
    <3>1. /\ venue' = venue /\ used' = used /\ db' = db /\ job' = job /\ oms' = oms
          /\ pc[t] = "release" /\ pc'[t] = "save_seen"
      BY <1>1, <2>10 DEF ReleaseFilled, Goto, engine, meta
    <3>2. Filling(t)' = Filling(t)
      BY <3>1 DEF Filling, TheFill
    <3> QED
      BY <2>2, <3>1, <3>2 DEF CallKnows, Asking
  <2>11. CASE SaveSeen(t)
    <3>1. /\ venue' = venue /\ used' = used /\ pc[t] = "save_seen" /\ pc'[t] = "next"
          /\ DOMAIN db'.orders = DOMAIN db.orders \cup {Filling(t)}
      BY <1>1, <2>11 DEF SaveSeen, Goto, engine, meta, Put, Filling, IInv, SharedOK
    <3> QED
      BY <2>2, <3>1 DEF CallKnows, Asking
  <2>12. ASSUME ~ (\E id \in OrderIds : ReadMarket(t, id)), ~ Submit(t), ~ Place(t),
                ~ UpsertPlaced(t), ~ SavePlaced(t), ~ QueryOrder(t), ~ ReflectInOms(t),
                ~ ReleaseFilled(t), ~ SaveSeen(t)
         PROVE  /\ DOMAIN venue' = DOMAIN venue /\ db'.orders = db.orders /\ used' = used
                /\ pc'[t] \notin { "check", "place", "upsert", "save", "reflect", "release",
                                   "save_seen" }
    <3>8. DOMAIN db = { "orders", "fills", "balances" }
      BY DEF IInv, SharedOK
    <3>1. CASE Finish(t) \/ TakeFills(t) \/ NextFill(t)
      BY <1>1, <3>1 DEF Finish, TakeFills, NextFill, AfterDrain, Goto, engine, meta
    <3>2. CASE TickEngine(t)
      <4>1. DOMAIN venue' = DOMAIN venue
        BY <3>2, TickMatched DEF Matching
      <4> QED
        BY <1>1, <3>2, <4>1 DEF TickEngine, Goto, meta
    <3>3. CASE ApplyToPortfolio(t)
      BY <1>1, <3>3 DEF ApplyToPortfolio, GiveUp, Goto, engine
    <3>4. CASE SaveFill(t) \/ CopyBalances(t)
      BY <1>1, <3>4, <3>8 DEF SaveFill, CopyBalances, Goto, engine, meta
    <3>5. CASE SaveBalances(t)
      BY <1>1, <3>5 DEF SaveBalances, WithBalances, Goto, engine, meta
    <3>6. CASE StoreFails(t)
      <4>1. db'.orders = db.orders
        BY <3>6, <3>8 DEF StoreFails, PartlyWritten, WithBalances
      <4> QED
        BY <1>1, <3>6, <4>1 DEF StoreFails, GiveUp, Goto, engine
    <3>7. CASE MissedTick(t) \/ \E top \in Ticks : TickMarket(t, top)
      BY <1>1, <3>7 DEF MissedTick, TickMarket, Goto, engine, meta
    <3> QED
      BY <1>4, <2>12, <3>1, <3>2, <3>3, <3>4, <3>5, <3>6, <3>7 DEF ThreadStep, Continue
  <2>13. ASSUME ~ (\E id \in OrderIds : ReadMarket(t, id)), ~ Submit(t), ~ Place(t),
                ~ UpsertPlaced(t), ~ SavePlaced(t), ~ QueryOrder(t), ~ ReflectInOms(t),
                ~ ReleaseFilled(t), ~ SaveSeen(t)
         PROVE  /\ DOMAIN venue' \subseteq used' /\ DOMAIN db'.orders \subseteq used'
                /\ CallKnows(t)'
    BY <2>2, <2>12, <2>13 DEF CallKnows, Asking
  <2> QED
    BY <2>3, <2>4, <2>5, <2>6, <2>7, <2>8, <2>9, <2>10, <2>11, <2>13
<1>5. CASE UNCHANGED vars
  BY <1>5 DEF Known, Restoring, CallKnows, Asking, Filling, TheFill, vars
<1> QED
  BY <1>2, <1>3, <1>4, <1>5 DEF Next, ThreadStep

LEMMA NamesParts ==
  ASSUME NEW id
  PROVE  /\ ~ Names(<< >>, id)
         /\ \A p \in Seq(FillRecords), q \in Seq(FillRecords) :
              Names(p, id) \/ Names(q, id) => Names(p \o q, id)
         /\ \A s \in Seq(FillRecords) :
              /\ s # << >> /\ Names(s, id) => Head(s).order = id \/ Names(Tail(s), id)
              /\ FilledBy(s, id) > 0 => Names(s, id)
<1>1. ~ Names(<< >>, id)
  BY DEF Names
<1>2. ASSUME NEW p \in Seq(FillRecords), NEW q \in Seq(FillRecords),
             Names(p, id) \/ Names(q, id)
      PROVE  Names(p \o q, id)
  <2>1. /\ DOMAIN p = 1..Len(p) /\ DOMAIN q = 1..Len(q) /\ Len(p) \in Nat /\ Len(q) \in Nat
        /\ DOMAIN (p \o q) = 1..(Len(p) + Len(q))
        /\ \A n \in 1..Len(p) : (p \o q)[n] = p[n]
        /\ \A n \in 1..Len(q) : (p \o q)[Len(p) + n] = q[n]
    BY ConcatProperties, LenProperties
  <2>2. CASE Names(p, id)
    BY <2>1, <2>2 DEF Names
  <2>3. ASSUME NEW n \in DOMAIN q, q[n].order = id
        PROVE  Names(p \o q, id)
    <3>1. Len(p) + n \in 1..(Len(p) + Len(q)) /\ (p \o q)[Len(p) + n] = q[n]
      BY <2>1
    <3> QED
      BY <2>1, <2>3, <3>1 DEF Names
  <2> QED
    BY <1>2, <2>2, <2>3 DEF Names
<1>3. ASSUME NEW s \in Seq(FillRecords), s # << >>, Names(s, id), Head(s).order # id
      PROVE  Names(Tail(s), id)
  <2>1. PICK n \in DOMAIN s : s[n].order = id
    BY <1>3 DEF Names
  <2>2. /\ DOMAIN s = 1..Len(s) /\ Len(s) \in Nat /\ Head(s) = s[1]
        /\ Tail(s) \in Seq(FillRecords) /\ Len(Tail(s)) = Len(s) - 1
        /\ \A k \in 1..Len(Tail(s)) : Tail(s)[k] = s[k + 1]
    BY <1>3, HeadTailProperties, LenProperties
  <2>3. n \in 2..Len(s) /\ n - 1 \in 1..Len(Tail(s)) /\ (n - 1) + 1 = n
    BY <1>3, <2>1, <2>2
  <2>4. n - 1 \in DOMAIN Tail(s) /\ Tail(s)[n - 1].order = id
    BY <2>1, <2>2, <2>3, LenProperties
  <2> QED
    BY <2>4 DEF Names
<1>4. ASSUME NEW s \in Seq(FillRecords), ~ Names(s, id)
      PROVE  FilledBy(s, id) = 0
  <2> DEFINE w == Amount(id)
  <2>1. w \in [FillRecords -> Int] /\ \A f \in FillRecords : f.order # id => w[f] = 0
    BY AmountType
  <2>2. \A n \in DOMAIN s : s[n] \in FillRecords /\ s[n].order # id
    BY <1>4, ElementOfSeq, LenProperties DEF Names
  <2>3. \A n \in DOMAIN s : w[s[n]] = 0
    BY <2>1, <2>2
  <2> HIDE DEF w
  <2>4. Weight(s, w) = 0
    BY <2>1, <2>3, WeightType
  <2> QED
    BY <2>4, FilledByWeight DEF w
<1> QED
  BY <1>1, <1>2, <1>3, <1>4

\* A step that leaves an order alone, and the fills that name it on their way.
LEMMA CopiesStand ==
  ASSUME NEW t \in Threads, Others(t), NEW id \in DOMAIN venue, Copied(id) \/ Owed(id),
         venue'[id] = venue[id],
         id \in DOMAIN oms => id \in DOMAIN oms' /\ oms'[id] = oms[id],
         id \in DOMAIN db.orders => id \in DOMAIN db'.orders /\ db'.orders[id] = db.orders[id],
         Names(pending, id) => Owed(id)',
         OwedAt(pc[t], job[t], id) => OwedAt(pc'[t], job'[t], id)
  PROVE  Copied(id)' \/ Owed(id)'
  BY DEF Copied, Owed, Others

LEMMA SameOrder ==
  ASSUME NEW o \in OrderRecords, NEW p \in OrderRecords,
         p.side = o.side, p.type = o.type, p.tif = o.tif, p.price = o.price,
         p.quantity = o.quantity, p.status = o.status, p.filled = o.filled
  PROVE  p = o
  BY DEF OrderRecords

LEMMA CopiesStep ==
  ASSUME CallsWait, OneThread, IInv, IInv', Known, NEW t \in Threads, ThreadStep(t),
         ~ StoreFails(t), ApplyToPortfolio(t) => Affordable(cash, TheFill(t)),
         \A id \in DOMAIN venue : Copied(id) \/ Owed(id),
         NEW id \in DOMAIN venue'
  PROVE  Copied(id)' \/ Owed(id)'
<1>1. /\ pc \in [Threads -> Steps] /\ DOMAIN job = Threads
      /\ DOMAIN db = { "orders", "fills", "balances" } /\ pending \in Seq(FillRecords)
  BY DEF IInv, SharedOK
<1>2. Others(t) /\ Threads = {t} /\ CallKnows(t)
  BY OthersStand DEF OneThread, Known
<1>3. CASE \/ MissedTick(t) \/ (\E x \in OrderIds : ReadMarket(t, x))
           \/ (\E top \in Ticks : TickMarket(t, top))
           \/ Finish(t) \/ CopyBalances(t) \/ SaveBalances(t)
  <2>1. /\ venue' = venue /\ oms' = oms /\ pending' = pending /\ db'.orders = db.orders
        /\ pc[t] \in { "idle", "copy", "finish", "persist" }
    BY <1>1, <1>3
    DEF MissedTick, ReadMarket, TickMarket, Finish, CopyBalances, SaveBalances,
        WithBalances, Ready, TickDone, engine
  <2> QED
    BY <1>2, <2>1, CopiesStand DEF OwedAt, Owed, Carrying
<1>4. CASE Submit(t)
  <2>1. /\ venue' = venue /\ pending' = pending /\ db' = db /\ pc[t] = "check"
        /\ oms' = oms \/ oms' = Put(oms, job[t].id, Request[job[t].id])
    BY <1>4 DEF Submit, engine
  <2>2. id # job[t].id
    BY <1>2, <2>1 DEF CallKnows, Asking
  <2> QED
    BY <1>2, <2>1, <2>2, CopiesStand DEF OwedAt, Owed, Carrying, Put
<1>5. CASE Place(t)
  <2> DEFINE me == job[t].id
             r == Placed(me, book)
  <2>1. /\ venue' = Put(venue, me, r.order) /\ pending' = pending \o r.fills
        /\ oms' = oms /\ db' = db /\ pc[t] = "place" /\ pc'[t] = "upsert" /\ job'[t].id = me
    BY <1>1, <1>5 DEF Place, Goto
  <2>2. CASE id = me
    BY <2>1, <2>2 DEF Owed, OwedAt
  <2>3. CASE id # me
    <3>1. id \in DOMAIN venue /\ venue'[id] = venue[id]
      BY <2>1, <2>3 DEF Put
    <3>2. r.fills \in Seq(FillRecords)
      <4>1. me \in OrderIds /\ book \in Tops
        BY <2>1, JobOf DEF JobAt, Asked, IInv, SharedOK
      <4>2. r.fills = << >> \/ \E f \in FillRecords : r.fills = << f >>
        BY <4>1, PlacedType
      <4> HIDE DEF r
      <4> QED
        BY <4>2, FilledByEmpty, FilledByOne
    <3> HIDE DEF me, r
    <3>3. Names(pending, id) => Names(pending', id)
      BY <1>1, <2>1, <3>2, NamesParts
    <3> QED
      BY <1>2, <2>1, <3>1, <3>3, CopiesStand DEF OwedAt, Owed, Carrying
  <2> QED
    BY <2>2, <2>3
<1>6. CASE UpsertPlaced(t)
  <2>1. /\ venue' = venue /\ pending' = pending /\ db' = db /\ job' = job /\ pc[t] = "upsert"
        /\ pc'[t] = "save" /\ oms' = Put(oms, job[t].id, job[t].placed)
    BY <1>1, <1>6 DEF UpsertPlaced, Goto, engine, meta
  <2>2. CASE id = job[t].id
    BY <2>1, <2>2 DEF Owed, OwedAt
  <2>3. CASE id # job[t].id
    BY <1>2, <2>1, <2>3, CopiesStand DEF OwedAt, Owed, Carrying, Put
  <2> QED
    BY <2>2, <2>3
<1>7. CASE SavePlaced(t)
  <2>1. /\ venue' = venue /\ pending' = pending /\ oms' = oms /\ pc[t] = "save"
        /\ db'.orders = Put(db.orders, job[t].id, job[t].placed)
    BY <1>1, <1>7 DEF SavePlaced, engine
  <2>2. CASE id = job[t].id
    BY <1>2, <2>1, <2>2 DEF CallKnows, Copied, Put
  <2>3. CASE id # job[t].id
    BY <1>2, <2>1, <2>3, CopiesStand DEF OwedAt, Owed, Carrying, Put
  <2> QED
    BY <2>2, <2>3
<1>8. CASE TickEngine(t)
  <2>1. PICK s \in Matching(venue) : venue' = s.orders /\ pending' = pending \o s.fills
    BY <1>8, TickMatched
  <2>2. /\ id \in DOMAIN venue /\ Continues(venue[id], venue'[id])
        /\ s.fills \in Seq(FillRecords)
        /\ venue'[id].filled = venue[id].filled + FilledBy(s.fills, id)
    BY <2>1 DEF Matching
  <2>3. /\ venue[id] \in OrderRecords /\ venue'[id] \in OrderRecords
        /\ venue[id].filled \in Nat /\ FilledBy(s.fills, id) \in Nat
    BY <2>2, OrderFields, FilledByWeight DEF IInv, SharedOK, Books
  <2>4. oms' = oms /\ db' = db /\ pc[t] = "match"
    BY <1>8 DEF TickEngine
  <2>5. Names(pending, id) \/ Names(s.fills, id) => Names(pending', id)
    BY <1>1, <2>1, <2>2, NamesParts
  <2>6. CASE venue'[id].filled # venue[id].filled
    <3>1. FilledBy(s.fills, id) > 0
      BY <2>2, <2>3, <2>6
    <3>2. Names(s.fills, id)
      BY <2>2, <3>1, NamesParts
    <3> QED
      BY <2>5, <3>2 DEF Owed
  <2>7. CASE venue'[id].filled = venue[id].filled
    <3>1. venue'[id] = venue[id]
      <4>1. ~ (venue'[id].filled > venue[id].filled)
        BY <2>3, <2>7
      <4> QED
        BY <2>2, <2>3, <2>7, <4>1, SameOrder DEF Continues
    <3> QED
      BY <1>2, <2>2, <2>4, <2>5, <3>1, CopiesStand DEF OwedAt, Owed, Carrying
  <2> QED
    BY <2>6, <2>7
<1>9. CASE TakeFills(t)
  <2>1. /\ venue' = venue /\ oms' = oms /\ db' = db /\ pc[t] = "drain"
        /\ job'[t] = Put(job[t], "todo", pending)
        /\ pending # << >> => pc'[t] = "apply"
    BY <1>1, <1>9 DEF TakeFills, Goto
  <2>2. job'[t].todo = pending
    BY <2>1 DEF Put
  <2>3. Names(pending, id) => Owed(id)'
    BY <2>1, <2>2, NamesParts DEF Owed, OwedAt, Carrying
  <2> QED
    BY <1>2, <2>1, <2>3, CopiesStand DEF OwedAt, Carrying
<1>10. CASE ApplyToPortfolio(t) \/ SaveFill(t) \/ ReleaseFilled(t)
  <2>1. /\ venue' = venue /\ oms' = oms /\ pending' = pending /\ db'.orders = db.orders
        /\ job' = job /\ pc[t] \in Carrying \ { "next" } /\ pc'[t] \in Carrying \ { "next" }
    BY <1>1, <1>10
    DEF ApplyToPortfolio, SaveFill, ReleaseFilled, Goto, engine, meta, Carrying
  <2> QED
    BY <1>2, <2>1, CopiesStand DEF OwedAt, Owed, Carrying
<1>11. CASE QueryOrder(t)
  <2>1. /\ venue' = venue /\ oms' = oms /\ pending' = pending /\ db' = db /\ pc[t] = "query"
    BY <1>11 DEF QueryOrder, engine
  <2>2. /\ job[t].todo \in Seq(FillRecords) /\ job[t].todo # << >> /\ "todo" \in DOMAIN job[t]
    BY <2>1, CarryingCall DEF Carrying
  <2>3. CASE Filling(t) \in DOMAIN venue
    <3>1. pc'[t] = "reflect" /\ job'[t] = Put(job[t], "seen", venue[Filling(t)])
      BY <1>1, <1>11, <2>3 DEF QueryOrder, Goto, Filling
    <3>2. job'[t].todo = job[t].todo
      BY <2>2, <3>1 DEF Put
    <3> QED
      BY <1>2, <2>1, <3>1, <3>2, CopiesStand DEF OwedAt, Owed, Carrying
  <2>4. CASE Filling(t) \notin DOMAIN venue
    <3>1. pc'[t] = "next" /\ job' = job
      BY <1>1, <1>11, <2>4 DEF QueryOrder, Goto, Filling
    <3>2. Names(job[t].todo, id) => Names(Tail(job[t].todo), id)
      BY <2>1, <2>2, <2>4, NamesParts DEF Filling, TheFill
    <3> QED
      BY <1>2, <2>1, <3>1, <3>2, CopiesStand DEF OwedAt, Owed, Carrying
  <2> QED
    BY <2>3, <2>4
<1>12. CASE ReflectInOms(t)
  <2>1. /\ venue' = venue /\ pending' = pending /\ db' = db /\ job' = job
        /\ pc[t] = "reflect" /\ pc'[t] = "release" /\ oms' = Put(oms, Filling(t), job[t].seen)
    BY <1>1, <1>12 DEF ReflectInOms, Goto, engine, meta, Filling
  <2>2. CASE id # Filling(t)
    BY <1>2, <2>1, <2>2, CopiesStand DEF OwedAt, Owed, Carrying, Put
  <2>3. CASE id = Filling(t)
    <3>1. Names(job[t].todo, id)
      <4>1. /\ job[t].todo \in Seq(FillRecords) /\ job[t].todo # << >>
        BY <2>1, CarryingCall DEF Carrying
      <4>2. 1 \in DOMAIN job[t].todo /\ job[t].todo[1] = Head(job[t].todo)
        BY <4>1
      <4> QED
        BY <2>3, <4>2 DEF Names, Filling, TheFill
    <3> QED
      BY <2>1, <3>1 DEF OwedAt, Owed, Carrying
  <2> QED
    BY <2>2, <2>3
<1>13. CASE SaveSeen(t)
  <2>1. /\ venue' = venue /\ oms' = oms /\ pending' = pending /\ job' = job
        /\ pc[t] = "save_seen" /\ pc'[t] = "next"
        /\ db'.orders = Put(db.orders, Filling(t), job[t].seen)
    BY <1>1, <1>13 DEF SaveSeen, Goto, engine, meta, Filling
  <2>2. job[t].todo \in Seq(FillRecords) /\ job[t].todo # << >>
    BY <2>1, CarryingCall DEF Carrying
  <2>3. CASE id = Filling(t)
    BY <1>2, <2>1, <2>3 DEF CallKnows, Copied, Put
  <2>4. CASE id # Filling(t)
    <3>1. Names(job[t].todo, id) => Names(Tail(job[t].todo), id)
      BY <2>2, <2>4, NamesParts DEF Filling, TheFill
    <3> QED
      BY <1>2, <2>1, <2>4, <3>1, CopiesStand DEF OwedAt, Owed, Carrying, Put
  <2> QED
    BY <2>3, <2>4
<1>14. CASE NextFill(t)
  <2>1. /\ venue' = venue /\ oms' = oms /\ pending' = pending /\ db' = db /\ pc[t] = "next"
        /\ Len(job[t].todo) > 1 => pc'[t] = "apply"
    BY <1>1, <1>14 DEF NextFill, Goto, engine, meta
  <2>2. /\ job[t].todo \in Seq(FillRecords) /\ job[t].todo # << >> /\ "todo" \in DOMAIN job[t]
    BY <2>1, CarryingCall DEF Carrying
  <2>3. job'[t].todo = Tail(job[t].todo)
    BY <1>1, <1>14, <2>2 DEF NextFill
  <2>4. Len(job[t].todo) > 1 <=> Tail(job[t].todo) # << >>
    BY <2>2, AmountType, WeightTail
  <2>5. OwedAt(pc[t], job[t], id) => OwedAt(pc'[t], job'[t], id)
    BY <2>1, <2>3, <2>4, NamesParts DEF OwedAt, Carrying
  <2> QED
    BY <1>2, <2>1, <2>5, CopiesStand DEF Owed
<1> QED
  BY <1>3, <1>4, <1>5, <1>6, <1>7, <1>8, <1>9, <1>10, <1>11, <1>12, <1>13, <1>14
  DEF ThreadStep, Continue

LEMMA CopiesFollowStep ==
  ASSUME CallsWait, OneThread, IInv, IInv', Known, CopiesFollow, [Next]_vars
  PROVE  CopiesFollow'
<1> SUFFICES ASSUME NoError', NEW id \in DOMAIN venue'
             PROVE  Copied(id)' \/ Owed(id)'
  BY DEF CopiesFollow
<1>1. CASE Crash
  BY <1>1 DEF Crash, NoOrders
<1>2. ASSUME ~ Crash
      PROVE  /\ \A x \in DOMAIN venue : Copied(x) \/ Owed(x)
             /\ \A t \in Threads : /\ ~ StoreFails(t)
                                   /\ ApplyToPortfolio(t) => Affordable(cash, TheFill(t))
  BY <1>2, NoErrorBefore DEF CopiesFollow
<1>3. CASE BootSeed \/ BootLoad
  BY <1>3 DEF BootSeed, BootLoad, engine, Known, Restoring
<1>4. CASE BootRestore
  <2>1. /\ DOMAIN venue = {} /\ id \in DOMAIN boot.loaded
        /\ venue'[id] = boot.loaded[id] /\ id \in DOMAIN oms' /\ oms'[id] = boot.loaded[id]
    BY <1>4 DEF BootRestore, Over, Restrict, Known, Restoring
  <2>2. id \in DOMAIN db.orders /\ db.orders[id] = boot.loaded[id] /\ db' = db
    BY <1>4, <2>1 DEF BootRestore, Known, Restoring
  <2> QED
    BY <2>1, <2>2 DEF Copied
<1>5. ASSUME NEW t \in Threads, ThreadStep(t), ~ Crash
      PROVE  Copied(id)' \/ Owed(id)'
  BY <1>2, <1>5, CopiesStep
<1>6. CASE UNCHANGED vars /\ ~ Crash
  BY <1>2, <1>6 DEF Copied, Owed, OwedAt, Names, vars
<1> QED
  BY <1>1, <1>3, <1>4, <1>5, <1>6 DEF Next, ThreadStep, Boot

\* Of the demo process, in all its lives: once every call has ended the order
\* manager and the store hold each order as the engine does, since whatever
\* changed it has left a fill, or a call, that will copy it.  Unless an error has
\* ended a call.
THEOREM CopiesAlwaysAgree ==
  ASSUME CallsWait, OneThread
  PROVE  Spec => []CopiesAgree
<1>1. Init => Known /\ CopiesFollow
  BY KnownInit DEF Init, CopiesFollow, NoOrders
<1>2. IInv /\ IInv' /\ Known /\ CopiesFollow /\ [Next]_vars => Known' /\ CopiesFollow'
  BY KnownStep, CopiesFollowStep
<1>3. ASSUME CopiesFollow, Quiet, NoError, NEW id \in DOMAIN venue
      PROVE  Copied(id)
  <2>1. ~ Owed(id)
    BY <1>3, NamesParts DEF Quiet, Owed, OwedAt, Carrying
  <2> QED
    BY <1>3, <2>1 DEF CopiesFollow
<1>4. CopiesFollow => CopiesAgree
  BY <1>3 DEF CopiesAgree, Copied
<1> QED
  BY <1>1, <1>2, <1>4, InvariantHolds, PTL DEF Spec

(***************************************************************************)
(* The store's orders implement OrderLifecycle                             *)
(***************************************************************************)

\* An order the engine may have answered the intent with, or made of it since.
Answered(id, o) ==
  o.status \in Successors["submitted"] /\ o.quantity = Request[id].quantity

\* Whatever the store holds of an order, the engine's may continue it.
Continued ==
  /\ \A id \in DOMAIN venue : Answered(id, venue[id])
  /\ \A id \in DOMAIN db.orders : Answered(id, db.orders[id])
  /\ \A id \in DOMAIN venue \cap DOMAIN db.orders : Continues(db.orders[id], venue[id])

\* The store is only ever given the engine's order.
LEMMA OrdersWritten ==
  ASSUME IInv, Known, [Next]_vars
  PROVE  \/ db'.orders = db.orders
         \/ /\ venue' = venue
            /\ \E id \in DOMAIN venue : db'.orders = Put(db.orders, id, venue[id])
<1>1. DOMAIN db = { "orders", "fills", "balances" }
  BY DEF IInv, SharedOK
<1>2. CASE Crash
  BY <1>1, <1>2 DEF Crash, PartlyWritten, WithBalances
<1>3. ASSUME NEW t \in Threads, SavePlaced(t)
      PROVE  /\ venue' = venue
             /\ \E id \in DOMAIN venue : db'.orders = Put(db.orders, id, venue[id])
  BY <1>1, <1>3 DEF SavePlaced, engine, Known, CallKnows
<1>4. ASSUME NEW t \in Threads, SaveSeen(t)
      PROVE  /\ venue' = venue
             /\ \E id \in DOMAIN venue : db'.orders = Put(db.orders, id, venue[id])
  BY <1>1, <1>4 DEF SaveSeen, engine, Known, CallKnows, Filling
<1>5. ASSUME NEW t \in Threads, StoreFails(t) \/ SaveFill(t) \/ SaveBalances(t)
      PROVE  db'.orders = db.orders
  BY <1>1, <1>5 DEF StoreFails, SaveFill, SaveBalances, PartlyWritten, WithBalances
<1>6. ASSUME NEW t \in Threads, ThreadStep(t), ~ SavePlaced(t), ~ SaveSeen(t),
             ~ StoreFails(t), ~ SaveFill(t), ~ SaveBalances(t)
      PROVE  db' = db
  BY <1>6
  DEF ThreadStep, Continue, Submit, Place, UpsertPlaced, Finish, TickEngine, TakeFills,
      ApplyToPortfolio, QueryOrder, ReflectInOms, ReleaseFilled, NextFill, CopyBalances,
      ReadMarket, TickMarket, MissedTick
<1>7. Boot \/ UNCHANGED vars => db' = db
  BY DEF Boot, BootSeed, BootLoad, BootRestore, vars
<1> QED
  BY <1>2, <1>3, <1>4, <1>5, <1>6, <1>7 DEF Next, ThreadStep

LEMMA ContinuesOn ==
  ASSUME NEW o \in OrderRecords, NEW p \in OrderRecords, NEW q \in OrderRecords
  PROVE  /\ Continues(o, o)
         /\ Continues(o, p) /\ Continues(p, q) => Continues(o, q)
<1>1. o.filled \in Nat /\ p.filled \in Nat /\ q.filled \in Nat
  BY OrderFields
<1>2. ASSUME Continues(o, p), Continues(p, q)
      PROVE  Continues(o, q)
  <2>1. CASE p.status = o.status /\ p.filled = o.filled
    <3>1. p = o
      BY <1>2, <2>1, SameOrder DEF Continues
    <3> QED
      BY <1>2, <3>1
  <2>2. CASE Rests(o) /\ p.status \in { "partially_filled", "filled" } /\ p.filled > o.filled
    BY <1>1, <1>2, <2>2 DEF Continues
  <2> QED
    BY <1>2, <2>1, <2>2 DEF Continues
<1> QED
  BY <1>2 DEF Continues

LEMMA ContinuedStep ==
  ASSUME CallsWait, OneThread, IInv, IInv', Known, Known', Continued, [Next]_vars
  PROVE  Continued'
<1>1. /\ \A id \in DOMAIN venue : venue[id] \in OrderRecords
      /\ \A id \in DOMAIN venue' : venue'[id] \in OrderRecords
      /\ \A id \in DOMAIN db.orders : db.orders[id] \in OrderRecords
  BY DEF IInv, SharedOK, Books
<1>2. ASSUME venue' = venue \/ DOMAIN venue' = {}, db'.orders = db.orders
      PROVE  Continued'
  BY <1>2 DEF Continued
<1>3. ASSUME NEW id \in DOMAIN venue, db'.orders = Put(db.orders, id, venue[id]), venue' = venue
      PROVE  Continued'
  <2>1. DOMAIN db'.orders = DOMAIN db.orders \cup {id} /\ db'.orders[id] = venue[id]
    BY <1>3 DEF Put
  <2>2. \A x \in DOMAIN db.orders \ {id} : db'.orders[x] = db.orders[x]
    BY <1>3 DEF Put
  <2>3. Continues(venue[id], venue[id])
    BY <1>1, <1>3, ContinuesOn
  <2> QED
    BY <1>3, <2>1, <2>2, <2>3 DEF Continued
<1>4. ASSUME NEW t \in Threads, Place(t)
      PROVE  Continued'
  <2> DEFINE me == job[t].id
             r == Placed(me, book)
  <2>1. me \in OrderIds /\ book \in Tops /\ me \notin DOMAIN db.orders
    BY <1>4, JobOf DEF Place, JobAt, Asked, IInv, SharedOK, Known, CallKnows, Asking
  <2>2. Answered(me, r.order)
    BY <2>1, PlacedType DEF Answered
  <2>3. venue' = Put(venue, me, r.order) /\ db' = db
    BY <1>4 DEF Place
  <2> HIDE DEF me, r
  <2> QED
    BY <2>1, <2>2, <2>3 DEF Continued, Put
<1>5. ASSUME NEW t \in Threads, TickEngine(t)
      PROVE  Continued'
  <2>1. /\ DOMAIN venue' = DOMAIN venue /\ db' = db
        /\ \A id \in DOMAIN venue : Continues(venue[id], venue'[id])
    BY <1>5, TickMatched DEF Matching, TickEngine
  <2>2. \A id \in DOMAIN venue : Answered(id, venue'[id])
    BY <2>1 DEF Continued, Continues, Answered, Successors
  <2>3. ASSUME NEW id \in DOMAIN venue \cap DOMAIN db.orders
        PROVE  Continues(db.orders[id], venue'[id])
    BY <1>1, <2>1, ContinuesOn DEF Continued
  <2> QED
    BY <2>1, <2>2, <2>3 DEF Continued
<1>6. CASE BootRestore
  <2>1. \A id \in DOMAIN venue' : id \in DOMAIN db.orders /\ venue'[id] = db.orders[id]
    BY <1>6 DEF BootRestore, Over, Restrict, Known, Restoring
  <2>2. db' = db
    BY <1>6 DEF BootRestore
  <2>3. \A id \in DOMAIN db.orders : Continues(db.orders[id], db.orders[id])
    BY <1>1, ContinuesOn
  <2> QED
    BY <2>1, <2>2, <2>3 DEF Continued
<1>7. CASE Crash
  <2>1. DOMAIN venue' = {} /\ db'.orders = db.orders
    BY <1>7 DEF Crash, PartlyWritten, WithBalances, NoOrders, IInv, SharedOK
  <2> QED
    BY <1>2, <2>1
<1>8. CASE db'.orders = db.orders /\ ~ Crash /\ ~ BootRestore
             /\ \A t \in Threads : ~ Place(t) /\ ~ TickEngine(t)
  <2>1. venue' = venue
    BY <1>8, VenueStands DEF Next, ThreadStep, Boot, BootSeed, BootLoad, engine, vars
  <2> QED
    BY <1>2, <1>8, <2>1
<1> QED
  BY <1>3, <1>4, <1>5, <1>6, <1>7, <1>8, OrdersWritten

\* What the specification of a venue sees of the stored orders.
LifeOf(o) == [status |-> o.status, filled |-> o.filled, quantity |-> o.quantity]

Life == [id \in DOMAIN db.orders |-> LifeOf(db.orders[id])]

LEMMA StoredTerms ==
  /\ Stored!Successors = Successors
  /\ \A s, f, q : Stored!StatusAgreesWithFills(s, f, q) <=> StatusAgreesWithFills(s, f, q)
<1>1. Stored!Successors = Successors
  BY DEF Stored!Successors, Successors
<1>2. \A s, f, q : Stored!StatusAgreesWithFills(s, f, q) <=> StatusAgreesWithFills(s, f, q)
  BY DEF Stored!StatusAgreesWithFills, StatusAgreesWithFills
<1> QED
  BY <1>1, <1>2

\* A first row of an order is one a venue may answer with.
LEMMA Admitted ==
  ASSUME NEW id \in OrderIds \ DOMAIN db.orders, NEW o \in OrderRecords, Answered(id, o),
         db'.orders = Put(db.orders, id, o)
  PROVE  Stored!Next
<1> DEFINE Quantities == { Request[x].quantity : x \in OrderIds }
<1>1. Life' = [x \in DOMAIN Life \cup {id} |->
                 IF x = id THEN [status |-> o.status, filled |-> o.filled,
                                 quantity |-> o.quantity]
                           ELSE Life[x]]
  BY DEF Life, LifeOf, Put
<1>2. /\ o.filled \in 0..o.quantity /\ StatusAgreesWithFills(o.status, o.filled, o.quantity)
      /\ o.quantity \in Quantities /\ o.status \in Stored!Successors["submitted"]
  BY OrderFields, StoredTerms DEF StatusAgreesWithFills, Answered
<1>3. \E q \in Quantities, s \in Stored!Successors["submitted"] : \E f \in 0..q :
        /\ Stored!StatusAgreesWithFills(s, f, q)
        /\ Life' = [x \in DOMAIN Life \cup {id} |->
                      IF x = id THEN [status |-> s, filled |-> f, quantity |-> q]
                                ELSE Life[x]]
  BY <1>1, <1>2, StoredTerms
<1>4. id \notin DOMAIN Life
  BY DEF Life
<1>5. Stored!Admit(id)
  BY <1>3, <1>4 DEF Stored!Admit, Life, LifeOf
<1> QED
  BY <1>5 DEF Stored!Next

\* A row that is written over is one step on, or as it was.
LEMMA Advanced ==
  ASSUME NEW id \in DOMAIN db.orders, id \in OrderIds, NEW o \in OrderRecords,
         db.orders[id] \in OrderRecords, Continues(db.orders[id], o),
         db'.orders = Put(db.orders, id, o)
  PROVE  Stored!Next \/ Life' = Life
<1> DEFINE was == db.orders[id]
<1>1. DOMAIN db'.orders = DOMAIN db.orders
  BY DEF Put
<1>2. Life' = [x \in DOMAIN db.orders |-> IF x = id THEN LifeOf(o) ELSE LifeOf(db.orders[x])]
  BY DEF Life, Put
<1>3. CASE o.status = was.status /\ o.filled = was.filled
  <2>1. LifeOf(o) = LifeOf(was)
    BY <1>3 DEF Continues, LifeOf
  <2> QED
    BY <1>2, <2>1 DEF Life
<1>4. CASE Rests(was) /\ o.status \in { "partially_filled", "filled" } /\ o.filled > was.filled
  <2>1. /\ o.quantity = was.quantity /\ o.filled \in was.filled .. was.quantity
        /\ StatusAgreesWithFills(o.status, o.filled, was.quantity)
        /\ o.status \in Successors[was.status]
    <3>1. /\ o.filled \in Nat /\ was.filled \in Nat /\ o.filled <= o.quantity
          /\ o.quantity \in Nat
          /\ StatusAgreesWithFills(o.status, o.filled, o.quantity)
      BY OrderFields
    <3> QED
      BY <1>4, <3>1 DEF Continues, Rests, Successors
  <2>2. [LifeOf(was) EXCEPT !.status = o.status, !.filled = o.filled] = LifeOf(o)
    <3> DEFINE r == LifeOf(was)
    <3>1. [r EXCEPT !.status = o.status, !.filled = o.filled]
            = [x \in DOMAIN r |-> IF x = "status" THEN o.status
                                  ELSE IF x = "filled" THEN o.filled ELSE r[x]]
      <4> HIDE DEF r
      <4> QED
        OBVIOUS
    <3>2. [x \in DOMAIN r |-> IF x = "status" THEN o.status
                              ELSE IF x = "filled" THEN o.filled ELSE r[x]]
            = LifeOf(o)
      BY <2>1 DEF LifeOf
    <3> QED
      BY <3>1, <3>2
  <2>3. [Life EXCEPT ![id].status = o.status, ![id].filled = o.filled]
          = [x \in DOMAIN db.orders |->
               IF x = id THEN [Life[x] EXCEPT !.status = o.status, !.filled = o.filled]
                         ELSE Life[x]]
    BY DEF Life
  <2>4. Life' = [Life EXCEPT ![id].status = o.status, ![id].filled = o.filled]
    <3>1. \A x \in DOMAIN db.orders : Life[x] = LifeOf(db.orders[x])
      BY DEF Life
    <3> QED
      BY <1>2, <2>2, <2>3, <3>1
  <2>5. /\ Life[id].status = was.status /\ Life[id].filled = was.filled
        /\ Life[id].quantity = was.quantity /\ id \in DOMAIN Life
    BY DEF Life, LifeOf
  <2>6. \E s \in Stored!Successors[Life[id].status],
           f \in Life[id].filled .. Life[id].quantity :
          /\ Stored!StatusAgreesWithFills(s, f, Life[id].quantity)
          /\ Life' = [Life EXCEPT ![id].status = s, ![id].filled = f]
    BY <2>1, <2>4, <2>5, StoredTerms
  <2>7. Stored!Advance(id)
    BY <2>5, <2>6 DEF Stored!Advance, Life, LifeOf
  <2> QED
    BY <2>7 DEF Stored!Next
<1> QED
  BY <1>3, <1>4 DEF Continues

\* The store tells of every order a history the state machine of domain.rs allows,
\* in all lives of the demo process, whatever is refused, fails to be written, or
\* is lost in a crash: the stored orders implement OrderLifecycle.
THEOREM StoreAlwaysKeepsLifecycle ==
  ASSUME CallsWait, OneThread
  PROVE  Spec => StoreKeepsLifecycle
<1>1. Init => Known /\ Continued
  BY KnownInit DEF Init, Continued, NoOrders
<1>2. IInv /\ IInv' /\ Known /\ Continued /\ [Next]_vars => Known' /\ Continued'
  BY KnownStep, ContinuedStep
<1>3. Init => Stored!Init
  BY DEF Init, Stored!Init, NoOrders
<1>4. ASSUME IInv, Known, Continued, [Next]_vars
      PROVE  [Stored!Next]_Life
  <2>1. CASE db'.orders = db.orders
    BY <2>1 DEF Life
  <2>2. ASSUME NEW id \in DOMAIN venue, db'.orders = Put(db.orders, id, venue[id])
        PROVE  [Stored!Next]_Life
    <3>1. venue[id] \in OrderRecords /\ id \in OrderIds
      BY <1>4, <2>2 DEF IInv, SharedOK, Books
    <3>2. CASE id \notin DOMAIN db.orders
      BY <1>4, <2>2, <3>1, <3>2, Admitted DEF Continued
    <3>3. CASE id \in DOMAIN db.orders
      <4>1. db.orders[id] \in OrderRecords /\ Continues(db.orders[id], venue[id])
        BY <1>4, <2>2, <3>3 DEF IInv, SharedOK, Books, Continued
      <4> QED
        BY <2>2, <3>1, <3>3, <4>1, Advanced
    <3> QED
      BY <3>2, <3>3
  <2> QED
    BY <1>4, <2>1, <2>2, OrdersWritten
<1> QED
  BY <1>1, <1>2, <1>3, <1>4, InvariantHolds, PTL
  DEF Spec, StoreKeepsLifecycle, Stored!Spec, Life, LifeOf

(***************************************************************************)
(* The bookings of the demo process                                        *)
(***************************************************************************)

\* main.rs:45, and what the API asks of every order but a market order.
Immediate  == FillModel = "immediate"
AllPriced  == \A id \in OrderIds : Request[id].price # NoPrice

\* What an order is booked with, and released with.
Cost == [id \in OrderIds |-> Request[id].price * Request[id].quantity]

\* An order the engine has answered: as it was asked for, and filled whole or
\* not at all.
Settles(id, o) ==
  /\ o.price = Request[id].price /\ o.quantity = Request[id].quantity
  /\ o.status \in { "acknowledged", "filled", "cancelled", "rejected" }
  /\ o.status # "filled" => o.filled = 0

WholeFills == { f \in FillRecords : f.quantity = Request[f.order].quantity }

\* The fills whose orders a call at the step p has still to release.
Unreleased(p, j) ==
  IF p \in { "apply", "save_fill", "query", "reflect", "release" } THEN j.todo
  ELSE IF p \in { "save_seen", "next" } THEN Tail(j.todo) ELSE << >>

\* What is executed of an order and waits for its release.
Waiting(t, id) == FilledBy(pending, id) + FilledBy(Unreleased(pc[t], job[t]), id)

\* A call that has placed an order, as opposed to a tick.
Placing(p, j) == p \in Ordered /\ j.kind # "tick"

\* An order that ended without a fill.
Refused(o) == IsTerminal(o.status) /\ o.filled = 0

\* The call has the order booked and not yet placed, or has to release it.
Answers(p, j, id) ==
  \/ p = "place" /\ j.id = id
  \/ Placing(p, j) /\ j.id = id /\ Refused(j.placed)

CallSettles(t) ==
  /\ pc[t] \in Carrying => job[t].todo \in Seq(WholeFills)
  /\ pc[t] = "place" \/ Placing(pc[t], job[t]) => job[t].notional = Cost[job[t].id]
  /\ Placing(pc[t], job[t]) =>
       /\ job[t].id \in DOMAIN venue
       /\ IsTerminal(job[t].placed.status) => venue[job[t].id] = job[t].placed
  /\ \A id \in OrderIds : Waiting(t, id) # 0 =>
       /\ Waiting(t, id) = Request[id].quantity
       /\ id \in DOMAIN venue /\ venue[id].status = "filled"

Settled ==
  /\ \A id \in DOMAIN venue : Settles(id, venue[id])
  /\ \A id \in DOMAIN db.orders : Settles(id, db.orders[id])
  /\ pending \in Seq(WholeFills)
  /\ \A t \in Threads : CallSettles(t)

\* The orders that are booked: those that are live, those that have ended and
\* wait for their release, and the one that is about to be placed.
Held ==
  { id \in OrderIds :
      \/ id \in LiveOrders
      \/ \E t \in Threads : Waiting(t, id) # 0 \/ Answers(pc[t], job[t], id) }

\* The risk engine r has at least these orders booked, and no others.
BookedAll(r, ids) ==
  /\ r.by_account["paper_acc"] >= SumFunctionOnSet(Cost, ids)
  /\ r.active["oneshot"] >= Cardinality(ids)

BookedOnly(r, ids) ==
  /\ r.by_account["paper_acc"] = SumFunctionOnSet(Cost, ids)
  /\ r.active["oneshot"] = Cardinality(ids)

HeldBooked == BookedAll(risk, Held) /\ (NoError => BookedOnly(risk, Held))

LEMMA CostType ==
  ASSUME NEW ids \in SUBSET OrderIds
  PROVE  /\ IsFiniteSet(ids) /\ Cardinality(ids) \in Nat
         /\ \A id \in ids : Cost[id] \in Nat
         /\ SumFunctionOnSet(Cost, ids) \in Int
<1>1. IsFiniteSet(ids) /\ Cardinality(ids) \in Nat
  BY RuntimeAssumption, FS_Subset, FS_CardinalityType
<1>2. ASSUME NEW id \in ids
      PROVE  Cost[id] \in Nat
  <2>1. Cost[id] = Request[id].price * Request[id].quantity
    BY DEF Cost
  <2>2. \A x \in Nat, y \in Nat : x * y \in Nat
    OBVIOUS
  <2> QED
    BY <2>1, <2>2, SentType
<1>3. SumFunctionOnSet(Cost, ids) \in Int
  <2>1. \A id \in ids : Cost[id] \in Int
    BY <1>2
  <2> QED
    BY <1>1, <2>1, SumChosen
<1> QED
  BY <1>1, <1>2, <1>3

\* One order more, with its booking.
LEMMA OneBooked ==
  ASSUME NEW ids \in SUBSET OrderIds, NEW id \in OrderIds \ ids,
         NEW r, RiskOK(r), NEW q,
         q.by_account["paper_acc"] = r.by_account["paper_acc"] + Cost[id],
         q.active["oneshot"] = r.active["oneshot"] + 1
  PROVE  /\ BookedAll(r, ids) => BookedAll(q, ids \cup {id})
         /\ BookedOnly(r, ids) => BookedOnly(q, ids \cup {id})
<1> DEFINE more == ids \cup {id}
           sum(S) == SumFunctionOnSet(Cost, S)
<1>1. more \in SUBSET OrderIds /\ id \in more /\ more \ {id} = ids
  OBVIOUS
<1>2. /\ IsFiniteSet(ids) /\ IsFiniteSet(more) /\ Cardinality(ids) \in Nat
      /\ sum(ids) \in Int /\ \A x \in more : Cost[x] \in Int
  BY <1>1, CostType
<1>3. Cardinality(more) = Cardinality(ids) + 1
  BY <1>2, FS_AddElement
<1>4. sum(more) = Cost[id] + sum(ids) /\ Cost[id] \in Int
  <2> HIDE DEF more
  <2> QED
    BY <1>1, <1>2, SumRemove
<1>5. r.by_account["paper_acc"] \in Int /\ r.active["oneshot"] \in Nat
  BY RuntimeAssumption DEF RiskOK
<1> HIDE DEF more, sum
<1> QED
  BY <1>2, <1>3, <1>4, <1>5 DEF more, sum, BookedAll, BookedOnly

\* One order less, with its booking.
LEMMA OneReleased ==
  ASSUME NEW ids \in SUBSET OrderIds, NEW id \in ids, NEW r, RiskOK(r),
         NEW q, q = Release(r, Cost[id])
  PROVE  /\ BookedAll(r, ids) => BookedAll(q, ids \ {id})
         /\ BookedOnly(r, ids) => BookedOnly(q, ids \ {id})
<1> DEFINE less == ids \ {id}
           sum(S) == SumFunctionOnSet(Cost, S)
<1>1. /\ IsFiniteSet(ids) /\ Cardinality(ids) \in Nat /\ Cardinality(less) \in Nat
      /\ sum(ids) \in Int /\ sum(less) \in Int /\ \A x \in ids : Cost[x] \in Int
  BY CostType
<1>2. Cardinality(less) = Cardinality(ids) - 1
  BY <1>1, FS_RemoveElement
<1>3. sum(ids) = Cost[id] + sum(less) /\ Cost[id] \in Int
  BY <1>1, SumRemove
<1>4. r.by_account["paper_acc"] \in Int /\ r.active["oneshot"] \in Nat
  BY RuntimeAssumption DEF RiskOK
<1>5. /\ q.by_account["paper_acc"] = r.by_account["paper_acc"] - Cost[id]
      /\ q.active["oneshot"] = IF r.active["oneshot"] = 0 THEN 0 ELSE r.active["oneshot"] - 1
  BY RuntimeAssumption DEF RiskOK, Release, AfterTerminal
<1> HIDE DEF less, sum
<1>6. BookedAll(r, ids) => BookedAll(q, less)
  BY <1>1, <1>2, <1>3, <1>4, <1>5 DEF sum, BookedAll
<1>7. BookedOnly(r, ids) => BookedOnly(q, less)
  BY <1>1, <1>2, <1>3, <1>4, <1>5 DEF sum, BookedOnly
<1> QED
  BY <1>6, <1>7 DEF less

\* Orders less, with the same bookings.
LEMMA FewerHeld ==
  ASSUME NEW ids \in SUBSET OrderIds, NEW some \in SUBSET ids, NEW r, RiskOK(r),
         BookedAll(r, ids)
  PROVE  BookedAll(r, some)
<1> DEFINE part == [id \in OrderIds |-> IF id \in some THEN Cost[id] ELSE 0]
<1>1. /\ IsFiniteSet(ids) /\ Cardinality(ids) \in Nat /\ IsFiniteSet(some)
      /\ Cardinality(some) \in Nat /\ \A id \in ids : Cost[id] \in Nat
      /\ SumFunctionOnSet(Cost, ids) \in Int /\ SumFunctionOnSet(Cost, some) \in Int
  BY CostType
<1>2. Cardinality(some) <= Cardinality(ids)
  BY <1>1, FS_Subset
<1>3. /\ \A id \in ids : part[id] \in Int /\ Cost[id] \in Int /\ part[id] <= Cost[id]
      /\ \A id \in ids \ some : part[id] = 0
      /\ \A id \in some : Cost[id] \in Int /\ part[id] = Cost[id]
  BY <1>1
<1> HIDE DEF part
<1>4. SumFunctionOnSet(part, ids) = SumFunctionOnSet(part, some)
  BY <1>1, <1>3, SumZeros
<1>5. SumFunctionOnSet(part, some) = SumFunctionOnSet(Cost, some)
  BY <1>1, <1>3, SumEqual
<1>6. SumFunctionOnSet(part, ids) <= SumFunctionOnSet(Cost, ids)
  BY <1>1, <1>3, SumMonotone
<1>7. r.by_account["paper_acc"] \in Int /\ r.active["oneshot"] \in Nat
  BY RuntimeAssumption DEF RiskOK
<1> QED
  BY <1>1, <1>2, <1>4, <1>5, <1>6, <1>7 DEF BookedAll

\* The restore books the orders it seats.
LEMMA RebookedHolds ==
  ASSUME NEW ids \in SUBSET OrderIds, NEW r, RiskOK(r), NEW orders,
         \A id \in ids : OrderNotional(orders[id], RefPrice) = Cost[id],
         NEW q, q = Rebooked(r, orders, SetToSeq(ids))
  PROVE  /\ BookedAll(r, {}) => BookedAll(q, ids)
         /\ BookedOnly(r, {}) => BookedOnly(q, ids)
<1> DEFINE seq == SetToSeq(ids)
<1>1. IsFiniteSet(ids) /\ \A id \in ids : Cost[id] \in Int
  BY CostType
<1>2. PICK n \in Nat : /\ DOMAIN seq = 1..n /\ \A k \in 1..n : seq[k] \in ids
                       /\ \A id \in ids : \E k \in 1..n : seq[k] = id
                       /\ \A k \in 1..n, l \in 1..n : seq[k] = seq[l] => k = l
  BY <1>1, SetNumbered
<1> HIDE DEF seq
<1> DEFINE D == 1..n
           at(s) == { seq[k] : k \in s }
<1>3. \A k \in D : OrderNotional(orders[seq[k]], RefPrice) \in Int
  BY <1>1, <1>2
<1>4. PICK g : InTurn(r, orders, n, seq, g)
  BY <1>2, <1>3, RebookedInTurn
<1> DEFINE Good(s) == /\ BookedAll(r, {}) => BookedAll(g[s], at(s))
                      /\ BookedOnly(r, {}) => BookedOnly(g[s], at(s))
           Bad == { s \in SUBSET D : ~ Good(s) }
<1>5. Good({})
  <2>1. at({}) = {} /\ g[{}] = r
    BY <1>4 DEF InTurn
  <2> QED
    BY <2>1
<1>6. ASSUME NEW s \in SUBSET D, s # {}, Good(s \ {Max(s)})
      PROVE  Good(s)
  <2> DEFINE m == Max(s)
             rest == s \ {m}
             id == seq[m]
  <2>1. /\ m \in s /\ m \in D /\ RiskOK(g[rest]) /\ rest \in SUBSET D
        /\ g[s] = Booked(g[rest], "oneshot", "paper_acc", OrderNotional(orders[id], RefPrice))
    BY <1>4, <1>6 DEF InTurn
  <2> HIDE DEF m
  <2>2. /\ id \in ids /\ OrderNotional(orders[id], RefPrice) = Cost[id] /\ Cost[id] \in Int
    BY <1>1, <1>2, <2>1
  <2>3. /\ at(rest) \in SUBSET OrderIds /\ id \in OrderIds \ at(rest)
        /\ at(rest) \cup {id} = at(s)
    BY <1>2, <2>1, <2>2
  <2> HIDE DEF rest, id, at
  <2>4. /\ g[s].by_account["paper_acc"] = g[rest].by_account["paper_acc"] + Cost[id]
        /\ g[s].active["oneshot"] = g[rest].active["oneshot"] + 1
    BY <2>1, <2>2, RuntimeAssumption DEF Booked, RiskOK
  <2>5. /\ BookedAll(g[rest], at(rest)) => BookedAll(g[s], at(rest) \cup {id})
        /\ BookedOnly(g[rest], at(rest)) => BookedOnly(g[s], at(rest) \cup {id})
    BY <2>1, <2>3, <2>4, OneBooked
  <2> QED
    BY <1>6, <2>3, <2>5 DEF rest, m
<1>7. Bad = {}
  <2>1. SUFFICES ASSUME Bad # {}
                 PROVE  FALSE
    OBVIOUS
  <2>2. IsFiniteSet(D) /\ Bad \in SUBSET SUBSET D
    BY FS_Interval
  <2> HIDE DEF Good, D
  <2>3. PICK s \in Bad : \A k \in s : s \ {k} \notin Bad
    BY <2>1, <2>2, MinimalSubset
  <2>4. s \in SUBSET D /\ ~ Good(s)
    OBVIOUS
  <2>5. s # {}
    BY <1>5, <2>4
  <2>6. Max(s) \in s /\ s \ {Max(s)} \in SUBSET D
    BY <1>4, <2>4, <2>5 DEF InTurn, D
  <2>7. Good(s \ {Max(s)})
    BY <2>3, <2>6
  <2> QED
    BY <1>6, <2>4, <2>5, <2>7
<1>8. Good(D) /\ at(D) = ids /\ g[D] = q
  <2>1. D \in SUBSET D
    OBVIOUS
  <2>2. Good(D)
    BY <1>7, <2>1
  <2>3. at(D) = ids
    BY <1>2
  <2>4. g[D] = q
    BY <1>4 DEF InTurn, seq
  <2> QED
    BY <2>2, <2>3, <2>4
<1> QED
  BY <1>8

LEMMA PlacedSettles ==
  ASSUME Immediate, NEW id \in OrderIds, NEW top \in Tops, NEW r, r = Placed(id, top)
  PROVE  /\ Settles(id, r.order) /\ r.order \in OrderRecords
         /\ r.order.status = "filled" =>
              \E f \in WholeFills : r.fills = << f >> /\ f.order = id
         /\ r.order.status # "filled" => r.fills = << >>
<1>1. /\ r.order \in OrderRecords /\ r.order.quantity = Request[id].quantity
      /\ r.order.price = Request[id].price
      /\ r.order.status \in Successors["submitted"] \ { "cancel_pending", "unknown" }
      /\ r.order.filled \in { 0, r.order.quantity }
      /\ \/ r.fills = << >> /\ r.order.filled = 0
         \/ \E f \in FillRecords :
              r.fills = << f >> /\ f.order = id /\ f.quantity = r.order.filled
  BY PlacedType DEF Immediate
<1>2. /\ r.order.quantity \in Nat /\ r.order.quantity > 0
      /\ StatusAgreesWithFills(r.order.status, r.order.filled, r.order.quantity)
  BY <1>1, OrderFields
<1>3. /\ r.order.status \in { "acknowledged", "filled", "cancelled", "rejected" }
      /\ r.order.status = "filled" <=> r.order.filled # 0
  BY <1>1, <1>2 DEF StatusAgreesWithFills, Successors
<1>4. \A f \in FillRecords : f.quantity > 0
  BY DEF FillRecords
<1> QED
  BY <1>1, <1>3, <1>4 DEF Settles, WholeFills

LEMMA WholeParts ==
  /\ << >> \in Seq(WholeFills)
  /\ \A f \in WholeFills :
       /\ f \in FillRecords /\ f.order \in OrderIds /\ f.quantity = Request[f.order].quantity
       /\ f.quantity \in Nat /\ f.quantity > 0 /\ << f >> \in Seq(WholeFills)
  /\ \A s \in Seq(WholeFills) : s \in Seq(FillRecords)
  /\ \A s \in Seq(WholeFills) :
       s # << >> => Head(s) \in WholeFills /\ Tail(s) \in Seq(WholeFills)
  /\ \A p \in Seq(WholeFills), q \in Seq(WholeFills) : p \o q \in Seq(WholeFills)
<1>1. \A f \in WholeFills :
        /\ f \in FillRecords /\ f.order \in OrderIds /\ f.quantity = Request[f.order].quantity
        /\ f.quantity \in Nat /\ f.quantity > 0
  BY DEF WholeFills, FillRecords
<1>2. WholeFills \subseteq FillRecords
  BY <1>1
<1>3. \A s \in Seq(WholeFills) : s \in Seq(FillRecords)
  BY <1>2, SeqDef
<1>4. \A s \in Seq(WholeFills) :
        s # << >> => Head(s) \in WholeFills /\ Tail(s) \in Seq(WholeFills)
  BY HeadTailProperties
<1>5. \A p \in Seq(WholeFills), q \in Seq(WholeFills) : p \o q \in Seq(WholeFills)
  BY ConcatProperties
<1>6. << >> \in Seq(WholeFills) /\ \A f \in WholeFills : << f >> \in Seq(WholeFills)
  OBVIOUS
<1> QED
  BY <1>1, <1>3, <1>4, <1>5, <1>6

\* Fills that are whole execute nothing of an order, or all of it.
LEMMA WholeOrNone ==
  ASSUME NEW id \in OrderIds, NEW s \in Seq(WholeFills)
  PROVE  /\ FilledBy(s, id) \in Nat
         /\ FilledBy(s, id) = 0 \/ FilledBy(s, id) >= Request[id].quantity
         /\ Names(s, id) => FilledBy(s, id) >= Request[id].quantity
<1>1. s \in Seq(FillRecords) /\ FilledBy(s, id) \in Nat
  BY WholeParts, FilledByWeight
<1>2. ASSUME NEW n \in DOMAIN s, s[n].order = id
      PROVE  FilledBy(s, id) >= Request[id].quantity
  <2> DEFINE w == Amount(id)
  <2>1. s[n] \in FillRecords /\ s[n].quantity = Request[id].quantity
    <3>1. s[n] \in WholeFills
      BY <1>2, ElementOfSeq, LenProperties
    <3> QED
      BY <1>2, <3>1, WholeParts
  <2>2. /\ w \in [FillRecords -> Int] /\ \A f \in FillRecords : w[f] >= 0
        /\ w[s[n]] = Request[id].quantity
    BY <1>2, <2>1, AmountType
  <2> HIDE DEF w
  <2>3. /\ IsFiniteSet(DOMAIN s) /\ DOMAIN s = 1..Len(s)
        /\ Weights(s, w) \in [1..Len(s) -> Int]
    BY <1>1, <2>2, WeightType
  <2>4. \A k \in DOMAIN s : Weights(s, w)[k] >= 0
    <3>1. \A k \in DOMAIN s : s[k] \in FillRecords
      BY <1>1, ElementOfSeq, LenProperties
    <3> QED
      BY <2>2, <3>1 DEF Weights
  <2>5. Weights(s, w)[n] <= SumFunction(Weights(s, w))
    <3> DEFINE f == Weights(s, w)
    <3>1. f \in [DOMAIN s -> Int] /\ \A k \in DOMAIN s : f[k] >= 0
      BY <2>3, <2>4
    <3> HIDE DEF f
    <3>2. f[n] <= SumFunction(f)
      BY <1>2, <2>3, <3>1, SumType
    <3> QED
      BY <3>2 DEF f
  <2>6. FilledBy(s, id) = SumFunction(Weights(s, w)) /\ Weights(s, w)[n] = w[s[n]]
    BY <1>1, <1>2, FilledByWeight DEF Weight, Weights, w
  <2> QED
    BY <1>1, <2>2, <2>5, <2>6, SentType
<1>3. Names(s, id) => FilledBy(s, id) >= Request[id].quantity
  BY <1>2 DEF Names
<1>4. FilledBy(s, id) > 0 => Names(s, id)
  BY <1>1, NamesParts
<1> QED
  BY <1>1, <1>3, <1>4

\* The call takes a step that neither places an order nor ends one: what is booked
\* stays so.
GoesOn(t) ==
  /\ venue' = venue /\ pending' \in Seq(WholeFills)
  /\ pc'[t] \in Carrying => job'[t].todo \in Seq(WholeFills)
  /\ pc[t] # "place" /\ pc'[t] # "place"
  /\ Placing(pc'[t], job'[t]) <=> Placing(pc[t], job[t])
  /\ Placing(pc[t], job[t]) =>
       /\ job'[t].id = job[t].id /\ job'[t].placed = job[t].placed
       /\ job'[t].notional = job[t].notional
  /\ \A id \in OrderIds : Waiting(t, id)' = Waiting(t, id)
  /\ risk'.by_account = risk.by_account /\ risk'.active = risk.active

\* The call applies a fill of an order that is filled and still booked.
LEMMA FillingWaits ==
  ASSUME IInv, Settled, NEW t \in Threads, pc[t] \in Carrying \ { "save_seen", "next" }
  PROVE  /\ job[t].todo # << >> /\ TheFill(t) \in WholeFills /\ Filling(t) \in OrderIds
         /\ Tail(job[t].todo) \in Seq(WholeFills)
         /\ FilledBy(pending, Filling(t)) = 0 /\ FilledBy(Tail(job[t].todo), Filling(t)) = 0
         /\ Waiting(t, Filling(t)) # 0
         /\ Filling(t) \in DOMAIN venue /\ venue[Filling(t)].status = "filled"
<1> DEFINE todo == job[t].todo
           id == Filling(t)
<1>1. todo # << >> /\ todo \in Seq(FillRecords)
  BY CarryingCall
<1>2. todo \in Seq(WholeFills) /\ pending \in Seq(WholeFills) /\ CallSettles(t)
  BY DEF Settled, CallSettles
<1>3. TheFill(t) \in WholeFills /\ id \in OrderIds /\ Tail(todo) \in Seq(WholeFills)
  BY <1>1, <1>2, WholeParts DEF TheFill, Filling
<1>4. FilledBy(todo, id) = Request[id].quantity + FilledBy(Tail(todo), id)
  <2>1. FilledBy(todo, id) = Executes(Head(todo), id) + FilledBy(Tail(todo), id)
    BY <1>1, FilledByTail
  <2>2. Executes(Head(todo), id) = Request[id].quantity
    BY <1>3, WholeParts DEF Executes, Filling, TheFill
  <2> QED
    BY <2>1, <2>2
<1>5. Waiting(t, id) = FilledBy(pending, id) + FilledBy(todo, id)
  BY DEF Waiting, Unreleased, Carrying
<1>6. /\ FilledBy(pending, id) \in Nat /\ FilledBy(Tail(todo), id) \in Nat
      /\ Request[id].quantity \in Nat /\ Request[id].quantity > 0
  BY <1>2, <1>3, WholeOrNone, SentType, OrderFields
<1> HIDE DEF todo, id
<1>7. Waiting(t, id) # 0
  BY <1>4, <1>5, <1>6
<1>8. /\ Waiting(t, id) = Request[id].quantity
      /\ id \in DOMAIN venue /\ venue[id].status = "filled"
  BY <1>2, <1>3, <1>7 DEF CallSettles
<1>9. FilledBy(pending, id) = 0 /\ FilledBy(Tail(todo), id) = 0
  BY <1>4, <1>5, <1>6, <1>8
<1> QED
  BY <1>1, <1>3, <1>7, <1>8, <1>9 DEF todo, id

LEMMA StepGoesOn ==
  ASSUME IInv, IInv', Settled, NEW t \in Threads, ThreadStep(t), ~ Submit(t), ~ Place(t),
         ~ Finish(t), ~ TickEngine(t), ~ ReleaseFilled(t), ~ StoreFails(t),
         ApplyToPortfolio(t) => Affordable(cash, TheFill(t))
  PROVE  GoesOn(t)
<1>1. /\ pc \in [Threads -> Steps] /\ DOMAIN job = Threads
      /\ pending \in Seq(WholeFills) /\ pending \in Seq(FillRecords) /\ CallSettles(t)
      /\ pc[t] \in Carrying => job[t].todo \in Seq(WholeFills) /\ job[t].todo # << >>
  BY CarryingCall DEF IInv, SharedOK, Settled, CallSettles
<1>2. CASE \/ MissedTick(t) \/ (\E x \in OrderIds : ReadMarket(t, x))
           \/ (\E top \in Ticks : TickMarket(t, top))
           \/ CopyBalances(t) \/ SaveBalances(t)
  <2>1. /\ venue' = venue /\ pending' = pending
        /\ pc[t] \in { "idle", "copy", "persist" }
        /\ pc'[t] \in { "check", "match", "copy", "persist", "idle" }
    BY <1>1, <1>2
    DEF MissedTick, ReadMarket, TickMarket, CopyBalances, SaveBalances, Ready, TickDone,
        Goto, engine
  <2>2. risk'.by_account = risk.by_account /\ risk'.active = risk.active
    BY <1>2
    DEF MissedTick, ReadMarket, TickMarket, CopyBalances, SaveBalances, Informed, AfterFacts,
        IInv, SharedOK, RiskOK
  <2>3. \A id : Waiting(t, id)' = Waiting(t, id)
    BY <2>1 DEF Waiting, Unreleased
  <2> QED
    BY <1>1, <2>1, <2>2, <2>3 DEF GoesOn, Placing, Ordered, Draining, Carrying
<1>3. CASE UpsertPlaced(t) \/ SavePlaced(t)
  <2>1. /\ venue' = venue /\ pending' = pending /\ risk' = risk /\ job' = job
        /\ pc[t] \in { "upsert", "save" } /\ pc'[t] \in { "save", "drain" }
    BY <1>1, <1>3 DEF UpsertPlaced, SavePlaced, Goto, engine, meta
  <2>2. \A id : Waiting(t, id)' = Waiting(t, id)
    BY <2>1 DEF Waiting, Unreleased
  <2> QED
    BY <1>1, <2>1, <2>2 DEF GoesOn, Placing, Ordered, Draining, Carrying
<1>4. CASE TakeFills(t)
  <2>1. /\ venue' = venue /\ pending' = << >> /\ risk' = risk /\ pc[t] = "drain"
        /\ job'[t] = Put(job[t], "todo", pending)
        /\ pc'[t] = IF pending = << >> THEN AfterDrain(t) ELSE "apply"
    BY <1>1, <1>4 DEF TakeFills, Goto
  <2>2. HasOrder(job[t]) \/ job[t].kind = "tick"
    BY <2>1, JobOf DEF JobAt, Ordered, Draining
  <2>3. /\ job'[t].todo = pending /\ job'[t].kind = job[t].kind
        /\ HasOrder(job[t]) => /\ job'[t].id = job[t].id /\ job'[t].placed = job[t].placed
                               /\ job'[t].notional = job[t].notional
                               /\ job[t].kind # "tick"
    <3>1. "kind" \in DOMAIN job[t]
      BY JobOf DEF JobAt
    <3> QED
      BY <2>1, <3>1 DEF Put, HasOrder, Asked
  <2>4. ASSUME NEW id
        PROVE  Waiting(t, id)' = Waiting(t, id)
    <3>1. FilledBy(<< >>, id) = 0 /\ FilledBy(pending, id) \in Nat
      BY <1>1, FilledByEmpty, FilledByWeight
    <3>2. FilledBy(Unreleased(pc'[t], job'[t]), id) = FilledBy(pending, id)
      BY <2>1, <2>3 DEF Unreleased, AfterDrain
    <3>3. Unreleased(pc[t], job[t]) = << >>
      BY <2>1 DEF Unreleased
    <3> QED
      BY <2>1, <3>1, <3>2, <3>3 DEF Waiting
  <2>5. Placing(pc'[t], job'[t]) <=> Placing(pc[t], job[t])
    BY <2>1, <2>3 DEF Placing, AfterDrain, Ordered, Draining, Carrying
  <2>6. pc'[t] # "place"
    BY <2>1 DEF AfterDrain
  <2> QED
    BY <1>1, <2>1, <2>2, <2>3, <2>4, <2>5, <2>6, WholeParts DEF GoesOn, Placing
<1>5. CASE ApplyToPortfolio(t) \/ SaveFill(t) \/ ReflectInOms(t)
  <2>1. /\ venue' = venue /\ pending' = pending /\ risk' = risk /\ job' = job
        /\ pc[t] \in { "apply", "save_fill", "reflect" }
        /\ pc'[t] \in { "save_fill", "query", "release" }
    BY <1>1, <1>5 DEF ApplyToPortfolio, SaveFill, ReflectInOms, Goto, engine, meta
  <2>2. \A id : Waiting(t, id)' = Waiting(t, id)
    BY <2>1 DEF Waiting, Unreleased
  <2> QED
    BY <1>1, <2>1, <2>2 DEF GoesOn, Placing, Ordered, Draining, Carrying
<1>6. CASE SaveSeen(t)
  <2>1. /\ venue' = venue /\ pending' = pending /\ risk' = risk /\ job' = job
        /\ pc[t] = "save_seen" /\ pc'[t] = "next"
    BY <1>1, <1>6 DEF SaveSeen, Goto, engine, meta
  <2>2. \A id : Waiting(t, id)' = Waiting(t, id)
    BY <2>1 DEF Waiting, Unreleased
  <2> QED
    BY <1>1, <2>1, <2>2 DEF GoesOn, Placing, Ordered, Draining, Carrying
<1>7. CASE QueryOrder(t)
  <2>1. /\ venue' = venue /\ pending' = pending /\ risk' = risk /\ pc[t] = "query"
    BY <1>7 DEF QueryOrder, engine
  <2>2. Filling(t) \in DOMAIN venue
    BY <2>1, FillingWaits DEF Carrying
  <2>3. pc'[t] = "reflect" /\ job'[t] = Put(job[t], "seen", venue[Filling(t)])
    BY <1>1, <1>7, <2>2 DEF QueryOrder, Goto, Filling
  <2>4. /\ { "kind", "todo" } \subseteq DOMAIN job[t]
        /\ HasOrder(job[t]) \/ job[t].kind = "tick"
    BY <2>1, CarryingCall DEF Carrying
  <2>5. /\ job'[t].todo = job[t].todo /\ job'[t].kind = job[t].kind
        /\ HasOrder(job[t]) => /\ job'[t].id = job[t].id /\ job'[t].placed = job[t].placed
                               /\ job'[t].notional = job[t].notional
    BY <2>3, <2>4 DEF Put, HasOrder
  <2>6. \A id : Waiting(t, id)' = Waiting(t, id)
    BY <2>1, <2>3, <2>5 DEF Waiting, Unreleased
  <2>7. Placing(pc'[t], job'[t]) <=> Placing(pc[t], job[t])
    BY <2>1, <2>3, <2>5 DEF Placing, Ordered, Draining, Carrying
  <2>8. job[t].todo \in Seq(WholeFills)
    BY <1>1, <2>1 DEF Carrying
  <2> QED
    BY <1>1, <2>1, <2>3, <2>4, <2>5, <2>6, <2>7, <2>8 DEF GoesOn, Placing
<1>8. CASE NextFill(t)
  <2>1. /\ venue' = venue /\ pending' = pending /\ risk' = risk /\ pc[t] = "next"
        /\ job' = [job EXCEPT ![t].todo = Tail(@)]
        /\ pc'[t] = IF Len(job[t].todo) > 1 THEN "apply" ELSE AfterDrain(t)
    BY <1>1, <1>8 DEF NextFill, Goto, engine, meta
  <2>2. /\ { "kind", "todo" } \subseteq DOMAIN job[t]
        /\ HasOrder(job[t]) \/ job[t].kind = "tick"
        /\ job[t].todo \in Seq(FillRecords) /\ job[t].todo # << >>
        /\ job[t].todo \in Seq(WholeFills)
    BY <1>1, <2>1, CarryingCall DEF Carrying
  <2>3. /\ job'[t].todo = Tail(job[t].todo) /\ job'[t].kind = job[t].kind
        /\ HasOrder(job[t]) => /\ job'[t].id = job[t].id /\ job'[t].placed = job[t].placed
                               /\ job'[t].notional = job[t].notional
    BY <1>1, <2>1, <2>2 DEF HasOrder
  <2>4. Len(job[t].todo) > 1 <=> Tail(job[t].todo) # << >>
    BY <2>2, AmountType, WeightTail
  <2>5. Unreleased(pc'[t], job'[t]) = Unreleased(pc[t], job[t])
    BY <2>1, <2>3, <2>4 DEF Unreleased, AfterDrain
  <2>6. \A id : Waiting(t, id)' = Waiting(t, id)
    BY <2>1, <2>5 DEF Waiting
  <2>7. Placing(pc'[t], job'[t]) <=> Placing(pc[t], job[t])
    BY <2>1, <2>3 DEF Placing, AfterDrain, Ordered, Draining, Carrying
  <2>8. pc'[t] # "place" /\ Tail(job[t].todo) \in Seq(WholeFills)
    BY <2>1, <2>2, WholeParts DEF AfterDrain
  <2> QED
    BY <1>1, <2>1, <2>2, <2>3, <2>6, <2>7, <2>8 DEF GoesOn, Placing
<1> QED
  BY <1>2, <1>3, <1>4, <1>5, <1>6, <1>7, <1>8 DEF ThreadStep, Continue

\* An order is placed as it was asked for, with its one fill or with none.
LEMMA PlaceSettles ==
  ASSUME Immediate, IInv, Known, Settled, NEW t \in Threads, Place(t), OneThread
  PROVE  LET me == job[t].id
         IN /\ me \in OrderIds \ DOMAIN venue /\ Waiting(t, me) = 0
            /\ pc[t] = "place" /\ pc'[t] = "upsert" /\ job[t].kind # "tick"
            /\ db' = db /\ risk' = risk /\ NoError' = NoError
            /\ \E o \in OrderRecords, fills \in Seq(WholeFills) :
                 /\ venue' = Put(venue, me, o) /\ pending' = pending \o fills
                 /\ job'[t] = [ kind |-> job[t].kind, id |-> me, notional |-> job[t].notional,
                                placed |-> o ]
                 /\ Settles(me, o)
                 /\ \A id \in OrderIds :
                      FilledBy(fills, id) = IF id = me /\ o.status = "filled"
                                              THEN Request[id].quantity ELSE 0
<1> DEFINE me == job[t].id
           r == Placed(me, book)
<1>1. /\ pc \in [Threads -> Steps] /\ DOMAIN job = Threads /\ book \in Tops
      /\ CallKnows(t) /\ CallSettles(t)
  BY DEF IInv, SharedOK, Known, Settled
<1>2. /\ pc[t] = "place" /\ pc'[t] = "upsert" /\ db' = db /\ risk' = risk /\ NoError' = NoError
      /\ venue' = Put(venue, me, r.order) /\ pending' = pending \o r.fills
      /\ job'[t] = [ kind |-> job[t].kind, id |-> me, notional |-> job[t].notional,
                     placed |-> r.order ]
  BY <1>1 DEF Place, Goto, meta, errors, NoError
<1>3. /\ me \in OrderIds \ DOMAIN venue /\ job[t].kind # "tick"
  BY <1>1, <1>2, JobOf DEF CallKnows, Asking, JobAt, Asked
<1>4. Waiting(t, me) = 0
  BY <1>1, <1>3 DEF CallSettles
<1>5. /\ Settles(me, r.order) /\ r.order \in OrderRecords
      /\ r.order.status = "filled" =>
           \E f \in WholeFills : r.fills = << f >> /\ f.order = me
      /\ r.order.status # "filled" => r.fills = << >>
  BY <1>1, <1>3, PlacedSettles
<1> HIDE DEF me, r
<1>6. /\ r.fills \in Seq(WholeFills)
      /\ \A id \in OrderIds :
           FilledBy(r.fills, id) = IF id = me /\ r.order.status = "filled"
                                     THEN Request[id].quantity ELSE 0
  <2>1. CASE r.order.status = "filled"
    <3>1. PICK f \in WholeFills : r.fills = << f >> /\ f.order = me
      BY <1>5, <2>1
    <3>2. /\ f \in FillRecords /\ << f >> \in Seq(WholeFills)
          /\ f.quantity = Request[me].quantity
      BY <3>1, WholeParts
    <3>3. \A id \in OrderIds : FilledBy(<< f >>, id) = Executes(f, id)
      BY <3>2, FilledByOne
    <3> QED
      BY <2>1, <3>1, <3>2, <3>3 DEF Executes
  <2>2. CASE r.order.status # "filled"
    BY <1>5, <2>2, FilledByEmpty, WholeParts
  <2> QED
    BY <2>1, <2>2
<1> QED
  BY <1>2, <1>3, <1>4, <1>5, <1>6 DEF me

\* A tick fills some live orders whole and leaves all others alone.
LEMMA TickSettles ==
  ASSUME Immediate, IInv, IInv', Settled, NEW t \in Threads, TickEngine(t)
  PROVE  \E fills \in Seq(WholeFills) :
           /\ pending' = pending \o fills /\ DOMAIN venue' = DOMAIN venue
           /\ \A id \in OrderIds :
                \/ /\ FilledBy(fills, id) = 0
                   /\ id \in DOMAIN venue => venue'[id] = venue[id]
                \/ /\ FilledBy(fills, id) = Request[id].quantity
                   /\ id \in DOMAIN venue /\ venue[id].status = "acknowledged"
                   /\ venue'[id].status = "filled" /\ Settles(id, venue'[id])
<1>1. PICK s \in Matching(venue) : venue' = s.orders /\ pending' = pending \o s.fills
  BY TickMatched
<1>2. /\ DOMAIN venue' = DOMAIN venue /\ s.fills \in Seq(FillRecords)
      /\ \A id \in DOMAIN venue :
           /\ Continues(venue[id], venue'[id])
           /\ venue'[id].filled = venue[id].filled + FilledBy(s.fills, id)
      /\ \A id \in OrderIds \ DOMAIN venue : FilledBy(s.fills, id) = 0
      /\ ByWhole(venue, s)
  BY <1>1 DEF Matching, Immediate
<1>3. \A id \in DOMAIN venue :
        /\ id \in OrderIds /\ venue[id] \in OrderRecords /\ venue'[id] \in OrderRecords
        /\ Settles(id, venue[id])
  BY <1>2 DEF IInv, SharedOK, Books, Settled
<1>4. s.fills \in Seq(WholeFills)
  <2>1. ASSUME NEW n \in DOMAIN s.fills
        PROVE  s.fills[n] \in WholeFills
    <3> DEFINE f == s.fills[n]
               id == f.order
    <3>1. f \in FillRecords
      BY <1>2, ElementOfSeq, LenProperties
    <3>2. id \in DOMAIN venue /\ f.quantity = Remaining(venue[id])
      BY <1>2 DEF ByWhole
    <3>3. f.quantity > 0
      BY <3>1 DEF FillRecords
    <3> HIDE DEF f, id
    <3>4. /\ venue[id].quantity = Request[id].quantity /\ venue[id].filled \in Nat
          /\ Remaining(venue[id]) = venue[id].quantity - venue[id].filled
          /\ StatusAgreesWithFills(venue[id].status, venue[id].filled, venue[id].quantity)
          /\ venue[id].quantity \in Nat
      BY <1>3, <3>2, OrderFields DEF Settles
    <3>5. venue[id].filled = 0
      BY <1>3, <3>2, <3>3, <3>4 DEF Settles, StatusAgreesWithFills
    <3>6. f.quantity = Request[id].quantity
      BY <3>2, <3>4, <3>5
    <3> QED
      BY <3>1, <3>6 DEF WholeFills, f, id
  <2>2. DOMAIN s.fills = 1..Len(s.fills) /\ Len(s.fills) \in Nat
        /\ s.fills \in [1..Len(s.fills) -> FillRecords]
    BY <1>2, LenProperties
  <2>3. s.fills \in [1..Len(s.fills) -> WholeFills]
    BY <2>1, <2>2
  <2> QED
    BY <2>2, <2>3, SeqDef
<1>5. ASSUME NEW id \in OrderIds
      PROVE  \/ /\ FilledBy(s.fills, id) = 0
                /\ id \in DOMAIN venue => venue'[id] = venue[id]
             \/ /\ FilledBy(s.fills, id) = Request[id].quantity
                /\ id \in DOMAIN venue /\ venue[id].status = "acknowledged"
                /\ venue'[id].status = "filled" /\ Settles(id, venue'[id])
  <2> DEFINE o == venue[id]
             q == venue'[id]
             more == FilledBy(s.fills, id)
  <2>1. CASE id \notin DOMAIN venue
    BY <1>2, <2>1
  <2>2. CASE id \in DOMAIN venue
    <3>1. /\ o \in OrderRecords /\ q \in OrderRecords /\ Settles(id, o)
          /\ Continues(o, q) /\ q.filled = o.filled + more /\ more \in Nat
          /\ q.filled # o.filled => q.status = "filled"
      BY <1>1, <1>2, <1>3, <2>2, FilledByWeight DEF ByWhole
    <3> HIDE DEF o, q, more
    <3>2. o.filled \in Nat /\ q.filled \in Nat /\ q.quantity \in Nat
          /\ StatusAgreesWithFills(q.status, q.filled, q.quantity)
      BY <3>1, OrderFields
    <3>3. CASE more = 0
      <4>1. q.filled = o.filled /\ ~ (q.filled > o.filled)
        BY <3>1, <3>2, <3>3
      <4>2. q = o
        BY <3>1, <4>1, SameOrder DEF Continues
      <4> QED
        BY <3>3, <4>2 DEF o, q, more
    <3>4. CASE more # 0
      <4>1. q.filled # o.filled
        BY <3>1, <3>2, <3>4
      <4>2. Rests(o) /\ q.status = "filled"
        BY <3>1, <4>1 DEF Continues
      <4>3. o.status = "acknowledged" /\ o.filled = 0
        BY <3>1, <4>2 DEF Rests, Settles
      <4>4. q.filled = q.quantity
        BY <3>2, <4>2 DEF StatusAgreesWithFills
      <4>5. q.price = Request[id].price /\ q.quantity = Request[id].quantity
        BY <3>1 DEF Continues, Settles
      <4>6. Settles(id, q)
        BY <4>2, <4>5 DEF Settles
      <4>7. more = Request[id].quantity
        BY <3>1, <4>3, <4>4, <4>5
      <4> QED
        BY <2>2, <4>2, <4>3, <4>6, <4>7 DEF o, q, more
    <3> QED
      BY <3>3, <3>4
  <2> QED
    BY <2>1, <2>2
<1> QED
  BY <1>1, <1>2, <1>4, <1>5

\* A call that ends or begins has no fills in hand.
Apart(t) ==
  /\ venue' = venue /\ pending' = pending /\ pc'[t] \in { "idle", "copy", "place" }
  /\ pc'[t] = "place" => job'[t].notional = Cost[job'[t].id]

LEMMA StepApart ==
  ASSUME IInv, AllPriced, NEW t \in Threads,
         Submit(t) \/ Finish(t) \/ StoreFails(t)
           \/ (ApplyToPortfolio(t) /\ ~ Affordable(cash, TheFill(t)))
  PROVE  Apart(t)
<1>1. pc \in [Threads -> Steps] /\ DOMAIN job = Threads
  BY DEF IInv, SharedOK
<1>2. CASE Submit(t)
  <2> DEFINE id == job[t].id
             facts == MarketOf(job[t])
  <2>1. /\ venue' = venue /\ pending' = pending /\ pc'[t] \in { "idle", "copy", "place" }
        /\ pc'[t] = "place" =>
             job'[t].id = id /\ job'[t].notional = Notional(IntentOf(id), facts)
    BY <1>1, <1>2 DEF Submit, AfterRefusal, Goto, engine
  <2>2. id \in OrderIds
    BY <1>2, JobOf DEF Submit, JobAt, Asked
  <2>3. Notional(IntentOf(id), facts) = Cost[id]
    BY <2>2 DEF Notional, PricedAt, IntentOf, Cost, AllPriced, NoPrice, NoPriceData
  <2> HIDE DEF id, facts
  <2> QED
    BY <2>1, <2>3 DEF Apart
<1>3. CASE Finish(t)
  BY <1>1, <1>3 DEF Apart, Finish, Goto, engine
<1>4. CASE StoreFails(t)
  BY <1>1, <1>4 DEF Apart, StoreFails, GiveUp, Goto, engine
<1>5. CASE ApplyToPortfolio(t) /\ ~ Affordable(cash, TheFill(t))
  BY <1>1, <1>5 DEF Apart, ApplyToPortfolio, GiveUp, Goto, engine
<1> QED
  BY <1>2, <1>3, <1>4, <1>5

LEMMA WaitingApart ==
  ASSUME Settled, NEW t \in Threads, Apart(t), NEW id \in OrderIds
  PROVE  /\ Waiting(t, id)' = FilledBy(pending, id)
         /\ Waiting(t, id)' # 0 => Waiting(t, id) # 0 /\ Waiting(t, id)' = Request[id].quantity
         /\ Unreleased(pc[t], job[t]) = << >> => Waiting(t, id)' = Waiting(t, id)
<1> DEFINE more == FilledBy(Unreleased(pc[t], job[t]), id)
           here == FilledBy(pending, id)
<1>1. Waiting(t, id)' = here + FilledBy(<< >>, id) /\ FilledBy(<< >>, id) = 0
  BY FilledByEmpty DEF Waiting, Unreleased, Apart
<1>2. Waiting(t, id) = here + more
  BY DEF Waiting
<1>3. Unreleased(pc[t], job[t]) \in Seq(WholeFills) \/ Unreleased(pc[t], job[t]) = << >>
  <2>1. pc[t] \in Carrying => job[t].todo \in Seq(WholeFills)
    BY DEF Settled, CallSettles
  <2>2. CASE job[t].todo = << >>
    BY <2>1, <2>2 DEF Unreleased, Carrying
  <2> QED
    BY <2>1, WholeParts DEF Unreleased, Carrying
<1>4. /\ here \in Nat /\ more \in Nat /\ Request[id].quantity \in Nat
      /\ here = 0 \/ here >= Request[id].quantity
      /\ Unreleased(pc[t], job[t]) = << >> => more = 0
  BY <1>3, WholeParts, WholeOrNone, FilledByEmpty, SentType DEF Settled
<1>5. Waiting(t, id) # 0 => Waiting(t, id) = Request[id].quantity
  BY DEF Settled, CallSettles
<1> HIDE DEF more, here
<1>6. Waiting(t, id)' = here
  BY <1>1, <1>4
<1> QED
  BY <1>2, <1>4, <1>5, <1>6 DEF here

\* Once its booking is released, nothing of the order waits.
LEMMA ReleasedWaits ==
  ASSUME IInv, Settled, NEW t \in Threads, ReleaseFilled(t), NEW id \in OrderIds
  PROVE  Waiting(t, id)' = IF id = Filling(t) THEN 0 ELSE Waiting(t, id)
<1> DEFINE todo == job[t].todo
<1>1. /\ pending' = pending /\ job' = job /\ pc[t] = "release" /\ pc'[t] = "save_seen"
  BY DEF ReleaseFilled, Goto, engine, meta, IInv, SharedOK
<1>2. /\ todo # << >> /\ todo \in Seq(FillRecords)
      /\ FilledBy(pending, Filling(t)) = 0 /\ FilledBy(Tail(todo), Filling(t)) = 0
  BY <1>1, FillingWaits, CarryingCall DEF Carrying
<1>3. /\ Waiting(t, id) = FilledBy(pending, id) + FilledBy(todo, id)
      /\ Waiting(t, id)' = FilledBy(pending, id) + FilledBy(Tail(todo), id)
  BY <1>1 DEF Waiting, Unreleased
<1>4. /\ FilledBy(todo, id) = Executes(Head(todo), id) + FilledBy(Tail(todo), id)
      /\ Tail(todo) \in Seq(FillRecords)
  BY <1>2, FilledByTail
<1>5. FilledBy(Tail(todo), id) \in Nat
  BY <1>4, FilledByWeight
<1>6. id # Filling(t) => Executes(Head(todo), id) = 0
  BY DEF Executes, Filling, TheFill
<1> HIDE DEF todo
<1> QED
  BY <1>2, <1>3, <1>4, <1>5, <1>6

LEMMA SettledInit ==
  ASSUME Init
  PROVE  Settled
<1>1. /\ DOMAIN venue = {} /\ DOMAIN db.orders = {} /\ pending = << >>
      /\ \A t \in Threads : pc[t] = "idle"
  BY DEF Init, NoOrders, IdleThreads
<1>2. \A t \in Threads : CallSettles(t)
  BY <1>1, FilledByEmpty
  DEF CallSettles, Waiting, Unreleased, Placing, Ordered, Draining, Carrying
<1> QED
  BY <1>1, <1>2, WholeParts DEF Settled

LEMMA SettledStep ==
  ASSUME CallsWait, OneThread, Immediate, AllPriced, IInv, IInv', Known, Settled, [Next]_vars
  PROVE  Settled'
<1>1. /\ pc \in [Threads -> Steps] /\ DOMAIN job = Threads
      /\ \A id \in DOMAIN venue : id \in OrderIds /\ Settles(id, venue[id])
      /\ \A id \in DOMAIN db.orders : id \in OrderIds /\ Settles(id, db.orders[id])
      /\ pending \in Seq(WholeFills)
  BY DEF IInv, SharedOK, Books, Settled
<1>2. \A id \in DOMAIN db'.orders : Settles(id, db'.orders[id])
  <2>1. CASE db'.orders = db.orders
    BY <1>1, <2>1
  <2>2. ASSUME NEW id \in DOMAIN venue, db'.orders = Put(db.orders, id, venue[id])
        PROVE  \A x \in DOMAIN db'.orders : Settles(x, db'.orders[x])
    BY <1>1, <2>2 DEF Put
  <2> QED
    BY <2>1, <2>2, OrdersWritten
<1>3. ASSUME DOMAIN venue' \subseteq DOMAIN db.orders, pending' = << >>,
             \A id \in DOMAIN venue' : venue'[id] = db.orders[id],
             \A t \in Threads : pc'[t] = "idle"
      PROVE  Settled'
  <2>1. \A t \in Threads : CallSettles(t)'
    BY <1>3, FilledByEmpty
    DEF CallSettles, Waiting, Unreleased, Placing, Ordered, Draining, Carrying
  <2> QED
    BY <1>1, <1>2, <1>3, <2>1, WholeParts DEF Settled
<1>4. CASE Crash
  BY <1>3, <1>4 DEF Crash, NoOrders, IdleThreads
<1>5. CASE BootSeed \/ BootLoad
  BY <1>3, <1>5 DEF BootSeed, BootLoad, engine, limbs, Known, Restoring
<1>6. CASE BootRestore
  <2>1. /\ \A id \in DOMAIN venue' : id \in DOMAIN db.orders /\ venue'[id] = db.orders[id]
        /\ pending' = << >> /\ \A t \in Threads : pc'[t] = "idle"
    BY <1>6 DEF BootRestore, Over, Restrict, Known, Restoring, limbs
  <2> QED
    BY <1>3, <2>1
<1>7. CASE UNCHANGED vars
  <2>1. ASSUME NEW t \in Threads
        PROVE  CallSettles(t)'
    <3>1. \A id \in OrderIds : Waiting(t, id)' = Waiting(t, id)
      BY <1>7 DEF Waiting, vars
    <3>2. CallSettles(t) /\ pc' = pc /\ job' = job /\ venue' = venue
      BY <1>7 DEF Settled, vars
    <3> QED
      BY <3>1, <3>2 DEF CallSettles
  <2> QED
    BY <1>1, <1>2, <1>7, <2>1 DEF Settled, vars
<1>8. ASSUME NEW t \in Threads, ThreadStep(t)
      PROVE  Settled'
  <2>1. Threads = {t} /\ CallSettles(t) /\ CallKnows(t)
    BY DEF OneThread, Settled, Known
  <2> SUFFICES /\ \A id \in DOMAIN venue' : Settles(id, venue'[id])
               /\ pending' \in Seq(WholeFills) /\ CallSettles(t)'
    BY <1>2, <2>1 DEF Settled
  <2>2. CASE GoesOn(t)
    <3>1. /\ pc'[t] \in Carrying => job'[t].todo \in Seq(WholeFills)
          /\ pc'[t] = "place" \/ Placing(pc'[t], job'[t]) =>
               job'[t].notional = Cost[job'[t].id]
          /\ Placing(pc'[t], job'[t]) =>
               /\ job'[t].id \in DOMAIN venue'
               /\ IsTerminal(job'[t].placed.status) => venue'[job'[t].id] = job'[t].placed
      BY <2>1, <2>2 DEF CallSettles, GoesOn
    <3>2. \A id \in OrderIds : Waiting(t, id)' # 0 =>
            /\ Waiting(t, id)' = Request[id].quantity
            /\ id \in DOMAIN venue' /\ venue'[id].status = "filled"
      BY <2>1, <2>2 DEF CallSettles, GoesOn
    <3> QED
      BY <1>1, <2>2, <3>1, <3>2 DEF GoesOn, CallSettles
  <2>3. CASE Apart(t)
    <3>1. /\ pc'[t] \notin Carrying /\ ~ Placing(pc'[t], job'[t])
          /\ venue' = venue /\ pending' = pending
          /\ pc'[t] = "place" => job'[t].notional = Cost[job'[t].id]
      BY <2>3 DEF Apart, Placing, Ordered, Draining, Carrying
    <3>2. \A id \in OrderIds : Waiting(t, id)' # 0 =>
            /\ Waiting(t, id)' = Request[id].quantity
            /\ id \in DOMAIN venue' /\ venue'[id].status = "filled"
      BY <2>1, <2>3, <3>1, WaitingApart DEF CallSettles
    <3> QED
      BY <1>1, <3>1, <3>2 DEF CallSettles
  <2>4. CASE Place(t)
    <3> DEFINE me == job[t].id
    <3>1. /\ me \in OrderIds \ DOMAIN venue /\ Waiting(t, me) = 0
          /\ pc[t] = "place" /\ pc'[t] = "upsert"
      BY <2>4, PlaceSettles
    <3>2. PICK o \in OrderRecords, fills \in Seq(WholeFills) :
            /\ venue' = Put(venue, me, o) /\ pending' = pending \o fills
            /\ job'[t] = [ kind |-> job[t].kind, id |-> me, notional |-> job[t].notional,
                           placed |-> o ]
            /\ Settles(me, o)
            /\ \A id \in OrderIds :
                 FilledBy(fills, id) = IF id = me /\ o.status = "filled"
                                         THEN Request[id].quantity ELSE 0
      BY <2>4, PlaceSettles
    <3> HIDE DEF me
    <3>3. /\ me \in DOMAIN venue' /\ venue'[me] = o
          /\ \A id \in DOMAIN venue : id \in DOMAIN venue' /\ id # me => venue'[id] = venue[id]
          /\ DOMAIN venue' = DOMAIN venue \cup {me}
      BY <3>1, <3>2 DEF Put
    <3>4. \A id \in DOMAIN venue' : Settles(id, venue'[id])
      BY <1>1, <3>2, <3>3 DEF Put
    <3>5. pending' \in Seq(WholeFills)
      BY <1>1, <3>2, WholeParts
    <3>6. \A id \in OrderIds : Waiting(t, id)' = Waiting(t, id) + FilledBy(fills, id)
      <4>1. ASSUME NEW id \in OrderIds
            PROVE  /\ FilledBy(pending \o fills, id) = FilledBy(pending, id) + FilledBy(fills, id)
                   /\ FilledBy(pending, id) \in Nat /\ FilledBy(fills, id) \in Nat
        BY <1>1, WholeParts, FilledByJoined, FilledByWeight
      <4>2. \A id : FilledBy(<< >>, id) = 0
        BY FilledByEmpty
      <4> QED
        BY <3>1, <3>2, <4>1, <4>2 DEF Waiting, Unreleased
    <3>7. \A id \in OrderIds : Waiting(t, id)' # 0 =>
            /\ Waiting(t, id)' = Request[id].quantity
            /\ id \in DOMAIN venue' /\ venue'[id].status = "filled"
      <4>1. ASSUME NEW id \in OrderIds, Waiting(t, id)' # 0
            PROVE  /\ Waiting(t, id)' = Request[id].quantity
                   /\ id \in DOMAIN venue' /\ venue'[id].status = "filled"
        <5>1. CASE id = me
          <6>1. Waiting(t, id)' = FilledBy(fills, id) /\ Request[id].quantity \in Nat
            BY <3>1, <3>2, <3>6, <5>1, SentType
          <6> QED
            BY <3>2, <3>3, <4>1, <5>1, <6>1
        <5>2. CASE id # me
          <6>1. FilledBy(fills, id) = 0
            BY <3>2, <5>2
          <6>2. Waiting(t, id) # 0 => Waiting(t, id) = Request[id].quantity
            BY <2>1 DEF CallSettles
          <6>3. Waiting(t, id)' = Waiting(t, id)
            <7>1. Waiting(t, id) \in Nat
              BY <1>1, <3>1, WholeParts, FilledByWeight, FilledByEmpty DEF Waiting, Unreleased
            <7> QED
              BY <3>6, <6>1, <7>1
          <6> QED
            BY <2>1, <3>3, <4>1, <5>2, <6>3 DEF CallSettles
        <5> QED
          BY <5>1, <5>2
      <4> QED
        BY <4>1
    <3>8. /\ pc'[t] \notin Carrying /\ pc'[t] # "place"
          /\ job'[t].notional = Cost[job'[t].id]
          /\ job'[t].id = me /\ job'[t].placed = o
      BY <2>1, <3>1, <3>2 DEF CallSettles, Carrying, me
    <3> QED
      BY <3>3, <3>4, <3>5, <3>7, <3>8 DEF CallSettles
  <2>5. CASE TickEngine(t)
    <3>1. /\ pc[t] = "match" /\ pc'[t] = "drain" /\ job' = job /\ job[t].kind = "tick"
      BY <1>1, <2>5, TickMatched DEF TickEngine, Goto
    <3>2. PICK fills \in Seq(WholeFills) :
           /\ pending' = pending \o fills /\ DOMAIN venue' = DOMAIN venue
           /\ \A id \in OrderIds :
                \/ /\ FilledBy(fills, id) = 0
                   /\ id \in DOMAIN venue => venue'[id] = venue[id]
                \/ /\ FilledBy(fills, id) = Request[id].quantity
                   /\ id \in DOMAIN venue /\ venue[id].status = "acknowledged"
                   /\ venue'[id].status = "filled" /\ Settles(id, venue'[id])
      BY <2>5, TickSettles
    <3>3. \A id \in DOMAIN venue' : Settles(id, venue'[id])
      BY <1>1, <3>2
    <3>4. pending' \in Seq(WholeFills)
      BY <1>1, <3>2, WholeParts
    <3>5. ASSUME NEW id \in OrderIds, Waiting(t, id)' # 0
          PROVE  /\ Waiting(t, id)' = Request[id].quantity
                 /\ id \in DOMAIN venue' /\ venue'[id].status = "filled"
      <4>1. /\ Waiting(t, id)' = Waiting(t, id) + FilledBy(fills, id)
            /\ Waiting(t, id) \in Nat /\ FilledBy(fills, id) \in Nat
        <5>1. /\ FilledBy(pending \o fills, id) = FilledBy(pending, id) + FilledBy(fills, id)
              /\ FilledBy(pending, id) \in Nat /\ FilledBy(fills, id) \in Nat
              /\ FilledBy(<< >>, id) = 0
          BY <1>1, WholeParts, FilledByJoined, FilledByWeight, FilledByEmpty
        <5> QED
          BY <3>1, <3>2, <5>1 DEF Waiting, Unreleased
      <4>2. /\ Waiting(t, id) # 0 =>
                 /\ Waiting(t, id) = Request[id].quantity
                 /\ id \in DOMAIN venue /\ venue[id].status = "filled"
            /\ Request[id].quantity \in Nat
        BY <2>1, SentType DEF CallSettles
      <4>3. CASE FilledBy(fills, id) = 0
        <5>1. Waiting(t, id)' = Waiting(t, id)
          BY <4>1, <4>3
        <5>2. id \in DOMAIN venue /\ Request[id].quantity > 0
          BY <3>5, <4>2, <5>1, SentType, OrderFields
        <5> QED
          BY <3>2, <3>5, <4>2, <4>3, <5>1, <5>2
      <4>4. CASE FilledBy(fills, id) # 0
        <5>1. /\ FilledBy(fills, id) = Request[id].quantity
              /\ id \in DOMAIN venue /\ venue[id].status = "acknowledged"
              /\ venue'[id].status = "filled"
          BY <3>2, <4>4
        <5>2. Waiting(t, id) = 0
          BY <4>2, <5>1
        <5> QED
          BY <3>2, <4>1, <5>1, <5>2
      <4> QED
        BY <4>3, <4>4
    <3> QED
      BY <3>1, <3>3, <3>4, <3>5 DEF CallSettles, Placing, Carrying
  <2>6. CASE ReleaseFilled(t)
    <3>1. /\ venue' = venue /\ pending' = pending /\ job' = job
          /\ pc[t] = "release" /\ pc'[t] = "save_seen"
      BY <1>1, <2>6 DEF ReleaseFilled, Goto, engine, meta
    <3>2. ASSUME NEW id \in OrderIds
          PROVE  Waiting(t, id)' = Waiting(t, id) \/ Waiting(t, id)' = 0
      BY <2>6, ReleasedWaits
    <3> QED
      BY <1>1, <2>1, <3>1, <3>2 DEF CallSettles, Placing, Ordered, Draining, Carrying
  <2> QED
    BY <1>8, <2>2, <2>3, <2>4, <2>5, <2>6, StepGoesOn, StepApart
<1> QED
  BY <1>4, <1>5, <1>6, <1>7, <1>8 DEF Next, ThreadStep, Boot

\* An order is booked on account of the call.
Holds(t, id) ==
  id \in LiveOrders \/ Waiting(t, id) # 0 \/ Answers(pc[t], job[t], id)

LEMMA HeldByOne ==
  ASSUME OneThread, NEW t \in Threads
  PROVE  /\ Held = { id \in OrderIds : Holds(t, id) }
         /\ Held' = { id \in OrderIds : Holds(t, id)' }
<1>1. Threads = {t}
  BY DEF OneThread
<1> QED
  BY <1>1 DEF Held, Holds

LEMMA GoesOnHolds ==
  ASSUME NEW t \in Threads, GoesOn(t), NEW id \in OrderIds
  PROVE  Holds(t, id)' <=> Holds(t, id)
<1>1. LiveOrders' = LiveOrders /\ Waiting(t, id)' = Waiting(t, id)
  BY DEF GoesOn, LiveOrders
<1>2. Answers(pc'[t], job'[t], id) <=> Answers(pc[t], job[t], id)
  BY DEF GoesOn, Answers
<1> QED
  BY <1>1, <1>2 DEF Holds

\* The check books what is about to be placed.
LEMMA SubmitHolds ==
  ASSUME IInv, AllPriced, Known, Settled, NEW t \in Threads, Submit(t), NEW id \in OrderIds
  PROVE  /\ Holds(t, id)' <=> Holds(t, id) \/ (pc'[t] = "place" /\ id = job[t].id)
         /\ id = job[t].id => ~ Holds(t, id)
<1>1. /\ pc \in [Threads -> Steps] /\ DOMAIN job = Threads /\ CallKnows(t) /\ CallSettles(t)
  BY DEF IInv, SharedOK, Known, Settled
<1>2. /\ pc[t] = "check" /\ venue' = venue /\ pc'[t] \in { "idle", "copy", "place" }
      /\ pc'[t] = "place" => job'[t].id = job[t].id
  BY <1>1 DEF Submit, AfterRefusal, Goto, engine
<1>3. Waiting(t, id)' = Waiting(t, id)
  <2>1. Apart(t) /\ Unreleased(pc[t], job[t]) = << >>
    BY <1>2, StepApart DEF Unreleased
  <2> QED
    BY <2>1, WaitingApart
<1>4. /\ ~ Answers(pc[t], job[t], id)
      /\ Answers(pc'[t], job'[t], id) <=> pc'[t] = "place" /\ id = job[t].id
  BY <1>2 DEF Answers, Placing, Ordered, Draining, Carrying
<1>5. id = job[t].id => id \notin DOMAIN venue
  BY <1>1, <1>2 DEF CallKnows, Asking
<1>6. Waiting(t, id) # 0 => id \in DOMAIN venue
  BY <1>1 DEF CallSettles
<1>7. LiveOrders' = LiveOrders /\ (id \in LiveOrders => id \in DOMAIN venue)
  BY <1>2 DEF LiveOrders
<1> QED
  BY <1>3, <1>4, <1>5, <1>6, <1>7 DEF Holds

\* Whatever becomes of a placed order, it stays booked.
LEMMA PlaceHolds ==
  ASSUME Immediate, IInv, Known, Settled, NEW t \in Threads, Place(t), OneThread,
         NEW id \in OrderIds
  PROVE  Holds(t, id)' <=> Holds(t, id)
<1> DEFINE me == job[t].id
<1>1. /\ me \in OrderIds \ DOMAIN venue /\ Waiting(t, me) = 0
      /\ pc[t] = "place" /\ pc'[t] = "upsert" /\ job[t].kind # "tick"
  BY PlaceSettles
<1>2. PICK o \in OrderRecords, fills \in Seq(WholeFills) :
        /\ venue' = Put(venue, me, o) /\ pending' = pending \o fills
        /\ job'[t] = [ kind |-> job[t].kind, id |-> me, notional |-> job[t].notional,
                       placed |-> o ]
        /\ Settles(me, o)
        /\ \A x \in OrderIds :
             FilledBy(fills, x) = IF x = me /\ o.status = "filled"
                                    THEN Request[x].quantity ELSE 0
  BY PlaceSettles
<1>3. /\ Waiting(t, id)' = Waiting(t, id) + FilledBy(fills, id)
      /\ Waiting(t, id) \in Nat
  <2>1. /\ FilledBy(pending \o fills, id) = FilledBy(pending, id) + FilledBy(fills, id)
        /\ FilledBy(pending, id) \in Nat /\ FilledBy(fills, id) \in Nat
        /\ FilledBy(<< >>, id) = 0
    BY WholeParts, FilledByJoined, FilledByWeight, FilledByEmpty DEF Settled
  <2> HIDE DEF me
  <2> QED
    BY <1>1, <1>2, <2>1 DEF Waiting, Unreleased
<1>4. /\ Answers(pc[t], job[t], id) <=> id = me
      /\ Answers(pc'[t], job'[t], id) <=> id = me /\ Refused(o)
  BY <1>1, <1>2 DEF Answers, Placing, Ordered, Draining, Carrying
<1> HIDE DEF me
<1>5. id \in LiveOrders' <=> IF id = me THEN ~ IsTerminal(o.status) ELSE id \in LiveOrders
  BY <1>1, <1>2 DEF LiveOrders, Put
<1>6. CASE id = me
  <2>1. CASE o.status = "filled"
    BY <1>1, <1>2, <1>3, <1>4, <1>6, <2>1, SentType, OrderFields DEF Holds
  <2>2. CASE o.status # "filled"
    <3>1. o.filled = 0
      BY <1>2, <2>2 DEF Settles
    <3> QED
      BY <1>4, <1>5, <1>6, <3>1 DEF Holds, Refused
  <2> QED
    BY <2>1, <2>2
<1>7. CASE id # me
  <2>1. Waiting(t, id)' = Waiting(t, id)
    BY <1>2, <1>3, <1>7
  <2> QED
    BY <1>4, <1>5, <1>7, <2>1 DEF Holds
<1> QED
  BY <1>6, <1>7

\* An order the tick fills waits for its release.
LEMMA TickHolds ==
  ASSUME Immediate, IInv, IInv', Settled, NEW t \in Threads, TickEngine(t), NEW id \in OrderIds
  PROVE  Holds(t, id)' <=> Holds(t, id)
<1>1. /\ pc \in [Threads -> Steps] /\ DOMAIN job = Threads /\ CallSettles(t)
  BY DEF IInv, SharedOK, Settled
<1>2. /\ pc[t] = "match" /\ pc'[t] = "drain" /\ job' = job /\ job[t].kind = "tick"
  BY <1>1, TickMatched DEF TickEngine, Goto
<1>3. PICK fills \in Seq(WholeFills) :
        /\ pending' = pending \o fills /\ DOMAIN venue' = DOMAIN venue
        /\ \A x \in OrderIds :
             \/ /\ FilledBy(fills, x) = 0
                /\ x \in DOMAIN venue => venue'[x] = venue[x]
             \/ /\ FilledBy(fills, x) = Request[x].quantity
                /\ x \in DOMAIN venue /\ venue[x].status = "acknowledged"
                /\ venue'[x].status = "filled" /\ Settles(x, venue'[x])
  BY TickSettles
<1>4. /\ Waiting(t, id)' = Waiting(t, id) + FilledBy(fills, id)
      /\ Waiting(t, id) \in Nat
  <2>1. /\ FilledBy(pending \o fills, id) = FilledBy(pending, id) + FilledBy(fills, id)
        /\ FilledBy(pending, id) \in Nat /\ FilledBy(fills, id) \in Nat
        /\ FilledBy(<< >>, id) = 0
    BY WholeParts, FilledByJoined, FilledByWeight, FilledByEmpty DEF Settled
  <2> QED
    BY <1>2, <1>3, <2>1 DEF Waiting, Unreleased
<1>5. ~ Answers(pc[t], job[t], id) /\ ~ Answers(pc'[t], job'[t], id)
  BY <1>2 DEF Answers, Placing
<1>6. CASE FilledBy(fills, id) = 0
  <2>1. Waiting(t, id)' = Waiting(t, id)
    BY <1>4, <1>6
  <2>2. Request[id].quantity # 0
    BY SentType, OrderFields
  <2>3. id \in LiveOrders' <=> id \in LiveOrders
    BY <1>3, <1>6, <2>2 DEF LiveOrders
  <2> QED
    BY <1>5, <2>1, <2>3 DEF Holds
<1>7. CASE FilledBy(fills, id) # 0
  <2>1. FilledBy(fills, id) = Request[id].quantity
        /\ id \in DOMAIN venue /\ venue[id].status = "acknowledged"
    BY <1>3, <1>7
  <2>2. id \in LiveOrders
    BY <2>1 DEF LiveOrders, IsTerminal
  <2>3. Waiting(t, id)' # 0
    BY <1>4, <2>1, SentType, OrderFields
  <2> QED
    BY <2>2, <2>3 DEF Holds
<1> QED
  BY <1>6, <1>7

\* A refused order has executed nothing, a filled one has.
LEMMA FilledExecutes ==
  ASSUME IInv, NEW id \in DOMAIN venue, venue[id].status = "filled"
  PROVE  ~ Refused(venue[id]) /\ id \notin LiveOrders
<1>1. venue[id] \in OrderRecords
  BY DEF IInv, SharedOK, Books
<1>2. /\ venue[id].quantity \in Nat /\ venue[id].quantity > 0
      /\ StatusAgreesWithFills(venue[id].status, venue[id].filled, venue[id].quantity)
  BY <1>1, OrderFields
<1> QED
  BY <1>2 DEF StatusAgreesWithFills, Refused, LiveOrders, IsTerminal

\* The last fill of an order ends its booking.
LEMMA ReleaseHolds ==
  ASSUME IInv, Settled, NEW t \in Threads, ReleaseFilled(t), NEW id \in OrderIds
  PROVE  /\ Holds(t, id)' <=> Holds(t, id) /\ id # Filling(t)
         /\ id = Filling(t) => Holds(t, id)
<1>1. /\ venue' = venue /\ job' = job /\ pc[t] = "release" /\ pc'[t] = "save_seen"
      /\ CallSettles(t)
  BY DEF ReleaseFilled, Goto, engine, meta, IInv, SharedOK, Settled
<1>2. /\ Waiting(t, Filling(t)) # 0
      /\ Filling(t) \in DOMAIN venue /\ venue[Filling(t)].status = "filled"
  BY <1>1, FillingWaits DEF Carrying
<1>3. Waiting(t, id)' = IF id = Filling(t) THEN 0 ELSE Waiting(t, id)
  BY ReleasedWaits
<1>4. /\ LiveOrders' = LiveOrders
      /\ Answers(pc'[t], job'[t], id) <=> Answers(pc[t], job[t], id)
  BY <1>1 DEF LiveOrders, Answers, Placing, Ordered, Draining, Carrying
<1>5. Filling(t) \notin LiveOrders /\ ~ Refused(venue[Filling(t)])
  BY <1>2, FilledExecutes
<1>6. ~ Answers(pc[t], job[t], Filling(t))
  BY <1>1, <1>5 DEF Answers, CallSettles, Refused
<1> QED
  BY <1>2, <1>3, <1>4, <1>5, <1>6 DEF Holds

\* The end of the call releases the order that was refused.
LEMMA FinishHolds ==
  ASSUME IInv, AllPriced, Settled, NEW t \in Threads, Finish(t), NEW id \in OrderIds
  PROVE  /\ Holds(t, id)' <=> Holds(t, id) /\ ~ (id = job[t].id /\ Refused(job[t].placed))
         /\ id = job[t].id /\ Refused(job[t].placed) => Holds(t, id)
<1>1. /\ pc[t] = "finish" /\ pc'[t] = "copy" /\ venue' = venue /\ CallSettles(t)
  BY DEF Finish, Goto, engine, IInv, SharedOK, Settled
<1>2. Placing(pc[t], job[t])
  BY <1>1, JobOf DEF JobAt, HasOrder, Asked, Placing, Ordered, Draining, Carrying
<1>3. Waiting(t, id)' = Waiting(t, id) /\ LiveOrders' = LiveOrders
  <2>1. Apart(t) /\ Unreleased(pc[t], job[t]) = << >>
    BY <1>1, StepApart DEF Unreleased
  <2> QED
    BY <1>1, <2>1, WaitingApart DEF LiveOrders
<1>4. /\ Answers(pc[t], job[t], id) <=> id = job[t].id /\ Refused(job[t].placed)
      /\ ~ Answers(pc'[t], job'[t], id)
  BY <1>1, <1>2 DEF Answers, Placing, Ordered, Draining, Carrying
<1>5. ASSUME id = job[t].id, Refused(job[t].placed)
      PROVE  id \notin LiveOrders /\ Waiting(t, id) = 0
  <2>1. id \in DOMAIN venue /\ venue[id] = job[t].placed
    BY <1>1, <1>2, <1>5 DEF CallSettles, Refused
  <2>2. venue[id].status # "filled" /\ id \notin LiveOrders
    BY <1>5, <2>1, FilledExecutes DEF Refused, LiveOrders
  <2> QED
    BY <1>1, <2>2 DEF CallSettles
<1> QED
  BY <1>3, <1>4, <1>5 DEF Holds

\* A risk engine that has just started has booked nothing.
LEMMA FreshBooks == BookedOnly(FreshRisk, {}) /\ BookedAll(FreshRisk, {})
<1>1. SumFunctionOnSet(Cost, {}) = 0
  BY FS_EmptySet, SumChosen
<1>2. Cardinality({}) = 0
  BY FS_EmptySet
<1>3. FreshRisk.by_account["paper_acc"] = 0 /\ FreshRisk.active["oneshot"] = 0
  BY RuntimeAssumption DEF FreshRisk
<1> QED
  BY <1>1, <1>2, <1>3 DEF BookedOnly, BookedAll

LEMMA HeldInit ==
  ASSUME Init
  PROVE  HeldBooked
<1>1. /\ DOMAIN venue = {} /\ pending = << >> /\ risk = FreshRisk
      /\ \A t \in Threads : pc[t] = "idle"
  BY DEF Init, NoOrders, IdleThreads
<1>2. Held = {}
  BY <1>1, FilledByEmpty
  DEF Held, LiveOrders, Waiting, Unreleased, Answers, Placing, Ordered, Draining, Carrying
<1> QED
  BY <1>1, <1>2, FreshBooks DEF HeldBooked

LEMMA HeldStep ==
  ASSUME CallsWait, OneThread, Immediate, AllPriced, IInv, IInv', Known, Settled, HeldBooked,
         [Next]_vars
  PROVE  HeldBooked'
<1>1. /\ pc \in [Threads -> Steps] /\ DOMAIN job = Threads
      /\ RiskOK(risk) /\ RiskOK(risk') /\ Held \in SUBSET OrderIds
  BY DEF IInv, SharedOK, Held
<1>2. ASSUME Held' = Held, risk'.by_account = risk.by_account, risk'.active = risk.active,
             NoError' => NoError
      PROVE  HeldBooked'
  BY <1>2 DEF HeldBooked, BookedAll, BookedOnly
<1>3. ASSUME DOMAIN venue' = {}, pending' = << >>, \A t \in Threads : pc'[t] = "idle"
      PROVE  Held' = {}
  BY <1>3, FilledByEmpty
  DEF Held, LiveOrders, Waiting, Unreleased, Answers, Placing, Ordered, Draining, Carrying
<1>4. CASE Crash
  <2>1. Held' = {} /\ risk' = FreshRisk
    BY <1>3, <1>4 DEF Crash, NoOrders, IdleThreads
  <2> QED
    BY <2>1, FreshBooks DEF HeldBooked
<1>5. ASSUME boot.step # "done"
      PROVE  Held = {}
  BY <1>5, FilledByEmpty
  DEF Known, Restoring, Held, LiveOrders, Waiting, Unreleased, Answers, Placing, Ordered,
      Draining, Carrying
<1>6. CASE BootSeed \/ BootLoad
  <2>1. /\ boot.step # "done" /\ venue' = venue /\ pending' = pending /\ pc' = pc
        /\ risk' = risk /\ NoError' = NoError
    BY <1>6 DEF BootSeed, BootLoad, engine, limbs, errors, NoError
  <2>2. Held' = {} /\ Held = {}
    BY <1>3, <1>5, <2>1 DEF Known, Restoring
  <2> QED
    BY <1>2, <2>1, <2>2
<1>7. CASE BootRestore
  <2> DEFINE loaded == boot.loaded
             active == { id \in DOMAIN loaded : IsActive(loaded[id].status) }
  <2>1. /\ Held = {} /\ NoError' = NoError
        /\ DOMAIN venue = {} /\ pending = << >> /\ \A t \in Threads : pc[t] = "idle"
        /\ \A id \in DOMAIN loaded : id \in DOMAIN db.orders /\ loaded[id] = db.orders[id]
    BY <1>5, <1>7 DEF BootRestore, Known, Restoring, errors, NoError
  <2>2. active \in SUBSET OrderIds
    BY DEF IInv, SharedOK, Books
  <2>3. Held' = active
    <3>1. /\ venue' = Over(Restrict(loaded, active), venue)
          /\ pending' = << >> /\ \A t \in Threads : pc'[t] = "idle"
      BY <1>7, <2>1 DEF BootRestore, limbs
    <3>2. LiveOrders' = active
      BY <2>1, <3>1 DEF LiveOrders, Over, Restrict, IsActive, IsTerminal
    <3>3. Held' = { id \in OrderIds : id \in LiveOrders' }
      BY <3>1, FilledByEmpty
      DEF Held, Waiting, Unreleased, Answers, Placing, Ordered, Draining, Carrying
    <3> HIDE DEF active
    <3> QED
      BY <2>2, <3>2, <3>3
  <2>4. \A id \in active : OrderNotional(loaded[id], RefPrice) = Cost[id]
    <3>1. \A id \in active : id \in OrderIds /\ Settles(id, loaded[id])
      BY <2>1, <2>2 DEF Settled
    <3> QED
      BY <3>1 DEF OrderNotional, Settles, Cost, AllPriced
  <2>5. risk' = Rebooked(risk, loaded, SetToSeq(active))
    BY <1>7 DEF BootRestore, Rebooked
  <2> HIDE DEF active, loaded
  <2>6. /\ BookedAll(risk, {}) => BookedAll(risk', active)
        /\ BookedOnly(risk, {}) => BookedOnly(risk', active)
    BY <1>1, <2>2, <2>4, <2>5, RebookedHolds
  <2> QED
    BY <2>1, <2>3, <2>6 DEF HeldBooked
<1>8. CASE UNCHANGED vars
  <2>1. /\ LiveOrders' = LiveOrders /\ pc' = pc /\ job' = job
        /\ \A t, id : Waiting(t, id)' = Waiting(t, id)
    BY <1>8 DEF vars, LiveOrders, Waiting
  <2>2. Held' = Held
    BY <2>1 DEF Held
  <2> QED
    BY <1>2, <1>8, <2>2 DEF vars, NoError
<1>9. ASSUME NEW t \in Threads, ThreadStep(t)
      PROVE  HeldBooked'
  <2>1. /\ Held = { id \in OrderIds : Holds(t, id) }
        /\ Held' = { id \in OrderIds : Holds(t, id)' }
    BY HeldByOne
  <2> SUFFICES ASSUME ~ Crash
               PROVE  HeldBooked'
    BY <1>4
  <2>2. NoError' =>
          /\ NoError /\ ~ StoreFails(t)
          /\ ApplyToPortfolio(t) => Affordable(cash, TheFill(t))
    BY NoErrorBefore
  <2>3. CASE GoesOn(t)
    <3>1. Held' = Held
      BY <2>1, <2>3, GoesOnHolds
    <3> QED
      BY <1>2, <2>2, <2>3, <3>1 DEF GoesOn
  <2>4. CASE Submit(t)
    <3> DEFINE me == job[t].id
               asked == IntentOf(me)
               facts == MarketOf(job[t])
    <3>1. me \in OrderIds
      BY <2>4, JobOf DEF Submit, JobAt, Asked
    <3>2. \A id \in OrderIds :
            /\ Holds(t, id)' <=> Holds(t, id) \/ (pc'[t] = "place" /\ id = me)
            /\ id = me => ~ Holds(t, id)
      BY <2>4, SubmitHolds
    <3>3. CASE Approves(Informed(risk), asked, facts, 0)
      <4>1. pc'[t] = "place" /\ risk' = AfterApproval(Informed(risk), asked, facts, 0)
        BY <1>1, <2>4, <3>3 DEF Submit, AfterCheck, Goto
      <4>2. Notional(asked, facts) = Cost[me] /\ Cost[me] \in Int
        <5>1. Cost[me] \in Int
          BY <3>1, CostType
        <5> QED
          BY <3>1, <5>1
          DEF Notional, PricedAt, IntentOf, Cost, AllPriced, NoPrice, NoPriceData
      <4>3. asked.strategy = "oneshot" /\ asked.account = "paper_acc"
        BY DEF IntentOf
      <4> HIDE DEF asked, facts, me
      <4>4. /\ risk'.by_account["paper_acc"] = risk.by_account["paper_acc"] + Cost[me]
            /\ risk'.active["oneshot"] = risk.active["oneshot"] + 1
        BY <1>1, <4>1, <4>2, <4>3, RuntimeAssumption
        DEF AfterApproval, Booked, Informed, AfterFacts, RiskOK
      <4>5. Held' = Held \cup {me} /\ me \in OrderIds \ Held
        BY <2>1, <3>1, <3>2, <4>1
      <4>6. /\ BookedAll(risk, Held) => BookedAll(risk', Held')
            /\ BookedOnly(risk, Held) => BookedOnly(risk', Held')
        BY <1>1, <4>4, <4>5, OneBooked
      <4> QED
        BY <2>2, <4>6 DEF HeldBooked
    <3>4. CASE ~ Approves(Informed(risk), asked, facts, 0)
      <4>1. /\ pc'[t] # "place"
            /\ risk' = AfterRejection(Informed(risk), asked, facts, 0)
        BY <1>1, <2>4, <3>4 DEF Submit, AfterCheck, AfterRefusal, Goto
      <4>2. risk'.by_account = risk.by_account /\ risk'.active = risk.active
        BY <1>1, <4>1 DEF AfterRejection, Informed, AfterFacts, RiskOK
      <4>3. Held' = Held
        BY <2>1, <3>2, <4>1
      <4> QED
        BY <1>2, <2>2, <4>2, <4>3
    <3> QED
      BY <3>3, <3>4
  <2>5. CASE Place(t)
    <3>1. Held' = Held
      BY <2>1, <2>5, PlaceHolds
    <3>2. risk' = risk
      BY <2>5 DEF Place
    <3> QED
      BY <1>2, <2>2, <3>1, <3>2
  <2>6. CASE TickEngine(t)
    <3>1. Held' = Held
      BY <2>1, <2>6, TickHolds
    <3>2. risk' = risk
      BY <2>6 DEF TickEngine
    <3> QED
      BY <1>2, <2>2, <3>1, <3>2
  <2>7. ASSUME NEW id \in OrderIds, Held' = Held \ {id}, id \in Held,
               risk' = Release(risk, Cost[id])
        PROVE  HeldBooked'
    <3>1. /\ BookedAll(risk, Held) => BookedAll(risk', Held')
          /\ BookedOnly(risk, Held) => BookedOnly(risk', Held')
      BY <1>1, <2>7, OneReleased
    <3> QED
      BY <2>2, <3>1 DEF HeldBooked
  <2>8. CASE ReleaseFilled(t)
    <3> DEFINE id == Filling(t)
    <3>1. /\ pc[t] = "release" /\ id \in OrderIds
          /\ id \in DOMAIN venue /\ venue[id].status = "filled"
      BY <2>8, FillingWaits DEF ReleaseFilled, Carrying
    <3>2. job[t].seen = venue[id] /\ Settles(id, venue[id])
      BY <3>1 DEF Known, CallKnows, Settled
    <3> HIDE DEF id
    <3>3. OrderNotional(job[t].seen, TheFill(t).price) = Cost[id]
      BY <3>1, <3>2 DEF OrderNotional, Settles, Cost, AllPriced
    <3>4. risk' = Release(risk, Cost[id])
      BY <2>8, <3>1, <3>2, <3>3 DEF ReleaseFilled, IsTerminal
    <3>5. Held' = Held \ {id} /\ id \in Held
      BY <2>1, <2>8, <3>1, ReleaseHolds DEF id
    <3> QED
      BY <2>7, <3>1, <3>4, <3>5
  <2>9. CASE Finish(t)
    <3> DEFINE id == job[t].id
    <3>1. /\ pc[t] = "finish"
          /\ risk' = IF Refused(job[t].placed) THEN Release(risk, job[t].notional) ELSE risk
      BY <2>9 DEF Finish, Refused
    <3>2. id \in OrderIds /\ Placing(pc[t], job[t])
      BY <3>1, JobOf DEF JobAt, HasOrder, Asked, Placing, Ordered, Draining, Carrying
    <3>3. job[t].notional = Cost[id]
      BY <3>2 DEF Settled, CallSettles
    <3>4. \A x \in OrderIds :
            /\ Holds(t, x)' <=> Holds(t, x) /\ ~ (x = id /\ Refused(job[t].placed))
            /\ x = id /\ Refused(job[t].placed) => Holds(t, x)
      BY <2>9, FinishHolds
    <3> HIDE DEF id
    <3>5. CASE Refused(job[t].placed)
      <4>1. Held' = Held \ {id} /\ id \in Held
        BY <2>1, <3>2, <3>4, <3>5
      <4> QED
        BY <2>7, <3>1, <3>2, <3>3, <3>5, <4>1
    <3>6. CASE ~ Refused(job[t].placed)
      <4>1. Held' = Held /\ risk' = risk
        BY <2>1, <3>1, <3>4, <3>6
      <4> QED
        BY <1>2, <2>2, <4>1
    <3> QED
      BY <3>5, <3>6
  <2>10. CASE StoreFails(t) \/ (ApplyToPortfolio(t) /\ ~ Affordable(cash, TheFill(t)))
    <3>1. /\ Apart(t) /\ risk' = risk /\ pc'[t] # "place" /\ ~ NoError'
      <4>1. Apart(t)
        BY <2>10, StepApart
      <4>2. risk' = risk /\ pc'[t] # "place"
        BY <1>1, <2>10 DEF StoreFails, ApplyToPortfolio, GiveUp, Goto
      <4> QED
        BY <2>2, <2>10, <4>1, <4>2
    <3>2. Held' \in SUBSET Held
      <4>1. ASSUME NEW id \in OrderIds, Holds(t, id)'
            PROVE  Holds(t, id)
        <5>1. LiveOrders' = LiveOrders
          BY <3>1 DEF Apart, LiveOrders
        <5>2. ~ Answers(pc'[t], job'[t], id)
          BY <3>1 DEF Apart, Answers, Placing, Ordered, Draining, Carrying
        <5>3. Waiting(t, id)' # 0 => Waiting(t, id) # 0
          BY <3>1, WaitingApart
        <5> QED
          BY <4>1, <5>1, <5>2, <5>3 DEF Holds
      <4> QED
        BY <2>1, <4>1
    <3>3. BookedAll(risk, Held')
      BY <1>1, <3>2, FewerHeld DEF HeldBooked
    <3> QED
      BY <3>1, <3>3 DEF HeldBooked
  <2> QED
    BY <1>9, <2>3, <2>4, <2>5, <2>6, <2>8, <2>9, <2>10, StepGoesOn
<1> QED
  BY <1>4, <1>6, <1>7, <1>8, <1>9 DEF Next, ThreadStep, Boot

\* The bookings of the risk engine are the live orders' in the demo process: what
\* has ended and is not yet released, and what is approved and not yet placed, is
\* in the hands of a call or of its fill, and no call stands anywhere when all is
\* quiet.  A call that fails leaves a booking too many, never one too few.
THEOREM BookingsAlwaysMatchLiveOrders ==
  ASSUME CallsWait, OneThread, Immediate, AllPriced
  PROVE  Spec => []BookingsMatchLiveOrders
<1>1. Init => Known /\ Settled /\ HeldBooked
  BY KnownInit, SettledInit, HeldInit
<1>2. IInv /\ IInv' /\ Known /\ Settled /\ HeldBooked /\ [Next]_vars
        => Known' /\ Settled' /\ HeldBooked'
  BY KnownStep, SettledStep, HeldStep
<1>3. IInv /\ Settled /\ HeldBooked => BookingsMatchLiveOrders
  <2> SUFFICES ASSUME IInv, Settled, HeldBooked, Quiet
               PROVE  /\ risk.by_account["paper_acc"] >= LiveNotional
                      /\ risk.active["oneshot"] >= LiveCount
                      /\ NoError => /\ risk.by_account["paper_acc"] = LiveNotional
                                    /\ risk.active["oneshot"] = LiveCount
    BY DEF BookingsMatchLiveOrders
  <2>1. LiveOrders \in SUBSET OrderIds /\ LiveOrders \subseteq DOMAIN venue
    BY DEF IInv, SharedOK, Books, LiveOrders
  <2>2. Held = LiveOrders
    BY <2>1, FilledByEmpty
    DEF Quiet, Held, Waiting, Unreleased, Answers, Placing, Ordered, Draining, Carrying
  <2>3. LiveNotional = SumFunctionOnSet(Cost, LiveOrders)
    <3> DEFINE worth == [id \in DOMAIN venue |-> OrderNotional(venue[id], 0)]
    <3>1. \A id \in LiveOrders : Cost[id] \in Int /\ worth[id] = Cost[id]
      <4>1. \A id \in LiveOrders : Settles(id, venue[id])
        BY <2>1 DEF Settled
      <4>2. \A id \in LiveOrders : Cost[id] \in Int
        BY <2>1, CostType
      <4> QED
        BY <2>1, <4>1, <4>2 DEF OrderNotional, Settles, Cost, AllPriced
    <3> HIDE DEF worth
    <3>2. SumFunctionOnSet(worth, LiveOrders) = SumFunctionOnSet(Cost, LiveOrders)
      BY <2>1, <3>1, CostType, SumEqual
    <3> QED
      BY <3>2 DEF LiveNotional, worth
  <2> QED
    BY <2>2, <2>3 DEF HeldBooked, BookedAll, BookedOnly, LiveCount
<1> QED
  BY <1>1, <1>2, <1>3, InvariantHolds, PTL DEF Spec

=============================================================================
