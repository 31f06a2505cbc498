------------------------- MODULE PaperEngine_proofs -------------------------
(***************************************************************************)
(* Proofs about PaperEngine for all threads, instruments, requests, ticks  *)
(* and stored orders, and all three fill models.  What holds of one thread *)
(* only, or of one fill model, says so.                                    *)
(***************************************************************************)
EXTENDS PaperEngine, FoldTheorems, SequenceTheorems

(***************************************************************************)
(* The inductive invariant                                                 *)
(***************************************************************************)

Calls   == [id : OrderIds, order : Orders, top : Tops]
Ordered == { r.quantity : r \in Requests \cup Restorable }

\* What the threads share has its type, and published fills are of known orders.
SharedOK ==
  /\ Known \subseteq OrderIds
  /\ orders \in [Known -> Orders]
  /\ book \in [Instruments -> Tops]
  /\ holder \in Threads \cup {NoThread}
  /\ pending \in Seq(Fills)
  /\ delivered \in [OrderIds -> Nat]
  /\ pc \in [Threads -> { "idle", "read", "refuse", "take", "insert", "match",
                          "matching", "publish" }]
  /\ hand \in [Threads -> Seq(Fills)]
  /\ DOMAIN call = Threads /\ DOMAIN scan = Threads
  /\ \A n \in DOMAIN pending : pending[n].order \in Known

\* The order of a call at each of its steps.
CallOK(t) ==
  /\ Placing(t) => call[t] \in Calls /\ call[t].order.quantity \in Ordered
  /\ pc[t] \in { "read", "take" } => call[t].order.status = "submitted"
  /\ pc[t] = "take" => call[t].order.type \in { "limit", "market" }
  /\ pc[t] = "read" => call[t].order.type # "stop"
  /\ pc[t] = "refuse" =>
       call[t].order.status \in { "rejected", "acknowledged", "cancelled" }
  /\ pc[t] = "insert" => call[t].order.status \in Successors["submitted"]
  /\ pc[t] \in { "read", "take", "refuse" } => call[t].order.filled = 0

\* The orders a matching pass has still to visit rest in the book: it holds the
\* mutex, and nobody else touches them.
ScanOK(t) ==
  /\ pc[t] = "match" => scan[t].instrument \in Instruments
  /\ pc[t] = "matching" <=> holder = t
  /\ pc[t] = "matching" =>
       /\ scan[t] \in Scans
       /\ \A id \in scan[t].todo : id \in Known /\ Rests(orders[id])

\* Fills in hand are of orders the engine knows, or of the one the call is to
\* insert.
HandOK(t) ==
  /\ pc[t] \notin { "insert", "matching", "publish" } => hand[t] = << >>
  /\ \A n \in DOMAIN hand[t] :
       \/ hand[t][n].order \in Known
       \/ pc[t] = "insert" /\ hand[t][n].order = call[t].id

ThreadOK(t) == CallOK(t) /\ ScanOK(t) /\ HandOK(t)

\* The ids of the calls under way are new, and no two calls have the same.
FreshIds ==
  \A t \in Threads : Placing(t) =>
    /\ call[t].id \notin Known
    /\ \A u \in Threads : Placing(u) /\ call[u].id = call[t].id => u = t

CallsOK == SharedOK /\ FreshIds /\ \A t \in Threads : ThreadOK(t)

\* An order as place_order or a stored record puts it into the engine.
Accepted(o) == o.status \in Successors["submitted"] /\ o.quantity \in Ordered

\* What is stored was an order of this life or of an earlier one, and a call's id
\* is none of theirs: a restore never meets an order that is still being placed,
\* and it sets no order back twice.
BootOK ==
  /\ boot \in { "load", "restore", "done" }
  /\ DOMAIN stored \subseteq OrderIds /\ stored \in [DOMAIN stored -> Orders]
  /\ DOMAIN setback \subseteq Known
  /\ setback \in [DOMAIN setback -> [before : Orders, after : Orders]]
  /\ \A id \in DOMAIN stored : Accepted(stored[id])
  /\ \A id \in Known : Accepted(orders[id])
  /\ \A t \in Threads : Placing(t) => call[t].id \notin DOMAIN stored
  /\ boot = "load" => DOMAIN setback = {}
  /\ DOMAIN stored \cap DOMAIN setback = {}

IInv == CallsOK /\ BootOK

(***************************************************************************)
(* The matching arithmetic                                                 *)
(***************************************************************************)

\* A fill never passes what the order still wants nor, unless fills are
\* immediate, what the book displays.
LEMMA ClipQtyBounds ==
  ASSUME NEW r \in Nat, NEW a \in Nat
  PROVE  /\ ClipQty(r, a) \in 0..r
         /\ RespectsLiquidity => ClipQty(r, a) <= a
<1>1. Lesser(r, a) \in 0..r /\ Lesser(r, a) <= a
  BY DEF Lesser
<1>2. (a * QueueQuarters) \div 4 \in Nat /\ (a * QueueQuarters) \div 4 <= a
  <2>1. QueueQuarters = 1 \/ QueueQuarters = 2 \/ QueueQuarters = 3
    BY MatchingAssumption
  <2>2. /\ (a * 1) \div 4 \in Nat /\ (a * 1) \div 4 <= a
        /\ (a * 2) \div 4 \in Nat /\ (a * 2) \div 4 <= a
        /\ (a * 3) \div 4 \in Nat /\ (a * 3) \div 4 <= a
    OBVIOUS
  <2> QED
    BY <2>1, <2>2
<1> DEFINE share == (a * QueueQuarters) \div 4
<1> HIDE DEF share
<1>3. Lesser(r, share) \in 0..r /\ Lesser(r, share) <= a
  BY <1>2 DEF Lesser, share
<1>4. CASE FillModel = "immediate"
  BY <1>4 DEF ClipQty, RespectsLiquidity
<1>5. CASE FillModel = "l1"
  BY <1>1, <1>5 DEF ClipQty
<1>6. CASE FillModel = "queue"
  BY <1>3, <1>6 DEF ClipQty, share
<1> QED
  BY <1>4, <1>5, <1>6, MatchingAssumption

\* The fields of an order, and how its status and its fills agree.
LEMMA OrderFields ==
  ASSUME NEW o \in Orders
  PROVE  /\ o \in OrderSpecs
         /\ o.clid \in ClientOrderIds /\ o.instrument \in Instruments /\ o.side \in Sides
         /\ o.type \in OrderTypes /\ o.tif \in TimesInForce /\ o.price \in Nat
         /\ o.quantity \in Nat /\ o.quantity > 0
         /\ o.status \in OrderStatuses /\ o.filled \in Nat
         /\ StatusAgreesWithFills(o.status, o.filled, o.quantity)
         /\ Remaining(o) \in Nat
<1>1. o \in OrderSpecs /\ StatusAgreesWithFills(o.status, o.filled, o.quantity)
  BY DEF Orders
<1>2. /\ o.clid \in ClientOrderIds /\ o.instrument \in Instruments /\ o.side \in Sides
      /\ o.type \in OrderTypes /\ o.tif \in TimesInForce /\ o.price \in Nat
      /\ o.quantity \in Nat /\ o.quantity > 0
      /\ o.status \in OrderStatuses /\ o.filled \in Nat
  BY <1>1 DEF OrderSpecs
<1>3. Remaining(o) \in Nat
  BY <1>1, <1>2 DEF Remaining, StatusAgreesWithFills
<1> QED
  BY <1>1, <1>2, <1>3

LEMMA OppositeType ==
  ASSUME NEW top \in Tops, NEW side \in Sides
  PROVE  OppositePrice(side, top) \in Nat /\ OppositeQty(side, top) \in Nat
  BY DEF Tops, OppositePrice, OppositeQty

\* What an order takes from the book, or a resting one is given.
LEMMA TakeQtyBounds ==
  ASSUME NEW o \in Orders, NEW top \in Tops
  PROVE  TakeQty(o, top) \in 0..Remaining(o)
<1>1. Remaining(o) \in Nat /\ OppositeQty(o.side, top) \in Nat
  BY OrderFields, OppositeType
<1>2. ClipQty(Remaining(o), OppositeQty(o.side, top)) \in 0..Remaining(o)
  BY <1>1, ClipQtyBounds
<1>3. TakeQty(o, top) \in { 0, ClipQty(Remaining(o), OppositeQty(o.side, top)) }
  BY DEF TakeQty
<1> QED
  BY <1>1, <1>2, <1>3

LEMMA MatchQtyBounds ==
  ASSUME NEW o \in Orders, NEW top, NEW left \in [{ "buy", "sell" } -> Nat]
  PROVE  /\ MatchQty(o, top, left) \in 0..Remaining(o)
         /\ RespectsLiquidity => MatchQty(o, top, left) <= left[o.side]
<1>1. Remaining(o) \in Nat /\ left[o.side] \in Nat
  BY OrderFields DEF Sides
<1>2. /\ ClipQty(Remaining(o), left[o.side]) \in 0..Remaining(o)
      /\ RespectsLiquidity => ClipQty(Remaining(o), left[o.side]) <= left[o.side]
  BY <1>1, ClipQtyBounds
<1> QED
  BY <1>1, <1>2 DEF MatchQty

\* Where fills are immediate, an order is given all it asks for or nothing.
LEMMA WholeOrNothing ==
  ASSUME ~ RespectsLiquidity, NEW o, NEW top, NEW left
  PROVE  /\ TakeQty(o, top) \in { 0, Remaining(o) }
         /\ MatchQty(o, top, left) \in { 0, Remaining(o) }
  BY DEF RespectsLiquidity, TakeQty, MatchQty, ClipQty

LEMMA FillOfType ==
  ASSUME NEW id \in OrderIds, NEW o \in Orders, NEW top \in Tops,
         NEW qty \in Nat, qty > 0
  PROVE  \A maker \in BOOLEAN :
           /\ FillOf(id, o, ExecPrice(o, top), qty, maker) \in Fills
           /\ FillOf(id, o, ExecPrice(o, top), qty, maker).order = id
           /\ FillOf(id, o, ExecPrice(o, top), qty, maker).side = o.side
           /\ FillOf(id, o, ExecPrice(o, top), qty, maker).quantity = qty
<1>1. o.side \in Sides /\ o.price \in Nat /\ OppositePrice(o.side, top) \in Nat
  BY OrderFields, OppositeType
<1>2. ExecPrice(o, top) \in Nat
  BY <1>1 DEF ExecPrice
<1> QED
  BY <1>1, <1>2 DEF Fills, FillOf

\* A fill moves an order along the state machine, and status and fills agree.
LEMMA AfterFillKeeps ==
  ASSUME NEW o \in Orders,
         o.status \in { "submitted", "acknowledged", "partially_filled" },
         NEW qty \in 1..Remaining(o)
  PROVE  /\ AfterFill(o, qty) \in Orders
         /\ AfterFill(o, qty).clid = o.clid /\ AfterFill(o, qty).instrument = o.instrument
         /\ AfterFill(o, qty).side = o.side /\ AfterFill(o, qty).type = o.type
         /\ AfterFill(o, qty).tif = o.tif /\ AfterFill(o, qty).price = o.price
         /\ AfterFill(o, qty).quantity = o.quantity
         /\ AfterFill(o, qty).filled = o.filled + qty
         /\ AfterFill(o, qty).status \in { "filled", "partially_filled" }
         /\ AfterFill(o, qty).status = "filled" <=> o.filled + qty = o.quantity
<1> DEFINE to == IF o.filled + qty >= o.quantity THEN "filled" ELSE "partially_filled"
<1>1. /\ o \in OrderSpecs /\ o.quantity \in Nat /\ o.quantity > 0 /\ o.filled \in Nat
      /\ o.filled <= o.quantity /\ Remaining(o) = o.quantity - o.filled
  BY OrderFields DEF StatusAgreesWithFills, Remaining
<1>2. /\ qty \in Nat /\ qty > 0 /\ o.filled + qty \in Nat
      /\ o.filled + qty > 0 /\ o.filled + qty <= o.quantity
  BY <1>1
<1>3. StatusAfter(o.status, to) = to
  BY DEF StatusAfter, CanTransitionTo, Successors
<1>4. AfterFill(o, qty) = [o EXCEPT !.filled = o.filled + qty, !.status = to]
  BY <1>3 DEF AfterFill
<1>5. /\ to \in { "filled", "partially_filled" } /\ to \in OrderStatuses
      /\ to = "filled" <=> o.filled + qty = o.quantity
  BY <1>1, <1>2 DEF OrderStatuses
<1> HIDE DEF to
<1>6. /\ AfterFill(o, qty) \in OrderSpecs
      /\ AfterFill(o, qty).filled = o.filled + qty /\ AfterFill(o, qty).status = to
      /\ AfterFill(o, qty).clid = o.clid /\ AfterFill(o, qty).instrument = o.instrument
      /\ AfterFill(o, qty).side = o.side /\ AfterFill(o, qty).type = o.type
      /\ AfterFill(o, qty).tif = o.tif /\ AfterFill(o, qty).price = o.price
      /\ AfterFill(o, qty).quantity = o.quantity
  BY <1>1, <1>2, <1>4, <1>5 DEF OrderSpecs
<1>7. StatusAgreesWithFills(to, o.filled + qty, o.quantity)
  BY <1>1, <1>2, <1>5 DEF StatusAgreesWithFills
<1> QED
  BY <1>5, <1>6, <1>7 DEF Orders

\* An order of which nothing is filled may be refused, or accepted and left.
LEMMA UnfilledKeeps ==
  ASSUME NEW o \in OrderSpecs, o.filled = 0,
         NEW s \in { "submitted", "rejected", "acknowledged", "cancelled" }
  PROVE  /\ [o EXCEPT !.status = s] \in Orders
         /\ [o EXCEPT !.status = s].status = s /\ [o EXCEPT !.status = s].filled = 0
         /\ [o EXCEPT !.status = s].quantity = o.quantity
         /\ [o EXCEPT !.status = s].type = o.type /\ [o EXCEPT !.status = s].tif = o.tif
         /\ [o EXCEPT !.status = s].clid = o.clid
<1> DEFINE p == [o EXCEPT !.status = s]
<1>1. s \in OrderStatuses /\ s # "filled" /\ s # "partially_filled"
  BY DEF OrderStatuses
<1>2. /\ p \in OrderSpecs /\ p.status = s /\ p.filled = 0 /\ p.quantity = o.quantity
      /\ p.type = o.type /\ p.tif = o.tif /\ p.clid = o.clid
      /\ o.quantity \in Nat /\ o.quantity # 0
  BY <1>1 DEF OrderSpecs
<1> HIDE DEF p
<1>3. StatusAgreesWithFills(p.status, p.filled, p.quantity)
  BY <1>1, <1>2 DEF StatusAgreesWithFills
<1> QED
  BY <1>2, <1>3 DEF Orders, p

\* The order TakeNow leaves in the hands of its call, and what it has filled.
Taken(o, top) ==
  LET qty == TakeQty(o, top) IN IF qty > 0 THEN AfterFill(o, qty) ELSE o

LEMMA TakenKeeps ==
  ASSUME NEW o \in Orders, o.status = "submitted", o.filled = 0,
         o.type \in { "limit", "market" }, NEW top \in Tops
  PROVE  /\ Taken(o, top) \in Orders /\ Taken(o, top).filled = TakeQty(o, top)
         /\ Taken(o, top).clid = o.clid /\ Taken(o, top).quantity = o.quantity
         /\ Taken(o, top).type = o.type /\ Taken(o, top).tif = o.tif
         /\ \/ TakeQty(o, top) = 0 /\ Taken(o, top).status = "submitted"
            \/ TakeQty(o, top) > 0 /\ TakeQty(o, top) < o.quantity
               /\ Taken(o, top).status = "partially_filled"
            \/ TakeQty(o, top) = o.quantity /\ Taken(o, top).status = "filled"
<1> DEFINE qty == TakeQty(o, top)
<1>1. /\ qty \in 0..Remaining(o) /\ Remaining(o) = o.quantity
      /\ o.quantity \in Nat /\ o.quantity > 0
  BY TakeQtyBounds, OrderFields DEF Remaining
<1> HIDE DEF qty
<1>2. CASE qty > 0
  <2>1. qty \in 1..Remaining(o) /\ Taken(o, top) = AfterFill(o, qty)
    BY <1>1, <1>2 DEF Taken, qty
  <2>2. /\ AfterFill(o, qty) \in Orders /\ AfterFill(o, qty).filled = o.filled + qty
        /\ AfterFill(o, qty).clid = o.clid /\ AfterFill(o, qty).quantity = o.quantity
        /\ AfterFill(o, qty).type = o.type /\ AfterFill(o, qty).tif = o.tif
        /\ AfterFill(o, qty).status \in { "filled", "partially_filled" }
        /\ AfterFill(o, qty).status = "filled" <=> o.filled + qty = o.quantity
    BY <2>1, AfterFillKeeps
  <2> QED
    BY <1>1, <1>2, <2>1, <2>2 DEF qty
<1>3. CASE qty = 0
  BY <1>1, <1>3 DEF Taken, qty
<1> QED
  BY <1>1, <1>2, <1>3

\* The order as place_order inserts it.
Placed(o, top) == [Taken(o, top) EXCEPT !.status = PlacedStatus(Taken(o, top))]

\* place_order leaves a new order with a status the venue may answer with.
LEMMA PlacedKeeps ==
  ASSUME NEW o \in Orders, o.status = "submitted", o.filled = 0,
         o.type \in { "limit", "market" }, NEW top \in Tops,
         NEW p, p = Placed(o, top)
  PROVE  /\ p \in Orders /\ p.filled = TakeQty(o, top)
         /\ p.clid = o.clid /\ p.quantity = o.quantity
         /\ p.type = o.type /\ p.tif = o.tif
         /\ p.status \in Successors["submitted"]
         /\ o.tif = "ioc" => IsTerminal(p.status)
         /\ TakeQty(o, top) = o.quantity => p.status = "filled"
         /\ o.tif # "ioc" /\ o.type = "market" /\ TakeQty(o, top) = 0 =>
              p.status = "rejected"
<1> DEFINE a == Taken(o, top)
           q == TakeQty(o, top)
<1>1. /\ a \in Orders /\ a.filled = q /\ a.clid = o.clid
      /\ a.quantity = o.quantity /\ a.type = o.type /\ a.tif = o.tif
      /\ \/ q = 0 /\ a.status = "submitted"
         \/ q > 0 /\ q < o.quantity /\ a.status = "partially_filled"
         \/ q = o.quantity /\ a.status = "filled"
  BY TakenKeeps
<1>2. a \in OrderSpecs /\ o.quantity \in Nat /\ o.quantity > 0 /\ q \in 0..o.quantity
  BY <1>1, OrderFields, TakeQtyBounds DEF Remaining
<1> HIDE DEF a, q
<1> DEFINE s == PlacedStatus(a)
<1>3. \/ q = 0 /\ a.tif = "ioc" /\ s = "cancelled"
      \/ q = 0 /\ a.tif # "ioc" /\ a.type = "market" /\ s = "rejected"
      \/ q = 0 /\ a.tif # "ioc" /\ a.type # "market" /\ s = "acknowledged"
      \/ q > 0 /\ q < o.quantity /\ a.tif = "ioc" /\ s = "cancelled"
      \/ q > 0 /\ q < o.quantity /\ a.tif # "ioc" /\ s = "partially_filled"
      \/ q = o.quantity /\ s = "filled"
  <2>1. /\ StatusAfter("submitted", "cancelled") = "cancelled"
        /\ StatusAfter("partially_filled", "cancelled") = "cancelled"
    BY DEF StatusAfter, CanTransitionTo, Successors
  <2> QED
    BY <1>1, <1>2, <2>1 DEF PlacedStatus
<1> HIDE DEF s
<1>4. /\ s \in OrderStatuses /\ s \in Successors["submitted"]
      /\ StatusAgreesWithFills(s, q, o.quantity)
  <2>1. s \in { "cancelled", "rejected", "acknowledged", "partially_filled", "filled" }
    BY <1>3
  <2>2. s \in OrderStatuses /\ s \in Successors["submitted"]
    BY <2>1 DEF OrderStatuses, Successors
  <2>3. StatusAgreesWithFills(s, q, o.quantity)
    BY <1>2, <1>3 DEF StatusAgreesWithFills
  <2> QED
    BY <2>2, <2>3
<1>5. p = [a EXCEPT !.status = s]
  BY DEF a, s, Placed
<1>6. /\ p \in OrderSpecs /\ p.status = s /\ p.filled = q /\ p.clid = o.clid
      /\ p.quantity = o.quantity /\ p.type = o.type /\ p.tif = o.tif
  BY <1>1, <1>2, <1>4, <1>5 DEF OrderSpecs
<1>7. p \in Orders
  BY <1>4, <1>6 DEF Orders
<1>8. /\ o.tif = "ioc" => IsTerminal(s)
      /\ q = o.quantity => s = "filled"
      /\ o.tif # "ioc" /\ o.type = "market" /\ q = 0 => s = "rejected"
  BY <1>1, <1>2, <1>3 DEF IsTerminal
<1> QED
  BY <1>4, <1>6, <1>7, <1>8 DEF q

(***************************************************************************)
(* Steps of one thread                                                     *)
(***************************************************************************)

\* What a step of t, or of none of the threads, leaves to the others: where they
\* stand, and the orders they are matching or about to insert.
Undisturbed(t) ==
  /\ \A u \in Threads \ {t} :
       /\ pc'[u] = pc[u] /\ call'[u] = call[u] /\ scan'[u] = scan[u] /\ hand'[u] = hand[u]
       /\ holder' = u <=> holder = u
       /\ pc[u] = "matching" => \A id \in scan[u].todo : orders'[id] = orders[id]
       /\ Placing(u) => call[u].id \notin Known' \ Known
  /\ Known \subseteq Known'

\* The id of the call t is making, if it makes one, is new.
NewId(t) ==
  Placing(t)' =>
    /\ call'[t].id \notin Known'
    /\ \A u \in Threads \ {t} : Placing(u) => call[u].id # call'[t].id

\* Such a step keeps the invariant if it keeps what is shared and what is t's.
LEMMA ThreadStep ==
  ASSUME IInv, NEW t, Undisturbed(t), SharedOK',
         t \in Threads => ThreadOK(t)' /\ NewId(t)
  PROVE  CallsOK'
<1>1. ASSUME NEW u \in Threads
      PROVE  ThreadOK(u)'
  <2>1. CASE u = t
    BY <2>1
  <2>2. CASE u # t
    <3>1. /\ pc'[u] = pc[u] /\ call'[u] = call[u] /\ scan'[u] = scan[u] /\ hand'[u] = hand[u]
          /\ holder' = u <=> holder = u
          /\ pc[u] = "matching" => \A id \in scan[u].todo : orders'[id] = orders[id]
      BY <2>2 DEF Undisturbed
    <3>2. Known \subseteq Known' /\ ThreadOK(u)
      BY DEF IInv, CallsOK, Undisturbed
    <3>3. CallOK(u)'
      BY <3>1, <3>2 DEF ThreadOK, CallOK, Placing
    <3>4. ScanOK(u)'
      BY <3>1, <3>2 DEF ThreadOK, ScanOK
    <3>5. HandOK(u)'
      BY <3>1, <3>2 DEF ThreadOK, HandOK
    <3> QED
      BY <3>3, <3>4, <3>5 DEF ThreadOK
  <2> QED
    BY <2>1, <2>2
<1>2. FreshIds'
  <2> SUFFICES ASSUME NEW u \in Threads, Placing(u)'
               PROVE  /\ call'[u].id \notin Known'
                      /\ \A w \in Threads : Placing(w)' /\ call'[w].id = call'[u].id => w = u
    BY DEF FreshIds
  <2>1. \A w \in Threads \ {t} : call'[w] = call[w] /\ (Placing(w)' <=> Placing(w))
    BY DEF Undisturbed, Placing
  <2>2. CASE u = t
    BY <2>1, <2>2 DEF NewId
  <2>3. CASE u # t
    <3>1. call'[u] = call[u] /\ Placing(u)
      BY <2>1, <2>3
    <3>2. call[u].id \notin Known'
      BY <2>3, <3>1 DEF IInv, CallsOK, FreshIds, Undisturbed
    <3>3. ASSUME NEW w \in Threads, Placing(w)', call'[w].id = call'[u].id
          PROVE  w = u
      <4>1. CASE w = t
        BY <2>3, <3>1, <3>3, <4>1 DEF NewId
      <4>2. CASE w # t
        BY <2>1, <3>1, <3>3, <4>2 DEF IInv, CallsOK, FreshIds
      <4> QED
        BY <4>1, <4>2
    <3> QED
      BY <3>1, <3>2, <3>3
  <2> QED
    BY <2>2, <2>3
<1> QED
  BY <1>1, <1>2 DEF IInv, CallsOK

\* Nobody else is matching while the mutex is free or the thread has it.
LEMMA HolderMatches ==
  ASSUME IInv, NEW u \in Threads
  PROVE  /\ pc[u] = "matching" <=> holder = u
         /\ Free => pc[u] # "matching"
  BY EngineAssumption DEF IInv, CallsOK, ThreadOK, ScanOK, Free

\* What the invariant says of the order a thread is placing.
LEMMA CallFields ==
  ASSUME IInv, NEW t \in Threads, Placing(t)
  PROVE  /\ call[t].id \in OrderIds /\ call[t].order \in Orders /\ call[t].top \in Tops
         /\ call[t].order.quantity \in Ordered
         /\ call[t].id \notin Known
         /\ call[t] = [id |-> call[t].id, order |-> call[t].order, top |-> call[t].top]
<1>1. call[t] \in Calls /\ call[t].order.quantity \in Ordered
  BY DEF IInv, CallsOK, ThreadOK, CallOK
<1>2. call[t].id \notin Known
  BY DEF IInv, CallsOK, FreshIds
<1> QED
  BY <1>1, <1>2 DEF Calls

\* Saving, loading and the end of the restore do not touch the engine.
LEMMA BootKeeps ==
  ASSUME IInv,
         UNCHANGED << orders, book, holder, pending, delivered, pc, call, scan, hand >>
  PROVE  CallsOK'
<1>1. Known' = Known
  BY DEF Known
<1>2. SharedOK'
  BY <1>1 DEF IInv, CallsOK, SharedOK
<1>3. Undisturbed(NoThread)
  BY <1>1 DEF Undisturbed
<1> QED
  BY <1>2, <1>3, ThreadStep, EngineAssumption

\* What RestoreOrder does to the orders and to what is accounted for: a record of
\* this life makes way, or an order of an earlier one joins.
LEMMA RestoreOrderDoes ==
  ASSUME IInv, NEW id \in OrderIds, RestoreOrder(id)
  PROVE  /\ id \in DOMAIN stored /\ stored[id] \in Orders /\ Accepted(stored[id]) /\ Free
         /\ orders' = [x \in Known \cup {id} |-> IF x = id THEN stored[id] ELSE orders[x]]
         /\ Known' = Known \cup {id} /\ orders'[id] = stored[id]
         /\ \A x \in Known \ {id} : orders'[x] = orders[x]
         /\ \A t \in Threads : Placing(t) => call[t].id # id
         /\ stored' = [x \in DOMAIN stored \ {id} |-> stored[x]]
         /\ \/ /\ id \in Known /\ UNCHANGED delivered
               /\ setback' = [x \in DOMAIN setback \cup {id} |->
                     IF x = id THEN [before |-> orders[id], after |-> stored[id]]
                               ELSE setback[x]]
            \/ /\ id \notin Known /\ UNCHANGED setback
               /\ delivered' = [delivered EXCEPT ![id] = stored[id].filled]
         /\ UNCHANGED << book, holder, pending, pc, call, scan, hand, boot >>
<1>1. /\ id \in DOMAIN stored /\ Free
      /\ orders' = [x \in Known \cup {id} |-> IF x = id THEN stored[id] ELSE orders[x]]
      /\ UNCHANGED << book, holder, pending, pc, call, scan, hand, boot >>
      /\ stored' = [x \in DOMAIN stored \ {id} |-> stored[x]]
  BY DEF RestoreOrder, Inserted, Restrict
<1>2. /\ stored[id] \in Orders /\ Accepted(stored[id])
      /\ \A t \in Threads : Placing(t) => call[t].id # id
  BY <1>1 DEF IInv, BootOK
<1>3. /\ Known' = Known \cup {id} /\ orders'[id] = stored[id]
      /\ \A x \in Known \ {id} : orders'[x] = orders[x]
  BY <1>1 DEF Known
<1>4. \/ /\ id \in Known /\ UNCHANGED delivered
         /\ setback' = [x \in DOMAIN setback \cup {id} |->
               IF x = id THEN [before |-> orders[id], after |-> stored[id]]
                         ELSE setback[x]]
      \/ /\ id \notin Known /\ UNCHANGED setback
         /\ delivered' = [delivered EXCEPT ![id] = stored[id].filled]
  BY DEF RestoreOrder
<1> QED
  BY <1>1, <1>2, <1>3, <1>4

LEMMA RestoreOrderKeeps ==
  ASSUME IInv, NEW id \in OrderIds, RestoreOrder(id)
  PROVE  CallsOK'
<1>1. /\ stored[id] \in Orders /\ Free
      /\ orders' = [x \in Known \cup {id} |-> IF x = id THEN stored[id] ELSE orders[x]]
      /\ Known' = Known \cup {id}
      /\ \A x \in Known \ {id} : orders'[x] = orders[x]
      /\ \A t \in Threads : Placing(t) => call[t].id # id
      /\ \/ UNCHANGED delivered
         \/ delivered' = [delivered EXCEPT ![id] = stored[id].filled]
      /\ UNCHANGED << book, holder, pending, pc, call, scan, hand >>
  BY RestoreOrderDoes
<1>2. stored[id].filled \in Nat
  BY <1>1, OrderFields
<1>3. SharedOK'
  <2>1. orders' \in [Known' -> Orders] /\ Known' \subseteq OrderIds
    BY <1>1 DEF IInv, CallsOK, SharedOK
  <2>2. delivered' \in [OrderIds -> Nat]
    BY <1>1, <1>2 DEF IInv, CallsOK, SharedOK
  <2> QED
    BY <1>1, <2>1, <2>2 DEF IInv, CallsOK, SharedOK
<1>4. Undisturbed(NoThread)
  <2>1. \A u \in Threads : pc[u] # "matching"
    BY <1>1, HolderMatches
  <2> QED
    BY <1>1, <2>1 DEF Undisturbed
<1> QED
  BY <1>3, <1>4, ThreadStep, EngineAssumption

\* A step that leaves what the threads share as it is.
LEMMA SharedUnchanged ==
  ASSUME IInv, UNCHANGED << orders, book, holder, pending, delivered, booted >>,
         DOMAIN call' = Threads, DOMAIN scan' = Threads,
         pc' \in [Threads -> { "idle", "read", "refuse", "take", "insert", "match",
                               "matching", "publish" }],
         hand' \in [Threads -> Seq(Fills)]
  PROVE  SharedOK' /\ Known' = Known
  BY DEF IInv, CallsOK, SharedOK, Known

LEMMA PlaceCheckKeeps ==
  ASSUME IInv, NEW t \in Threads, NEW id \in OrderIds, NEW r \in Requests,
         PlaceCheck(t, id, r)
  PROVE  CallsOK'
<1> DEFINE s == IF r.type = "stop" THEN "rejected" ELSE "submitted"
           p == [r EXCEPT !.status = s]
           c == [id |-> id, top |-> NoTop, order |-> p]
<1>1. r \in OrderSpecs /\ r.filled = 0 /\ r.quantity \in Ordered
  BY EngineAssumption DEF Ordered
<1>2. /\ p \in Orders /\ p.status = s /\ p.filled = 0 /\ p.quantity \in Ordered
      /\ p.type = r.type
  <2>1. s \in { "submitted", "rejected", "acknowledged", "cancelled" }
    OBVIOUS
  <2> HIDE DEF s
  <2> QED
    BY <1>1, <2>1, UnfilledKeeps
<1>3. /\ pc[t] = "idle" /\ id \notin Known \cup InFlight
      /\ pc' = [pc EXCEPT ![t] = IF r.type = "stop" THEN "refuse" ELSE "read"]
      /\ call' = [call EXCEPT ![t] = c]
      /\ UNCHANGED << orders, book, holder, pending, delivered, scan, hand, booted >>
  BY DEF PlaceCheck, Ready
<1>4. c \in Calls /\ c.order = p /\ c.id = id
  BY <1>2 DEF Calls, NoTop, NoPrice, Tops
<1> HIDE DEF c, p
<1>5. /\ pc'[t] = IF r.type = "stop" THEN "refuse" ELSE "read"
      /\ call'[t] = c
      /\ \A u \in Threads \ {t} : pc'[u] = pc[u] /\ call'[u] = call[u]
  BY <1>3 DEF IInv, CallsOK, SharedOK
<1>6. SharedOK' /\ Known' = Known
  <2>1. /\ pc' \in [Threads -> { "idle", "read", "refuse", "take", "insert", "match",
                                 "matching", "publish" }]
        /\ hand' \in [Threads -> Seq(Fills)]
        /\ DOMAIN call' = Threads /\ DOMAIN scan' = Threads
    BY <1>3 DEF IInv, CallsOK, SharedOK
  <2> QED
    BY <1>3, <2>1, SharedUnchanged
<1>7. Undisturbed(t)
  BY <1>3, <1>5, <1>6 DEF Undisturbed
<1>8. CallOK(t)'
  BY <1>2, <1>4, <1>5 DEF CallOK, Placing
<1>9. ScanOK(t)' /\ HandOK(t)'
  BY <1>3, <1>5 DEF IInv, CallsOK, ThreadOK, ScanOK, HandOK
<1>10. NewId(t)
  BY <1>3, <1>4, <1>5, <1>6 DEF NewId, InFlight
<1> QED
  BY <1>6, <1>7, <1>8, <1>9, <1>10, ThreadStep DEF ThreadOK

LEMMA ReadTopKeeps ==
  ASSUME IInv, NEW t \in Threads, ReadTop(t)
  PROVE  CallsOK'
<1> DEFINE o   == call[t].order
           top == book[o.instrument]
           s   == IF ReturnsEarly(o, top) THEN EarlyStatus(o, top) ELSE "submitted"
           p   == [o EXCEPT !.status = s]
<1>1. Placing(t) /\ pc[t] = "read"
  BY DEF ReadTop, Placing
<1>2. /\ call[t].id \in OrderIds /\ o \in Orders /\ o.quantity \in Ordered
      /\ call[t].id \notin Known
      /\ call[t] = [id |-> call[t].id, order |-> o, top |-> call[t].top]
  BY <1>1, CallFields
<1>3. o.status = "submitted" /\ o.filled = 0 /\ o.type # "stop"
  BY <1>1 DEF IInv, CallsOK, ThreadOK, CallOK
<1>4. o \in OrderSpecs /\ o.instrument \in Instruments /\ o.type \in OrderTypes
  BY <1>2, OrderFields
<1>5. top \in Tops
  BY <1>4 DEF IInv, CallsOK, SharedOK
<1>6. s \in { "submitted", "rejected", "acknowledged", "cancelled" }
      /\ (ReturnsEarly(o, top) => s \in { "rejected", "acknowledged", "cancelled" })
  BY DEF EarlyStatus
<1>7. /\ p \in Orders /\ p.status = s /\ p.filled = 0 /\ p.quantity = o.quantity
      /\ p.type = o.type
  BY <1>3, <1>4, <1>6, UnfilledKeeps
<1>8. o = [o EXCEPT !.status = "submitted"]
  BY <1>3, <1>4 DEF OrderSpecs
<1> DEFINE c == [id |-> call[t].id, order |-> p, top |-> top]
<1>9. /\ pc' = [pc EXCEPT ![t] = IF ReturnsEarly(o, top) THEN "refuse" ELSE "take"]
      /\ call' = [call EXCEPT ![t] = c]
      /\ UNCHANGED << orders, book, holder, pending, delivered, scan, hand, booted >>
  <2>1. CASE ReturnsEarly(o, top)
    BY <1>2, <2>1 DEF ReadTop
  <2>2. CASE ~ ReturnsEarly(o, top)
    BY <1>2, <1>8, <2>2 DEF ReadTop
  <2> QED
    BY <2>1, <2>2
<1>10. c \in Calls /\ c.order = p /\ c.id = call[t].id
  BY <1>2, <1>5, <1>7 DEF Calls
<1>11. ~ ReturnsEarly(o, top) => o.type \in { "limit", "market" }
  BY <1>3, <1>4 DEF ReturnsEarly, OrderTypes
<1> HIDE DEF c, p, s, top
<1>12. /\ pc'[t] = IF ReturnsEarly(o, top) THEN "refuse" ELSE "take"
       /\ call'[t] = c
       /\ \A u \in Threads \ {t} : pc'[u] = pc[u] /\ call'[u] = call[u]
  BY <1>9 DEF IInv, CallsOK, SharedOK
<1>13. SharedOK' /\ Known' = Known
  <2>1. /\ pc' \in [Threads -> { "idle", "read", "refuse", "take", "insert", "match",
                                 "matching", "publish" }]
        /\ hand' \in [Threads -> Seq(Fills)]
        /\ DOMAIN call' = Threads /\ DOMAIN scan' = Threads
    BY <1>9 DEF IInv, CallsOK, SharedOK
  <2> QED
    BY <1>9, <2>1, SharedUnchanged
<1>14. Undisturbed(t)
  BY <1>9, <1>12, <1>13 DEF Undisturbed
<1>15. CallOK(t)'
  <2>1. ReturnsEarly(o, top) \/ s = "submitted"
    BY DEF s
  <2> QED
    BY <1>2, <1>6, <1>7, <1>10, <1>11, <1>12, <2>1 DEF CallOK, Placing
<1>16. ScanOK(t)' /\ HandOK(t)'
  BY <1>1, <1>9, <1>12 DEF IInv, CallsOK, ThreadOK, ScanOK, HandOK
<1>17. NewId(t)
  BY <1>1, <1>2, <1>10, <1>12, <1>13 DEF NewId, IInv, CallsOK, FreshIds
<1> QED
  BY <1>13, <1>14, <1>15, <1>16, <1>17, ThreadStep DEF ThreadOK

\* What TakeNow leaves in the hands of the call: the order as place_order will
\* insert it, and the fill there was.
LEMMA TakeNowDoes ==
  ASSUME IInv, NEW t \in Threads, TakeNow(t)
  PROVE  \E p \in Orders, top \in Tops :
           /\ top = book[call[t].order.instrument]
           /\ p = Placed(call[t].order, top)
           /\ call' = [call EXCEPT ![t] =
                         [id |-> call[t].id, order |-> p, top |-> call[t].top]]
           /\ p.filled = TakeQty(call[t].order, top)
           /\ p.clid = call[t].order.clid /\ p.quantity = call[t].order.quantity
           /\ p.status \in Successors["submitted"]
           /\ hand' = [hand EXCEPT ![t] = hand'[t]] /\ hand'[t] \in Seq(Fills)
           /\ \/ p.filled = 0 /\ hand'[t] = << >>
              \/ \E f \in Fills : /\ p.filled > 0 /\ hand'[t] = << f >>
                                  /\ f.order = call[t].id /\ f.quantity = p.filled
<1> DEFINE o   == call[t].order
           top == book[o.instrument]
           qty == TakeQty(o, top)
           p   == Placed(o, top)
           f   == FillOf(call[t].id, o, ExecPrice(o, top), qty, FALSE)
           h   == IF qty > 0 THEN << f >> ELSE << >>
<1>1. Placing(t) /\ pc[t] = "take"
  BY DEF TakeNow, Placing
<1>2. /\ call[t].id \in OrderIds /\ o \in Orders
      /\ call[t] = [id |-> call[t].id, order |-> o, top |-> call[t].top]
  BY <1>1, CallFields
<1>3. o.status = "submitted" /\ o.filled = 0 /\ o.type \in { "limit", "market" }
  BY <1>1 DEF IInv, CallsOK, ThreadOK, CallOK
<1>4. o.instrument \in Instruments
  BY <1>2, OrderFields
<1>5. top \in Tops
  BY <1>4 DEF IInv, CallsOK, SharedOK
<1>6. Remaining(o) \in Nat /\ qty \in 0..Remaining(o)
  BY <1>2, <1>5, TakeQtyBounds, OrderFields
<1>7. /\ call' = [call EXCEPT ![t].order = p]
      /\ hand' = [hand EXCEPT ![t] = h]
  BY DEF TakeNow, Taken, Placed
<1>8. hand \in [Threads -> Seq(Fills)]
  BY DEF IInv, CallsOK, SharedOK
<1> HIDE DEF o, top
<1>9. /\ p \in Orders /\ p.filled = qty /\ p.clid = o.clid /\ p.quantity = o.quantity
      /\ p.status \in Successors["submitted"]
  <2> HIDE DEF p, qty
  <2>1. p = Placed(o, top)
    BY DEF p
  <2> QED
    BY <1>2, <1>3, <1>5, <2>1, PlacedKeeps DEF qty
<1>10. qty > 0 => f \in Fills /\ f.order = call[t].id /\ f.quantity = qty
  <2>1. qty \in Nat
    BY <1>6
  <2> HIDE DEF p, qty
  <2>2. qty > 0 => \A maker \in BOOLEAN :
          /\ FillOf(call[t].id, o, ExecPrice(o, top), qty, maker) \in Fills
          /\ FillOf(call[t].id, o, ExecPrice(o, top), qty, maker).order = call[t].id
          /\ FillOf(call[t].id, o, ExecPrice(o, top), qty, maker).quantity = qty
    BY <1>2, <1>5, <2>1, FillOfType
  <2> QED
    BY <2>2, Zenon
<1> HIDE DEF p, qty, f
<1>11. h \in Seq(Fills)
  BY <1>10
<1>12. call' = [call EXCEPT ![t] = [id |-> call[t].id, order |-> p, top |-> call[t].top]]
  <2>1. [call[t] EXCEPT !.order = p] = [id |-> call[t].id, order |-> p, top |-> call[t].top]
    BY <1>2
  <2> QED
    BY <1>7, <2>1
<1>13. hand'[t] = h /\ hand' = [hand EXCEPT ![t] = hand'[t]]
  <2> HIDE DEF h
  <2>1. hand'[t] = h
    BY <1>7, <1>8
  <2> QED
    BY <1>7, <2>1
<1>14. \/ p.filled = 0 /\ h = << >>
       \/ p.filled > 0 /\ h = << f >> /\ f \in Fills
          /\ f.order = call[t].id /\ f.quantity = p.filled
  BY <1>6, <1>9, <1>10
<1> HIDE DEF h
<1>15. p = Placed(o, top)
  BY DEF p
<1> QED
  BY <1>5, <1>9, <1>11, <1>12, <1>13, <1>14, <1>15 DEF o, top, qty

LEMMA TakeNowKeeps ==
  ASSUME IInv, NEW t \in Threads, TakeNow(t)
  PROVE  CallsOK'
<1>1. PICK p \in Orders, top \in Tops :
        /\ call' = [call EXCEPT ![t] =
                      [id |-> call[t].id, order |-> p, top |-> call[t].top]]
        /\ p.quantity = call[t].order.quantity
        /\ p.status \in Successors["submitted"]
        /\ hand' = [hand EXCEPT ![t] = hand'[t]] /\ hand'[t] \in Seq(Fills)
        /\ \/ hand'[t] = << >>
           \/ \E f \in Fills : hand'[t] = << f >> /\ f.order = call[t].id
  BY TakeNowDoes
<1>2. /\ pc[t] = "take" /\ pc' = [pc EXCEPT ![t] = "insert"]
      /\ UNCHANGED << orders, book, holder, pending, delivered, scan, booted >>
  BY DEF TakeNow
<1>3. /\ call[t].id \in OrderIds /\ call[t].top \in Tops
      /\ call[t].order.quantity \in Ordered
  BY <1>2, CallFields DEF Placing
<1> DEFINE c == [id |-> call[t].id, order |-> p, top |-> call[t].top]
<1>4. c \in Calls /\ c.order = p /\ c.id = call[t].id
  BY <1>3 DEF Calls
<1> HIDE DEF c
<1>5. /\ pc'[t] = "insert" /\ call'[t] = c
      /\ \A u \in Threads \ {t} :
           pc'[u] = pc[u] /\ call'[u] = call[u] /\ hand'[u] = hand[u]
  BY <1>1, <1>2 DEF IInv, CallsOK, SharedOK, c
<1>6. SharedOK' /\ Known' = Known
  <2>1. /\ pc' \in [Threads -> { "idle", "read", "refuse", "take", "insert", "match",
                                 "matching", "publish" }]
        /\ hand' \in [Threads -> Seq(Fills)]
        /\ DOMAIN call' = Threads /\ DOMAIN scan' = Threads
    BY <1>1, <1>2 DEF IInv, CallsOK, SharedOK
  <2> QED
    BY <1>2, <2>1, SharedUnchanged
<1>7. Undisturbed(t)
  BY <1>2, <1>5, <1>6 DEF Undisturbed
<1>8. CallOK(t)'
  BY <1>1, <1>3, <1>4, <1>5 DEF CallOK, Placing
<1>9. ScanOK(t)'
  BY <1>2, <1>5 DEF IInv, CallsOK, ThreadOK, ScanOK
<1>10. HandOK(t)'
  BY <1>1, <1>4, <1>5 DEF HandOK
<1>11. NewId(t)
  BY <1>2, <1>4, <1>5, <1>6 DEF NewId, IInv, CallsOK, FreshIds, Placing
<1> QED
  BY <1>6, <1>7, <1>8, <1>9, <1>10, <1>11, ThreadStep DEF ThreadOK

LEMMA InsertKeeps ==
  ASSUME IInv, NEW t \in Threads, Insert(t)
  PROVE  CallsOK'
<1> DEFINE id == call[t].id
           o  == call[t].order
<1>1. /\ pc[t] \in { "insert", "refuse" } /\ Placing(t) /\ Free
      /\ orders' = [x \in Known \cup {id} |-> IF x = id THEN o ELSE orders[x]]
      /\ call' = [call EXCEPT ![t] = NoCall]
      /\ pc' = [pc EXCEPT ![t] = IF hand[t] = << >> THEN "idle" ELSE "publish"]
      /\ UNCHANGED << book, holder, pending, delivered, scan, hand, booted >>
  BY DEF Insert, Inserted, Placing
<1>2. id \in OrderIds /\ o \in Orders /\ id \notin Known
  BY <1>1, CallFields
<1> HIDE DEF id, o
<1>3. /\ Known' = Known \cup {id} /\ orders'[id] = o
      /\ \A x \in Known : orders'[x] = orders[x]
  BY <1>1, <1>2 DEF Known
<1>4. /\ pc'[t] = IF hand[t] = << >> THEN "idle" ELSE "publish"
      /\ \A u \in Threads \ {t} : pc'[u] = pc[u] /\ call'[u] = call[u]
  BY <1>1 DEF IInv, CallsOK, SharedOK
<1>5. SharedOK'
  <2>1. orders' \in [Known' -> Orders] /\ Known' \subseteq OrderIds
    BY <1>1, <1>2, <1>3 DEF IInv, CallsOK, SharedOK
  <2>2. /\ pc' \in [Threads -> { "idle", "read", "refuse", "take", "insert", "match",
                                 "matching", "publish" }]
        /\ DOMAIN call' = Threads
    BY <1>1 DEF IInv, CallsOK, SharedOK
  <2> QED
    BY <1>1, <1>3, <2>1, <2>2 DEF IInv, CallsOK, SharedOK
<1>6. Undisturbed(t)
  <2>1. ASSUME NEW u \in Threads \ {t}
        PROVE  pc[u] # "matching" /\ (Placing(u) => call[u].id # id)
    BY <1>1, HolderMatches DEF IInv, CallsOK, FreshIds, id
  <2> QED
    BY <1>1, <1>3, <1>4, <2>1 DEF Undisturbed
<1>7. CallOK(t)' /\ NewId(t)
  BY <1>4 DEF CallOK, NewId, Placing
<1>8. ScanOK(t)'
  BY <1>1, <1>4 DEF IInv, CallsOK, ThreadOK, ScanOK
<1>9. HandOK(t)'
  <2>1. /\ pc[t] \notin { "insert", "matching", "publish" } => hand[t] = << >>
        /\ \A n \in DOMAIN hand[t] : hand[t][n].order \in Known \/ hand[t][n].order = id
    BY DEF IInv, CallsOK, ThreadOK, HandOK, id
  <2> QED
    BY <1>1, <1>3, <1>4, <2>1 DEF HandOK
<1> QED
  BY <1>5, <1>6, <1>7, <1>8, <1>9, ThreadStep DEF ThreadOK

LEMMA SetBookKeeps ==
  ASSUME IInv, NEW t \in Threads, NEW i \in Instruments, NEW top \in Ticks,
         SetBook(t, i, top)
  PROVE  CallsOK'
<1>1. /\ pc[t] = "idle" /\ Free
      /\ book' = [book EXCEPT ![i] = top]
      /\ pc' = [pc EXCEPT ![t] = "match"]
      /\ scan' = [scan EXCEPT ![t] = [instrument |-> i, todo |-> {}]]
      /\ UNCHANGED << orders, holder, pending, delivered, call, hand, booted >>
  BY DEF SetBook, Ready
<1>2. /\ pc'[t] = "match" /\ scan'[t].instrument = i
      /\ \A u \in Threads \ {t} : pc'[u] = pc[u] /\ scan'[u] = scan[u]
  BY <1>1 DEF IInv, CallsOK, SharedOK
<1>3. SharedOK' /\ Known' = Known
  <2>1. top \in Tops
    BY EngineAssumption
  <2>2. book' \in [Instruments -> Tops]
    BY <1>1, <2>1 DEF IInv, CallsOK, SharedOK
  <2> QED
    BY <1>1, <2>2 DEF IInv, CallsOK, SharedOK, Known
<1>4. Undisturbed(t)
  BY <1>1, <1>2, <1>3 DEF Undisturbed
<1>5. CallOK(t)' /\ NewId(t)
  BY <1>2 DEF CallOK, NewId, Placing
<1>6. ScanOK(t)' /\ HandOK(t)'
  BY <1>1, <1>2, <1>3, HolderMatches DEF IInv, CallsOK, ThreadOK, ScanOK, HandOK
<1> QED
  BY <1>3, <1>4, <1>5, <1>6, ThreadStep DEF ThreadOK

LEMMA BeginMatchKeeps ==
  ASSUME IInv, NEW t \in Threads, BeginMatch(t)
  PROVE  CallsOK'
<1> DEFINE i   == scan[t].instrument
           top == book[i]
           c   == [ instrument |-> i, top |-> top,
                    todo |-> { id \in Known : orders[id].instrument = i
                                              /\ Rests(orders[id]) },
                    left |-> Displayed(top) ]
<1>1. /\ pc[t] = "match" /\ Free /\ holder' = t
      /\ scan' = [scan EXCEPT ![t] = c]
      /\ pc' = [pc EXCEPT ![t] = "matching"]
      /\ UNCHANGED << orders, book, pending, delivered, call, hand, booted >>
  BY DEF BeginMatch
<1>2. i \in Instruments
  BY <1>1 DEF IInv, CallsOK, ThreadOK, ScanOK
<1>3. top \in Tops
  BY <1>2 DEF IInv, CallsOK, SharedOK
<1>4. Displayed(top) \in [{ "buy", "sell" } -> Nat]
  BY <1>3 DEF Displayed, Tops
<1>5. /\ c \in Scans
      /\ \A id \in c.todo : id \in Known /\ Rests(orders[id])
  BY <1>2, <1>3, <1>4 DEF Scans, IInv, CallsOK, SharedOK
<1> HIDE DEF c, top, i
<1>6. /\ pc'[t] = "matching" /\ scan'[t] = c
      /\ \A u \in Threads \ {t} : pc'[u] = pc[u] /\ scan'[u] = scan[u]
  BY <1>1 DEF IInv, CallsOK, SharedOK
<1>7. SharedOK' /\ Known' = Known
  BY <1>1 DEF IInv, CallsOK, SharedOK, Known
<1>8. Undisturbed(t)
  BY <1>1, <1>6, <1>7, HolderMatches, EngineAssumption DEF Undisturbed, Free
<1>9. CallOK(t)' /\ NewId(t)
  BY <1>6 DEF CallOK, NewId, Placing
<1>10. ScanOK(t)'
  BY <1>1, <1>5, <1>6, <1>7 DEF ScanOK
<1>11. HandOK(t)'
  BY <1>1, <1>6, <1>7 DEF IInv, CallsOK, ThreadOK, HandOK
<1> QED
  BY <1>7, <1>8, <1>9, <1>10, <1>11, ThreadStep DEF ThreadOK

\* What a turn of the matching loop does: nothing, or one fill of a resting order.
LEMMA MatchOneDoes ==
  ASSUME IInv, NEW t \in Threads, NEW id \in OrderIds, MatchOne(t, id)
  PROVE  /\ pc[t] = "matching" /\ id \in Known /\ Rests(orders[id]) /\ holder = t
         /\ orders[id] \in Orders /\ scan[t] \in Scans
         /\ UNCHANGED << book, holder, pending, delivered, pc, call, booted >>
         /\ \/ /\ scan' = [scan EXCEPT ![t].todo = @ \ {id}]
               /\ UNCHANGED << orders, hand >>
            \/ \E qty \in 1..Remaining(orders[id]), f \in Fills :
                 /\ RespectsLiquidity => qty <= scan[t].left[orders[id].side]
                 /\ ~ RespectsLiquidity => qty = Remaining(orders[id])
                 /\ scan' = [scan EXCEPT ![t].todo = @ \ {id},
                               ![t].left = LeftAfter(@, orders[id].side, qty)]
                 /\ orders' = [orders EXCEPT ![id] = AfterFill(orders[id], qty)]
                 /\ f.order = id /\ f.quantity = qty
                 /\ hand' = [hand EXCEPT ![t] = Append(@, f)]
<1> DEFINE o   == orders[id]
           top == scan[t].top
           qty == MatchQty(o, top, scan[t].left)
           f   == FillOf(id, o, ExecPrice(o, top), qty, TRUE)
<1>1. /\ pc[t] = "matching" /\ id \in scan[t].todo
      /\ UNCHANGED << book, holder, pending, delivered, pc, call, booted >>
  BY DEF MatchOne
<1>2. /\ scan[t] \in Scans /\ id \in Known /\ Rests(o) /\ holder = t
  BY <1>1 DEF IInv, CallsOK, ThreadOK, ScanOK
<1>3. o \in Orders
  BY <1>2 DEF IInv, CallsOK, SharedOK
<1>4. top \in Tops /\ scan[t].left \in [{ "buy", "sell" } -> Nat]
  BY <1>2 DEF Scans
<1>5. /\ qty \in 0..Remaining(o) /\ Remaining(o) \in Nat
      /\ RespectsLiquidity => qty <= scan[t].left[o.side]
  BY <1>3, <1>4, MatchQtyBounds, OrderFields
<1>6. CASE qty > 0
  <2>1. qty \in Nat /\ qty \in 1..Remaining(o)
    BY <1>5, <1>6
  <2>4. ~ RespectsLiquidity => qty = Remaining(o)
    BY <1>6, WholeOrNothing
  <2>2. /\ scan' = [scan EXCEPT ![t].todo = @ \ {id},
                                ![t].left = LeftAfter(@, o.side, qty)]
        /\ orders' = [orders EXCEPT ![id] = AfterFill(o, qty)]
        /\ hand' = [hand EXCEPT ![t] = Append(@, f)]
    BY <1>6 DEF MatchOne
  <2>3. f \in Fills /\ f.order = id /\ f.quantity = qty
    <3> HIDE DEF qty, o, top
    <3>1. \A maker \in BOOLEAN :
            /\ FillOf(id, o, ExecPrice(o, top), qty, maker) \in Fills
            /\ FillOf(id, o, ExecPrice(o, top), qty, maker).order = id
            /\ FillOf(id, o, ExecPrice(o, top), qty, maker).quantity = qty
      BY <1>3, <1>4, <1>6, <2>1, FillOfType
    <3> QED
      BY <3>1, Zenon
  <2> HIDE DEF f, qty
  <2> QED
    BY <1>1, <1>2, <1>3, <1>5, <2>1, <2>2, <2>3, <2>4
<1>7. CASE qty = 0
  <2>1. scan' = [scan EXCEPT ![t].todo = @ \ {id}] /\ UNCHANGED << orders, hand >>
    BY <1>7 DEF MatchOne
  <2> HIDE DEF f, qty
  <2> QED
    BY <1>1, <1>2, <1>3, <2>1
<1>8. qty > 0 \/ qty = 0
  BY <1>5
<1> HIDE DEF qty, f
<1> QED
  BY <1>6, <1>7, <1>8

LEMMA MatchOneKeeps ==
  ASSUME IInv, NEW t \in Threads, NEW id \in OrderIds, MatchOne(t, id)
  PROVE  CallsOK'
<1> DEFINE o == orders[id]
<1>1. /\ pc[t] = "matching" /\ id \in Known /\ Rests(o) /\ holder = t
      /\ o \in Orders /\ scan[t] \in Scans
      /\ UNCHANGED << book, holder, pending, delivered, pc, call, booted >>
  BY MatchOneDoes
<1>2. \A u \in Threads \ {t} : pc[u] # "matching"
  BY <1>1, HolderMatches
<1>3. CallOK(t)' /\ NewId(t)
  BY <1>1 DEF CallOK, NewId, Placing
<1>4. DOMAIN scan = Threads /\ hand \in [Threads -> Seq(Fills)]
      /\ orders \in [Known -> Orders]
      /\ \A x \in scan[t].todo : x \in Known /\ Rests(orders[x])
  BY <1>1 DEF IInv, CallsOK, SharedOK, ThreadOK, ScanOK
<1>5. \A n \in DOMAIN hand[t] : hand[t][n].order \in Known
  BY <1>1 DEF IInv, CallsOK, ThreadOK, HandOK
<1>6. ASSUME scan' = [scan EXCEPT ![t].todo = @ \ {id}], UNCHANGED << orders, hand >>
      PROVE  CallsOK'
  <2>1. /\ scan'[t] = [scan[t] EXCEPT !.todo = scan[t].todo \ {id}]
        /\ DOMAIN scan' = Threads
        /\ \A u \in Threads \ {t} : scan'[u] = scan[u]
    BY <1>4, <1>6
  <2>2. scan'[t] \in Scans /\ scan'[t].todo \subseteq scan[t].todo
    BY <1>1, <2>1 DEF Scans
  <2>3. SharedOK' /\ Known' = Known
    BY <1>1, <1>6, <2>1 DEF IInv, CallsOK, SharedOK, Known
  <2>4. Undisturbed(t)
    BY <1>1, <1>6, <2>1, <2>3 DEF Undisturbed
  <2>5. ScanOK(t)'
    <3>1. \A x \in scan'[t].todo : x \in Known' /\ Rests(orders'[x])
      BY <1>4, <1>6, <2>2, <2>3
    <3> QED
      BY <1>1, <2>2, <3>1 DEF ScanOK
  <2>6. HandOK(t)'
    <3>1. hand' = hand /\ pc' = pc /\ call' = call /\ HandOK(t)
      BY <1>1, <1>6 DEF IInv, CallsOK, ThreadOK
    <3> QED
      BY <2>3, <3>1 DEF HandOK
  <2> QED
    BY <1>3, <2>3, <2>4, <2>5, <2>6, ThreadStep DEF ThreadOK
<1>7. ASSUME NEW qty \in 1..Remaining(o), NEW f \in Fills, f.order = id,
             scan' = [scan EXCEPT ![t].todo = @ \ {id},
                        ![t].left = LeftAfter(@, o.side, qty)],
             orders' = [orders EXCEPT ![id] = AfterFill(o, qty)],
             hand' = [hand EXCEPT ![t] = Append(@, f)]
      PROVE  CallsOK'
  <2>1. AfterFill(o, qty) \in Orders
    BY <1>1, AfterFillKeeps DEF Rests
  <2>2. /\ scan'[t] = [scan[t] EXCEPT !.todo = scan[t].todo \ {id},
                                      !.left = LeftAfter(scan[t].left, o.side, qty)]
        /\ DOMAIN scan' = Threads
        /\ \A u \in Threads \ {t} : scan'[u] = scan[u]
    BY <1>4, <1>7
  <2>3. LeftAfter(scan[t].left, o.side, qty) \in [{ "buy", "sell" } -> Nat]
    <3>1. scan[t].left \in [{ "buy", "sell" } -> Nat] /\ o.side \in { "buy", "sell" }
      BY <1>1, OrderFields DEF Scans, Sides
    <3>2. qty \in Nat
      BY <1>1, OrderFields
    <3> HIDE DEF o
    <3> QED
      BY <3>1, <3>2 DEF LeftAfter
  <2>4. scan'[t] \in Scans /\ scan'[t].todo = scan[t].todo \ {id}
    <3> HIDE DEF o
    <3> QED
      BY <1>1, <2>2, <2>3 DEF Scans
  <2>5. /\ Known' = Known /\ orders' \in [Known -> Orders]
        /\ \A x \in Known \ {id} : orders'[x] = orders[x]
    BY <1>4, <1>7, <2>1 DEF Known
  <2>6. /\ hand'[t] = Append(hand[t], f) /\ hand' \in [Threads -> Seq(Fills)]
        /\ \A u \in Threads \ {t} : hand'[u] = hand[u]
    BY <1>4, <1>7
  <2>7. \A n \in DOMAIN hand'[t] : hand'[t][n].order \in Known
    <3>1. hand[t] \in Seq(Fills)
      BY <1>4
    <3>2. /\ \A n \in 1..Len(hand[t]) : hand'[t][n] = hand[t][n]
          /\ hand'[t][Len(hand[t]) + 1] = f
          /\ DOMAIN hand'[t] = 1..(Len(hand[t]) + 1)
          /\ DOMAIN hand[t] = 1..Len(hand[t]) /\ Len(hand[t]) \in Nat
      BY <2>6, <3>1, AppendProperties, LenProperties
    <3>3. id \in Known /\ f.order = id
      BY <1>1, <1>7
    <3>4. ASSUME NEW n \in 1..(Len(hand[t]) + 1)
          PROVE  hand'[t][n].order \in Known
      <4>1. CASE n \in 1..Len(hand[t])
        <5>1. hand'[t][n] = hand[t][n] /\ n \in DOMAIN hand[t]
          BY <3>2, <4>1
        <5> QED
          BY <1>5, <5>1
      <4>2. CASE n = Len(hand[t]) + 1
        BY <3>2, <3>3, <4>2
      <4> QED
        BY <3>2, <4>1, <4>2
    <3> QED
      BY <3>2, <3>4
  <2>8. SharedOK'
    BY <1>1, <2>2, <2>5, <2>6 DEF IInv, CallsOK, SharedOK
  <2>9. Undisturbed(t)
    BY <1>1, <1>2, <2>2, <2>5, <2>6 DEF Undisturbed
  <2>10. ScanOK(t)'
    BY <1>1, <1>4, <2>4, <2>5 DEF ScanOK
  <2>11. HandOK(t)'
    BY <1>1, <2>5, <2>7 DEF HandOK
  <2> QED
    BY <1>3, <2>8, <2>9, <2>10, <2>11, ThreadStep DEF ThreadOK
<1>8. \/ scan' = [scan EXCEPT ![t].todo = @ \ {id}] /\ UNCHANGED << orders, hand >>
      \/ \E qty \in 1..Remaining(o), f \in Fills :
           /\ f.order = id
           /\ scan' = [scan EXCEPT ![t].todo = @ \ {id},
                         ![t].left = LeftAfter(@, o.side, qty)]
           /\ orders' = [orders EXCEPT ![id] = AfterFill(o, qty)]
           /\ hand' = [hand EXCEPT ![t] = Append(@, f)]
  BY MatchOneDoes
<1> QED
  BY <1>6, <1>7, <1>8

LEMMA EndMatchKeeps ==
  ASSUME IInv, NEW t \in Threads, EndMatch(t)
  PROVE  CallsOK'
<1>1. /\ pc[t] = "matching" /\ holder' = NoThread
      /\ pc' = [pc EXCEPT ![t] = "publish"]
      /\ UNCHANGED << orders, book, pending, delivered, call, scan, hand, booted >>
  BY DEF EndMatch
<1>2. /\ pc'[t] = "publish"
      /\ \A u \in Threads \ {t} : pc'[u] = pc[u]
  BY <1>1 DEF IInv, CallsOK, SharedOK
<1>3. SharedOK' /\ Known' = Known
  BY <1>1 DEF IInv, CallsOK, SharedOK, Known
<1>4. Undisturbed(t)
  BY <1>1, <1>2, <1>3, HolderMatches, EngineAssumption DEF Undisturbed
<1>5. CallOK(t)' /\ NewId(t)
  BY <1>2 DEF CallOK, NewId, Placing
<1>6. ScanOK(t)'
  BY <1>1, <1>2, EngineAssumption DEF ScanOK
<1>7. HandOK(t)'
  BY <1>1, <1>2, <1>3 DEF IInv, CallsOK, ThreadOK, HandOK
<1> QED
  BY <1>3, <1>4, <1>5, <1>6, <1>7, ThreadStep DEF ThreadOK

\* Two sequences of fills in a row.
LEMMA FillsJoined ==
  ASSUME NEW p \in Seq(Fills), NEW h \in Seq(Fills)
  PROVE  /\ p \o h \in Seq(Fills)
         /\ DOMAIN (p \o h) = 1..(Len(p) + Len(h)) /\ Len(p) \in Nat /\ Len(h) \in Nat
         /\ DOMAIN p = 1..Len(p) /\ DOMAIN h = 1..Len(h)
         /\ \A n \in 1..Len(p) : (p \o h)[n] = p[n]
         /\ \A n \in 1..Len(h) : (p \o h)[Len(p) + n] = h[n]
  BY ConcatProperties, LenProperties

LEMMA PublishKeeps ==
  ASSUME IInv, NEW t \in Threads, Publish(t)
  PROVE  CallsOK'
<1>1. /\ pc[t] = "publish"
      /\ pending' = pending \o hand[t]
      /\ hand' = [hand EXCEPT ![t] = << >>]
      /\ scan' = [scan EXCEPT ![t] = NoScan]
      /\ pc' = [pc EXCEPT ![t] = "idle"]
      /\ UNCHANGED << orders, book, holder, delivered, call, booted >>
  BY DEF Publish
<1>2. /\ pc'[t] = "idle" /\ hand'[t] = << >> /\ hand' \in [Threads -> Seq(Fills)]
      /\ \A u \in Threads \ {t} :
           pc'[u] = pc[u] /\ hand'[u] = hand[u] /\ scan'[u] = scan[u]
  BY <1>1 DEF IInv, CallsOK, SharedOK
<1>3. Known' = Known
  BY <1>1 DEF Known
<1>4. pending \in Seq(Fills) /\ hand[t] \in Seq(Fills)
  BY DEF IInv, CallsOK, SharedOK
<1>5. \A n \in DOMAIN pending : pending[n].order \in Known
  BY DEF IInv, CallsOK, SharedOK
<1>6. \A n \in DOMAIN hand[t] : hand[t][n].order \in Known
  BY <1>1 DEF IInv, CallsOK, ThreadOK, HandOK
<1>7. pending' \in Seq(Fills) /\ \A n \in DOMAIN pending' : pending'[n].order \in Known
  <2> DEFINE h == hand[t]
             j == pending \o h
  <2>1. /\ j \in Seq(Fills)
        /\ DOMAIN j = 1..(Len(pending) + Len(h)) /\ Len(pending) \in Nat /\ Len(h) \in Nat
        /\ DOMAIN pending = 1..Len(pending) /\ DOMAIN h = 1..Len(h)
        /\ \A n \in 1..Len(pending) : j[n] = pending[n]
        /\ \A n \in 1..Len(h) : j[Len(pending) + n] = h[n]
    BY <1>4, FillsJoined
  <2>2. \A n \in DOMAIN h : h[n].order \in Known
    BY <1>6
  <2> HIDE DEF h, j
  <2>3. ASSUME NEW n \in DOMAIN j
        PROVE  j[n].order \in Known
    <3>1. CASE n \in 1..Len(pending)
      BY <1>5, <2>1, <3>1
    <3>2. CASE n \notin 1..Len(pending)
      <4>1. n - Len(pending) \in 1..Len(h) /\ n = Len(pending) + (n - Len(pending))
        BY <2>1, <3>2
      <4>2. j[n] = h[n - Len(pending)]
        BY <2>1, <4>1
      <4> QED
        BY <2>1, <2>2, <4>1, <4>2
    <3> QED
      BY <3>1, <3>2
  <2> QED
    BY <1>1, <2>1, <2>3 DEF j, h
<1>8. SharedOK'
  BY <1>1, <1>2, <1>3, <1>7 DEF IInv, CallsOK, SharedOK
<1>9. Undisturbed(t)
  BY <1>1, <1>2, <1>3 DEF Undisturbed
<1>10. CallOK(t)' /\ NewId(t)
  BY <1>2 DEF CallOK, NewId, Placing
<1>11. ScanOK(t)'
  BY <1>1, <1>2 DEF IInv, CallsOK, ThreadOK, ScanOK
<1>12. HandOK(t)'
  BY <1>2 DEF HandOK
<1> QED
  BY <1>8, <1>9, <1>10, <1>11, <1>12, ThreadStep DEF ThreadOK

\* The quantity of an order in a sequence of fills, as a sum over its positions.
LEMMA FilledInType ==
  ASSUME NEW fills \in Seq(Fills), NEW id
  PROVE  /\ FilledIn(fills, id) \in Nat
         /\ (\A n \in DOMAIN fills : fills[n].order # id) => FilledIn(fills, id) = 0
<1> DEFINE q == [n \in DOMAIN fills |->
                   IF fills[n].order = id THEN fills[n].quantity ELSE 0]
           S == DOMAIN fills
<1>1. IsFiniteSet(S)
  <2>1. S = 1..Len(fills) /\ Len(fills) \in Nat
    BY LenProperties
  <2> QED
    BY <2>1, FS_Interval
<1>2. \A n \in S : fills[n] \in Fills
  BY ElementOfSeq, LenProperties
<1>3. \A n \in S : q[n] \in Nat
  BY <1>2 DEF Fills
<1>4. q \in [S -> Int] /\ \A n \in S : q[n] >= 0
  BY <1>3
<1>5. (\A n \in S : fills[n].order # id) => \A n \in S : q[n] = 0
  OBVIOUS
<1> HIDE DEF q, S
<1>6. /\ SumFunction(q) \in Int /\ SumFunction(q) >= 0
      /\ (\A n \in S : q[n] = 0) => SumFunction(q) = 0
  BY <1>1, <1>4, SumType
<1>7. FilledIn(fills, id) = SumFunction(q)
  BY DEF FilledIn, q
<1> QED
  BY <1>5, <1>6, <1>7 DEF S

LEMMA TakeFillsKeeps ==
  ASSUME IInv, NEW t \in Threads, TakeFills(t)
  PROVE  CallsOK'
<1>1. /\ delivered' = [id \in OrderIds |-> delivered[id] + FilledIn(pending, id)]
      /\ pending' = << >>
      /\ UNCHANGED << orders, book, holder, pc, call, scan, hand, booted >>
  BY DEF TakeFills
<1>2. \A id \in OrderIds : FilledIn(pending, id) \in Nat
  BY FilledInType DEF IInv, CallsOK, SharedOK
<1>3. SharedOK' /\ Known' = Known
  BY <1>1, <1>2 DEF IInv, CallsOK, SharedOK, Known
<1>4. Undisturbed(t)
  BY <1>1, <1>3 DEF Undisturbed
<1>5. ThreadOK(t)' /\ NewId(t)
  BY <1>1, <1>3 DEF IInv, CallsOK, FreshIds, ThreadOK, CallOK, ScanOK, HandOK, NewId, Placing
<1> QED
  BY <1>3, <1>4, <1>5, ThreadStep

\* A cancellation ends an order that may end, and leaves its fills.
LEMMA CancelledKeeps ==
  ASSUME NEW o \in Orders, o.status \in { "acknowledged", "partially_filled", "submitted" }
  PROVE  /\ StatusAfter(o.status, "cancelled") = "cancelled"
         /\ "cancelled" \in Successors[o.status]
         /\ [o EXCEPT !.status = "cancelled"] \in Orders
         /\ [o EXCEPT !.status = "cancelled"].status = "cancelled"
         /\ [o EXCEPT !.status = "cancelled"].filled = o.filled
         /\ [o EXCEPT !.status = "cancelled"].quantity = o.quantity
         /\ [o EXCEPT !.status = "cancelled"].clid = o.clid
         /\ [o EXCEPT !.status = "cancelled"].side = o.side
         /\ [o EXCEPT !.status = "cancelled"].type = o.type
         /\ [o EXCEPT !.status = "cancelled"].tif = o.tif
<1> DEFINE p == [o EXCEPT !.status = "cancelled"]
<1>1. StatusAfter(o.status, "cancelled") = "cancelled" /\ "cancelled" \in Successors[o.status]
  BY DEF StatusAfter, CanTransitionTo, Successors
<1>2. o \in OrderSpecs /\ StatusAgreesWithFills(o.status, o.filled, o.quantity)
  BY OrderFields
<1>3. /\ p \in OrderSpecs /\ p.status = "cancelled" /\ p.filled = o.filled
      /\ p.quantity = o.quantity /\ p.clid = o.clid /\ p.side = o.side
      /\ p.type = o.type /\ p.tif = o.tif
  BY <1>2 DEF OrderSpecs, OrderStatuses
<1>4. StatusAgreesWithFills("cancelled", o.filled, o.quantity)
  BY <1>2 DEF StatusAgreesWithFills
<1> HIDE DEF p
<1>5. p \in Orders
  BY <1>3, <1>4 DEF Orders
<1> QED
  BY <1>1, <1>3, <1>5 DEF p

LEMMA CancelOrderDoes ==
  ASSUME IInv, NEW t \in Threads, NEW id \in OrderIds, CancelOrder(t, id)
  PROVE  /\ id \in Known /\ orders[id] \in Orders /\ Free
         /\ orders[id].status \in { "acknowledged", "partially_filled", "submitted" }
         /\ orders' = [orders EXCEPT ![id] = [orders[id] EXCEPT !.status = "cancelled"]]
         /\ Known' = Known
         /\ UNCHANGED << book, holder, pending, delivered, pc, call, scan, hand, booted >>
<1>1. /\ id \in Known /\ Free
      /\ orders[id].status \in { "acknowledged", "partially_filled", "submitted" }
      /\ UNCHANGED << book, holder, pending, delivered, pc, call, scan, hand, booted >>
      /\ orders' = [orders EXCEPT ![id].status = StatusAfter(@, "cancelled")]
  BY DEF CancelOrder
<1>2. orders[id] \in Orders
  BY <1>1 DEF IInv, CallsOK, SharedOK
<1>3. StatusAfter(orders[id].status, "cancelled") = "cancelled"
  BY <1>1, <1>2, CancelledKeeps
<1>4. orders' = [orders EXCEPT ![id] = [orders[id] EXCEPT !.status = "cancelled"]]
  BY <1>1, <1>3
<1> QED
  BY <1>1, <1>2, <1>4 DEF Known

LEMMA CancelOrderKeeps ==
  ASSUME IInv, NEW t \in Threads, NEW id \in OrderIds, CancelOrder(t, id)
  PROVE  CallsOK'
<1> DEFINE p == [orders[id] EXCEPT !.status = "cancelled"]
<1>1. /\ id \in Known /\ orders[id] \in Orders /\ Free
      /\ orders[id].status \in { "acknowledged", "partially_filled", "submitted" }
      /\ orders' = [orders EXCEPT ![id] = p]
      /\ Known' = Known
      /\ UNCHANGED << book, holder, pending, delivered, pc, call, scan, hand, booted >>
  BY CancelOrderDoes
<1>2. p \in Orders
  BY <1>1, CancelledKeeps
<1> HIDE DEF p
<1>3. SharedOK'
  BY <1>1, <1>2 DEF IInv, CallsOK, SharedOK
<1>4. \A u \in Threads : pc[u] # "matching"
  BY <1>1, HolderMatches
<1>5. Undisturbed(t)
  BY <1>1, <1>4 DEF Undisturbed
<1>6. ThreadOK(t)' /\ NewId(t)
  BY <1>1, <1>4 DEF IInv, CallsOK, FreshIds, ThreadOK, CallOK, ScanOK, HandOK, NewId, Placing
<1> QED
  BY <1>3, <1>5, <1>6, ThreadStep

(***************************************************************************)
(* Type correctness                                                        *)
(***************************************************************************)

LEMMA IInvInit == Init => IInv
<1> SUFFICES ASSUME Init
             PROVE  IInv
  OBVIOUS
<1>1. /\ Known = {} /\ orders = [x \in {} |-> NoCall]
      /\ book = [i \in Instruments |-> NoTop] /\ holder = NoThread /\ pending = << >>
      /\ delivered = [id \in OrderIds |-> 0] /\ pc = [t \in Threads |-> "idle"]
      /\ call = [t \in Threads |-> NoCall] /\ scan = [t \in Threads |-> NoScan]
      /\ hand = [t \in Threads |-> << >>] /\ boot = "load"
      /\ setback = [x \in {} |-> NoCall]
  BY DEF Init, Known
<1>2. NoTop \in Tops
  BY DEF NoTop, NoPrice, Tops
<1>3. SharedOK
  BY <1>1, <1>2 DEF SharedOK
<1>4. FreshIds
  BY <1>1 DEF FreshIds, Placing
<1>5. ASSUME NEW t \in Threads
      PROVE  ThreadOK(t)
  BY <1>1, EngineAssumption DEF ThreadOK, CallOK, ScanOK, HandOK, Placing
<1>6. BootOK
  <2>1. PICK S \in SUBSET OrderIds : stored \in [S -> Restorable]
    BY DEF Init
  <2>2. \A o \in Restorable : o \in Orders /\ Accepted(o)
    BY EngineAssumption DEF Orders, Accepted, Ordered, Successors
  <2>3. /\ DOMAIN stored \subseteq OrderIds /\ stored \in [DOMAIN stored -> Orders]
        /\ \A id \in DOMAIN stored : Accepted(stored[id])
    BY <2>1, <2>2
  <2> QED
    BY <1>1, <2>3 DEF BootOK, Placing
<1> QED
  BY <1>3, <1>4, <1>5, <1>6 DEF IInv, CallsOK

\* What is stored stays a record of an accepted order, and the ids of the calls
\* stay apart from it: while it is read nothing is added to it, and before that
\* only what the engine knows.
LEMMA BootOKKept ==
  ASSUME BootOK, UNCHANGED booted, Known \subseteq Known',
         \A id \in Known' : Accepted(orders'[id]),
         \A t \in Threads : Placing(t)' =>
           \/ call'[t].id \notin DOMAIN stored
           \/ Placing(t) /\ call'[t].id = call[t].id
  PROVE  BootOK'
<1>1. boot' = boot /\ stored' = stored /\ setback' = setback
  BY DEF booted
<1> QED
  BY <1>1 DEF BootOK

\* Orders that are inserted, filled or cancelled are accepted ones.
LEMMA OrdersAccepted ==
  ASSUME IInv, NEW t \in Threads,
         Insert(t) \/ \E id \in OrderIds : MatchOne(t, id) \/ CancelOrder(t, id)
  PROVE  Known \subseteq Known' /\ \A id \in Known' : Accepted(orders'[id])
<1>1. \A id \in Known : Accepted(orders[id])
  BY DEF IInv, BootOK
<1>2. ASSUME NEW id \in Known, NEW p, orders' = [orders EXCEPT ![id] = p], Accepted(p)
      PROVE  Known \subseteq Known' /\ \A x \in Known' : Accepted(orders'[x])
  BY <1>1, <1>2 DEF Known
<1>3. CASE Insert(t)
  <2>1. /\ pc[t] \in { "insert", "refuse" } /\ Placing(t)
        /\ orders' = [x \in Known \cup {call[t].id} |->
                        IF x = call[t].id THEN call[t].order ELSE orders[x]]
    BY <1>3 DEF Insert, Inserted, Placing
  <2>2. Accepted(call[t].order)
    BY <2>1, CallFields DEF IInv, CallsOK, ThreadOK, CallOK, Accepted, Successors
  <2> QED
    BY <1>1, <2>1, <2>2 DEF Known
<1>4. ASSUME NEW id \in OrderIds, MatchOne(t, id)
      PROVE  Known \subseteq Known' /\ \A x \in Known' : Accepted(orders'[x])
  <2>1. CASE orders' = orders
    BY <1>1, <2>1 DEF Known
  <2>2. CASE orders' # orders
    <3>1. PICK qty \in 1..Remaining(orders[id]) :
            orders' = [orders EXCEPT ![id] = AfterFill(orders[id], qty)]
      BY <1>4, <2>2, MatchOneDoes
    <3>2. /\ id \in Known /\ orders[id] \in Orders
          /\ orders[id].status \in { "acknowledged", "partially_filled" }
      BY <1>4, MatchOneDoes DEF Rests
    <3>3. /\ AfterFill(orders[id], qty).quantity = orders[id].quantity
          /\ AfterFill(orders[id], qty).status \in { "filled", "partially_filled" }
      BY <3>2, AfterFillKeeps
    <3>4. Accepted(AfterFill(orders[id], qty))
      BY <1>1, <3>2, <3>3 DEF Accepted, Successors
    <3> QED
      BY <1>2, <3>1, <3>2, <3>4
  <2> QED
    BY <2>1, <2>2
<1>5. ASSUME NEW id \in OrderIds, CancelOrder(t, id)
      PROVE  Known \subseteq Known' /\ \A x \in Known' : Accepted(orders'[x])
  <2> DEFINE p == [orders[id] EXCEPT !.status = "cancelled"]
  <2>1. /\ id \in Known /\ orders[id] \in Orders /\ orders' = [orders EXCEPT ![id] = p]
        /\ orders[id].status \in { "acknowledged", "partially_filled", "submitted" }
    BY <1>5, CancelOrderDoes
  <2>2. p.status = "cancelled" /\ p.quantity = orders[id].quantity
    BY <2>1, CancelledKeeps
  <2>3. Accepted(p)
    BY <1>1, <2>1, <2>2 DEF Accepted, Successors
  <2> HIDE DEF p
  <2> QED
    BY <1>2, <2>1, <2>3
<1> QED
  BY <1>3, <1>4, <1>5

\* The steps of the restore keep what it relies on.
LEMMA BootOKBooting ==
  ASSUME IInv, Boot \/ \E id \in OrderIds : SaveOrder(id)
  PROVE  BootOK'
<1>1. CASE LoadOrders
  <2>1. /\ boot' = "restore" /\ UNCHANGED << orders, pc, call, setback >>
        /\ DOMAIN stored' \subseteq DOMAIN stored
        /\ stored' = [x \in DOMAIN stored' |-> stored[x]]
    BY <1>1 DEF LoadOrders, Restrict
  <2>2. \A x \in DOMAIN stored' : stored'[x] = stored[x]
    BY <2>1
  <2>3. Known' = Known
    BY <2>1 DEF Known
  <2> QED
    BY <2>1, <2>2, <2>3 DEF IInv, BootOK, Placing
<1>2. CASE EndBoot
  <2>1. boot' = "done" /\ UNCHANGED << orders, pc, call, stored, setback >>
    BY <1>2 DEF EndBoot
  <2> QED
    BY <2>1 DEF IInv, BootOK, Placing, Known
<1>3. ASSUME NEW id \in OrderIds, RestoreOrder(id)
      PROVE  BootOK'
  <2>1. /\ id \in DOMAIN stored /\ stored[id] \in Orders /\ Accepted(stored[id])
        /\ Known' = Known \cup {id} /\ orders'[id] = stored[id]
        /\ \A x \in Known \ {id} : orders'[x] = orders[x]
        /\ stored' = [x \in DOMAIN stored \ {id} |-> stored[x]]
        /\ \/ /\ id \in Known
              /\ setback' = [x \in DOMAIN setback \cup {id} |->
                    IF x = id THEN [before |-> orders[id], after |-> stored[id]]
                              ELSE setback[x]]
           \/ UNCHANGED setback
        /\ UNCHANGED << pc, call, boot >>
    BY <1>3, RestoreOrderDoes
  <2>2. \A x \in Known' : Accepted(orders'[x])
    BY <2>1 DEF IInv, BootOK
  <2>3. /\ DOMAIN stored' = DOMAIN stored \ {id}
        /\ \A x \in DOMAIN stored' : stored'[x] = stored[x]
    BY <2>1
  <2>4. /\ DOMAIN setback' \subseteq Known'
        /\ setback' \in [DOMAIN setback' -> [before : Orders, after : Orders]]
    <3>1. id \in Known => orders[id] \in Orders
      BY DEF IInv, CallsOK, SharedOK
    <3> QED
      BY <2>1, <3>1 DEF IInv, BootOK
  <2>5. boot = "restore"
    BY <1>3 DEF RestoreOrder
  <2> QED
    BY <2>1, <2>2, <2>3, <2>4, <2>5 DEF IInv, BootOK, Placing
<1>4. ASSUME NEW id \in OrderIds, SaveOrder(id)
      PROVE  BootOK'
  <2>1. /\ id \in Known
        /\ stored' = [x \in DOMAIN stored \cup {id} |->
                        IF x = id THEN orders[id] ELSE stored[x]]
        /\ boot = "load" /\ UNCHANGED << orders, pc, call, boot, setback >>
    BY <1>4 DEF SaveOrder
  <2>2. orders[id] \in Orders /\ Accepted(orders[id])
    BY <2>1 DEF IInv, CallsOK, SharedOK, BootOK
  <2>3. /\ DOMAIN stored' = DOMAIN stored \cup {id}
        /\ \A x \in DOMAIN stored' : stored'[x] = IF x = id THEN orders[id] ELSE stored[x]
    BY <2>1
  <2>4. \A t \in Threads : Placing(t) => call[t].id # id
    BY <2>1 DEF IInv, CallsOK, FreshIds
  <2> QED
    BY <2>1, <2>2, <2>3, <2>4 DEF IInv, BootOK, Placing, Known
<1> QED
  BY <1>1, <1>2, <1>3, <1>4 DEF Boot

\* So do the steps of the callers.
LEMMA BootOKCalls ==
  ASSUME IInv, NEW t \in Threads,
         \/ Continue(t) \/ TakeFills(t)
         \/ \E i \in Instruments, top \in Ticks : SetBook(t, i, top)
         \/ \E id \in OrderIds, r \in Requests : PlaceCheck(t, id, r)
         \/ \E id \in OrderIds : CancelOrder(t, id)
  PROVE  BootOK'
<1>1. BootOK /\ \A id \in Known : Accepted(orders[id])
  BY DEF IInv, BootOK
<1>2. ASSUME Insert(t) \/ \E id \in OrderIds : MatchOne(t, id) \/ CancelOrder(t, id)
      PROVE  BootOK'
  <2>1. UNCHANGED booted
    BY <1>2 DEF Insert, MatchOne, CancelOrder
  <2>2. \A u \in Threads : Placing(u)' => Placing(u) /\ call'[u].id = call[u].id
    BY <1>2 DEF Insert, MatchOne, CancelOrder, Placing, IInv, CallsOK, SharedOK
  <2> QED
    BY <1>1, <1>2, <2>1, <2>2, OrdersAccepted, BootOKKept
<1>3. ASSUME NEW id \in OrderIds, NEW r \in Requests, PlaceCheck(t, id, r)
      PROVE  BootOK'
  <2>1. UNCHANGED << orders, booted >> /\ id \notin DOMAIN stored
    BY <1>3 DEF PlaceCheck
  <2>2. \A u \in Threads : Placing(u)' =>
          \/ call'[u].id = id
          \/ Placing(u) /\ call'[u].id = call[u].id
    <3>1. call'[t].id = id /\ \A u \in Threads \ {t} : pc'[u] = pc[u] /\ call'[u] = call[u]
      BY <1>3 DEF PlaceCheck, IInv, CallsOK, SharedOK
    <3> QED
      BY <3>1 DEF Placing
  <2> QED
    BY <1>1, <2>1, <2>2, BootOKKept DEF Known
<1>4. ASSUME \/ ReadTop(t) \/ TakeNow(t) \/ BeginMatch(t) \/ EndMatch(t) \/ Publish(t)
             \/ TakeFills(t) \/ \E i \in Instruments, top \in Ticks : SetBook(t, i, top)
      PROVE  BootOK'
  <2>1. UNCHANGED << orders, booted >>
    BY <1>4 DEF ReadTop, TakeNow, BeginMatch, EndMatch, Publish, TakeFills, SetBook
  <2>2. \A u \in Threads : Placing(u)' => Placing(u) /\ call'[u].id = call[u].id
    <3>1. CASE ReadTop(t)
      <4>1. \A u \in Threads \ {t} : pc'[u] = pc[u] /\ call'[u] = call[u]
        BY <3>1 DEF ReadTop, IInv, CallsOK, SharedOK
      <4>2. Placing(t) /\ call[t] \in Calls
        BY <3>1 DEF ReadTop, IInv, CallsOK, ThreadOK, CallOK, Placing
      <4>3. call'[t].id = call[t].id
        BY <3>1, <4>2 DEF ReadTop, IInv, CallsOK, SharedOK, Calls
      <4> QED
        BY <4>1, <4>2, <4>3 DEF Placing
    <3>2. CASE TakeNow(t)
      <4>1. \A u \in Threads \ {t} : pc'[u] = pc[u] /\ call'[u] = call[u]
        BY <3>2 DEF TakeNow, IInv, CallsOK, SharedOK
      <4>2. Placing(t)
        BY <3>2 DEF TakeNow, Placing
      <4>3. call'[t].id = call[t].id
        BY <3>2, TakeNowDoes DEF IInv, CallsOK, SharedOK
      <4> QED
        BY <4>1, <4>2, <4>3 DEF Placing
    <3>3. CASE \/ BeginMatch(t) \/ EndMatch(t) \/ Publish(t) \/ TakeFills(t)
               \/ \E i \in Instruments, top \in Ticks : SetBook(t, i, top)
      BY <3>3 DEF BeginMatch, EndMatch, Publish, TakeFills, SetBook, Placing,
                  IInv, CallsOK, SharedOK
    <3> QED
      BY <1>4, <3>1, <3>2, <3>3
  <2> QED
    BY <1>1, <2>1, <2>2, BootOKKept DEF Known
<1> QED
  BY <1>2, <1>3, <1>4 DEF Continue

\* The inductive invariant holds for any number of threads, with and without
\* calls while the engine is restored.
THEOREM InvariantHolds == Spec => []IInv
<1>1. ASSUME IInv, [Next]_vars
      PROVE  IInv'
  <2>1. CASE Boot \/ \E id \in OrderIds : SaveOrder(id)
    <3>1. CASE LoadOrders \/ EndBoot \/ \E id \in OrderIds : SaveOrder(id)
      <4>1. UNCHANGED << orders, book, holder, pending, delivered, pc, call, scan, hand >>
        BY <3>1 DEF LoadOrders, EndBoot, SaveOrder
      <4> QED
        BY <1>1, <2>1, <4>1, BootKeeps, BootOKBooting DEF IInv
    <3>2. CASE \E id \in OrderIds : RestoreOrder(id)
      BY <1>1, <2>1, <3>2, RestoreOrderKeeps, BootOKBooting DEF IInv
    <3> QED
      BY <2>1, <3>1, <3>2 DEF Boot
  <2>2. ASSUME NEW i \in Instruments, Tick(i)
        PROVE  IInv'
    BY <1>1, <2>2, SetBookKeeps, BootOKCalls DEF Tick, IInv
  <2>3. ASSUME NEW t \in Threads, Continue(t)
        PROVE  IInv'
    <3>1. CallsOK'
      BY <1>1, <2>3, ReadTopKeeps, TakeNowKeeps, InsertKeeps, BeginMatchKeeps,
         MatchOneKeeps, EndMatchKeeps, PublishKeeps DEF Continue
    <3> QED
      BY <1>1, <2>3, <3>1, BootOKCalls DEF IInv
  <2>4. ASSUME NEW t \in Threads, TakeFills(t)
        PROVE  IInv'
    BY <1>1, <2>4, TakeFillsKeeps, BootOKCalls DEF IInv
  <2>5. ASSUME NEW t \in Threads, NEW id \in OrderIds, NEW r \in Requests,
               PlaceCheck(t, id, r)
        PROVE  IInv'
    BY <1>1, <2>5, PlaceCheckKeeps, BootOKCalls DEF IInv
  <2>6. ASSUME NEW t \in Threads, NEW id \in OrderIds, CancelOrder(t, id)
        PROVE  IInv'
    BY <1>1, <2>6, CancelOrderKeeps, BootOKCalls DEF IInv
  <2>7. CASE UNCHANGED vars
    <3>1. /\ UNCHANGED << orders, book, holder, pending, delivered, pc, call, scan, hand >>
          /\ boot' = boot /\ stored' = stored /\ setback' = setback
      BY <2>7 DEF vars
    <3>2. BootOK'
      BY <1>1, <3>1 DEF IInv, BootOK, Placing, Known
    <3> QED
      BY <1>1, <3>1, <3>2, BootKeeps DEF IInv
  <2> QED
    BY <1>1, <2>1, <2>2, <2>3, <2>4, <2>5, <2>6, <2>7 DEF Next
<1> QED
  BY IInvInit, <1>1, PTL DEF Spec

\* Status and filled quantity of every order agree, and every thread's locals are
\* those of the step it is at, however the calls interleave.
THEOREM TypeCorrect == Spec => []TypeOK
<1>1. IInv => TypeOK
  BY DEF IInv, CallsOK, BootOK, SharedOK, ThreadOK, CallOK, ScanOK, TypeOK, Calls
<1> QED
  BY <1>1, InvariantHolds, PTL

(***************************************************************************)
(* The engine keeps the promise of a venue                                 *)
(***************************************************************************)

\* What the venue's specification sees of the orders.
Life == [l \in Lives |-> LifeOf(RecordOf(l))]

\* The life an order is in.
CurrentLife(id) == << id, IF id \in DOMAIN setback THEN "second" ELSE "first" >>

\* The venue's specification speaks of statuses in the terms of the order domain.
LEMMA VenueTerms ==
  /\ Venue!Successors = Successors
  /\ \A s, f, q : Venue!StatusAgreesWithFills(s, f, q) <=> StatusAgreesWithFills(s, f, q)
<1>1. Venue!Successors = Successors
  BY DEF Venue!Successors, Successors
<1>2. \A s, f, q : Venue!StatusAgreesWithFills(s, f, q) <=> StatusAgreesWithFills(s, f, q)
  BY DEF Venue!StatusAgreesWithFills, StatusAgreesWithFills
<1> QED
  BY <1>1, <1>2

\* A record that begins a life is one the venue may admit.
LEMMA Admitted ==
  ASSUME NEW l \in OrderIds \X { "first", "second" }, l \notin Lives,
         NEW o \in Orders, Accepted(o),
         Life' = [x \in Lives \cup {l} |-> IF x = l THEN LifeOf(o) ELSE Life[x]]
  PROVE  Venue!Next
<1>1. o.status \in Successors["submitted"] /\ o.quantity \in Ordered
  BY DEF Accepted
<1>2. DOMAIN Life = Lives /\ DOMAIN Life' = Lives \cup {l}
  BY DEF Life
<1>3. o.filled \in 0..o.quantity /\ StatusAgreesWithFills(o.status, o.filled, o.quantity)
  BY OrderFields DEF StatusAgreesWithFills
<1>4. Life' = [x \in DOMAIN Life \cup {l} |->
                 IF x = l THEN [status |-> o.status, filled |-> o.filled,
                                quantity |-> o.quantity]
                          ELSE Life[x]]
  BY <1>2 DEF LifeOf
<1>5. l \notin DOMAIN Life /\ DOMAIN Life' = DOMAIN Life \cup {l}
  BY <1>2
<1>6. \E q \in Ordered, s \in Venue!Successors["submitted"] : \E f \in 0..q :
        /\ Venue!StatusAgreesWithFills(s, f, q)
        /\ Life' = [x \in DOMAIN Life \cup {l} |->
                      IF x = l THEN [status |-> s, filled |-> f, quantity |-> q]
                               ELSE Life[x]]
  BY <1>1, <1>3, <1>4, VenueTerms
<1>7. Venue!Admit(l)
  BY <1>5, <1>6 DEF Venue!Admit, Life, LifeOf, Ordered
<1> QED
  BY <1>7 DEF Venue!Next

\* A life whose record changes takes a step the venue may take.
LEMMA Advanced ==
  ASSUME NEW l \in Lives, l \in OrderIds \X { "first", "second" },
         NEW r \in Orders, RecordOf(l) = r, NEW o \in Orders,
         o.status \in Successors[r.status], o.quantity = r.quantity,
         o.filled >= r.filled,
         Life' = [x \in Lives |-> IF x = l THEN LifeOf(o) ELSE Life[x]]
  PROVE  Venue!Next
<1>1. /\ o.filled \in r.filled .. r.quantity
      /\ StatusAgreesWithFills(o.status, o.filled, r.quantity)
  <2>1. /\ o.filled \in Nat /\ o.quantity \in Nat /\ r.filled \in Nat
        /\ StatusAgreesWithFills(o.status, o.filled, o.quantity)
    BY OrderFields
  <2> QED
    BY <2>1 DEF StatusAgreesWithFills
<1>2. Life[l] = LifeOf(r) /\ DOMAIN Life = Lives
  BY DEF Life
<1>3. [Life EXCEPT ![l].status = o.status, ![l].filled = o.filled]
        = [x \in Lives |-> IF x = l THEN LifeOf(o) ELSE Life[x]]
  <2>1. [LifeOf(r) EXCEPT !.status = o.status, !.filled = o.filled] = LifeOf(o)
    <3> DEFINE v == LifeOf(r)
    <3>1. [v EXCEPT !.status = o.status, !.filled = o.filled]
            = [x \in DOMAIN v |-> IF x = "status" THEN o.status
                                  ELSE IF x = "filled" THEN o.filled ELSE v[x]]
      <4> HIDE DEF v
      <4> QED
        OBVIOUS
    <3>2. [x \in DOMAIN v |-> IF x = "status" THEN o.status
                              ELSE IF x = "filled" THEN o.filled ELSE v[x]]
            = LifeOf(o)
      BY DEF LifeOf
    <3> QED
      BY <3>1, <3>2
  <2>2. [Life EXCEPT ![l].status = o.status, ![l].filled = o.filled]
          = [x \in Lives |->
               IF x = l THEN [Life[x] EXCEPT !.status = o.status, !.filled = o.filled]
                        ELSE Life[x]]
    BY DEF Life
  <2> QED
    BY <1>2, <2>1, <2>2
<1>4. /\ Life[l].status = r.status /\ Life[l].filled = r.filled
      /\ Life[l].quantity = r.quantity
  BY <1>2 DEF LifeOf
<1>5. /\ l \in DOMAIN Life
      /\ \E s \in Venue!Successors[Life[l].status],
            f \in Life[l].filled .. Life[l].quantity :
           /\ Venue!StatusAgreesWithFills(s, f, Life[l].quantity)
           /\ Life' = [Life EXCEPT ![l].status = s, ![l].filled = f]
  BY <1>1, <1>2, <1>3, <1>4, VenueTerms
<1>6. Venue!Advance(l)
  BY <1>5 DEF Venue!Advance, Life, LifeOf
<1> QED
  BY <1>6 DEF Venue!Next

\* The lives of the orders are of the ids there are, and each id is in one.
LEMMA LivesType ==
  ASSUME IInv
  PROVE  /\ Lives \subseteq OrderIds \X { "first", "second" }
         /\ \A l \in Lives : l = << l[1], l[2] >> /\ l[1] \in Known
         /\ \A id \in Known : /\ CurrentLife(id) \in Lives
                              /\ RecordOf(CurrentLife(id)) = orders[id]
         /\ \A l \in Lives : l # CurrentLife(l[1]) =>
              l[2] = "first" /\ l[1] \in DOMAIN setback
<1>1. Known \subseteq OrderIds /\ DOMAIN setback \subseteq Known
  BY DEF IInv, CallsOK, SharedOK, BootOK
<1>2. \A l \in Lives : /\ l = << l[1], l[2] >> /\ l[1] \in Known
                       /\ l[2] # "first" => l[1] \in DOMAIN setback
  BY <1>1 DEF Lives
<1> QED
  BY <1>1, <1>2 DEF Lives, CurrentLife, RecordOf

\* An order that joins begins its first life.
LEMMA OrderAdmitted ==
  ASSUME IInv, NEW id \in OrderIds \ Known, NEW o \in Orders, Accepted(o),
         orders' = [x \in Known \cup {id} |-> IF x = id THEN o ELSE orders[x]],
         setback' = setback
  PROVE  Venue!Next
<1> DEFINE l == << id, "first" >>
<1>1. Known' = Known \cup {id} /\ orders'[id] = o /\ \A x \in Known : orders'[x] = orders[x]
  BY DEF Known
<1>2. DOMAIN setback \subseteq Known
  BY DEF IInv, BootOK
<1>3. l \in OrderIds \X { "first", "second" } /\ l \notin Lives
  BY <1>2 DEF Lives
<1>4. Lives' = Lives \cup {l}
  BY <1>1 DEF Lives
<1>5. RecordOf(l)' = o
  BY <1>1, <1>2 DEF RecordOf
<1>6. \A x \in Lives : RecordOf(x)' = RecordOf(x)
  BY <1>1, LivesType DEF RecordOf
<1>7. Life' = [x \in Lives \cup {l} |-> IF x = l THEN LifeOf(o) ELSE Life[x]]
  <2>1. Life' = [x \in Lives \cup {l} |-> LifeOf(RecordOf(x)')]
    BY <1>4 DEF Life, LifeOf
  <2>2. \A x \in Lives : Life[x] = LifeOf(RecordOf(x))
    BY DEF Life
  <2> HIDE DEF l
  <2> QED
    BY <1>3, <1>5, <1>6, <2>1, <2>2
<1> HIDE DEF l
<1> QED
  BY <1>3, <1>7, Admitted

\* An order that changes goes on with the life it is in.
LEMMA OrderAdvanced ==
  ASSUME IInv, NEW id \in Known, NEW o \in Orders,
         o.status \in Successors[orders[id].status],
         o.quantity = orders[id].quantity, o.filled >= orders[id].filled,
         orders' = [orders EXCEPT ![id] = o], setback' = setback
  PROVE  Venue!Next
<1>1. /\ orders \in [Known -> Orders] /\ orders[id] \in Orders
      /\ Known \subseteq OrderIds
  BY DEF IInv, CallsOK, SharedOK
<1>2. /\ Known' = Known /\ orders'[id] = o
      /\ \A x \in Known \ {id} : orders'[x] = orders[x]
  BY <1>1 DEF Known
<1>3. PICK l \in Lives : /\ l = CurrentLife(id) /\ l \in OrderIds \X { "first", "second" }
                        /\ RecordOf(l) = orders[id]
  BY LivesType
<1>4. Lives' = Lives
  BY <1>2 DEF Lives
<1>5. RecordOf(l)' = o
  BY <1>2, <1>3 DEF RecordOf, CurrentLife
<1>6. \A x \in Lives \ {l} : RecordOf(x)' = RecordOf(x)
  <2>1. ASSUME NEW x \in Lives \ {l}
        PROVE  RecordOf(x)' = RecordOf(x)
    <3>1. x[1] \in Known
      BY <2>1, LivesType
    <3>2. CASE x[1] = id
      <4>1. x[2] = "first" /\ x[1] \in DOMAIN setback
        BY <1>3, <2>1, <3>2, LivesType
      <4> QED
        BY <4>1 DEF RecordOf
    <3>3. CASE x[1] # id
      BY <1>2, <3>1, <3>3 DEF RecordOf
    <3> QED
      BY <3>2, <3>3
  <2> QED
    BY <2>1
<1>7. Life' = [x \in Lives |-> IF x = l THEN LifeOf(o) ELSE Life[x]]
  <2>1. Life' = [x \in Lives |-> LifeOf(RecordOf(x)')]
    BY <1>4 DEF Life, LifeOf
  <2>2. \A x \in Lives : Life[x] = LifeOf(RecordOf(x))
    BY DEF Life
  <2> QED
    BY <1>5, <1>6, <2>1, <2>2
<1> QED
  BY <1>1, <1>3, <1>7, Advanced

\* An order a restore sets back ends one life where it stood and begins another
\* with the record that was stored.
LEMMA OrderSetBack ==
  ASSUME IInv, NEW id \in Known, RestoreOrder(id)
  PROVE  Venue!Next
<1> DEFINE l == << id, "second" >>
           o == stored[id]
<1>1. /\ id \in DOMAIN stored /\ o \in Orders /\ Accepted(o)
      /\ Known' = Known \cup {id} /\ orders'[id] = o
      /\ \A x \in Known \ {id} : orders'[x] = orders[x]
      /\ setback' = [x \in DOMAIN setback \cup {id} |->
            IF x = id THEN [before |-> orders[id], after |-> o] ELSE setback[x]]
  <2>1. id \in OrderIds
    BY DEF IInv, CallsOK, SharedOK
  <2> QED
    BY <2>1, RestoreOrderDoes
<1>2. Known' = Known /\ id \in OrderIds /\ id \notin DOMAIN setback
  BY <1>1 DEF IInv, CallsOK, SharedOK, BootOK
<1>3. l \in OrderIds \X { "first", "second" } /\ l \notin Lives
  BY <1>2 DEF Lives
<1>4. /\ DOMAIN setback' = DOMAIN setback \cup {id}
      /\ setback'[id].before = orders[id]
      /\ \A x \in DOMAIN setback : setback'[x] = setback[x]
  BY <1>1, <1>2
<1>5. Lives' = Lives \cup {l}
  BY <1>2, <1>4 DEF Lives
<1>6. RecordOf(l)' = o
  BY <1>1 DEF RecordOf
<1>7. \A x \in Lives : RecordOf(x)' = RecordOf(x)
  <2>1. ASSUME NEW x \in Lives
        PROVE  RecordOf(x)' = RecordOf(x)
    <3>1. x = << x[1], x[2] >> /\ x[1] \in Known /\ x[2] \in { "first", "second" }
          /\ (x[2] = "second" => x[1] \in DOMAIN setback)
      BY DEF Lives, IInv, BootOK
    <3>2. CASE x[1] = id
      BY <1>2, <1>4, <3>1, <3>2 DEF RecordOf
    <3>3. CASE x[1] # id
      BY <1>1, <1>4, <3>1, <3>3 DEF RecordOf
    <3> QED
      BY <3>2, <3>3
  <2> QED
    BY <2>1
<1>8. Life' = [x \in Lives \cup {l} |-> IF x = l THEN LifeOf(o) ELSE Life[x]]
  <2>1. Life' = [x \in Lives \cup {l} |-> LifeOf(RecordOf(x)')]
    BY <1>5 DEF Life, LifeOf
  <2>2. \A x \in Lives : Life[x] = LifeOf(RecordOf(x))
    BY DEF Life
  <2> HIDE DEF l, o
  <2> QED
    BY <1>3, <1>6, <1>7, <2>1, <2>2
<1> HIDE DEF l, o
<1> QED
  BY <1>1, <1>3, <1>8, Admitted

\* A step that leaves the orders alone is a stutter of the venue.
LEMMA NothingAdvanced ==
  ASSUME orders' = orders, setback' = setback
  PROVE  Life' = Life
<1>1. Lives' = Lives /\ \A x : RecordOf(x)' = RecordOf(x)
  BY DEF Lives, RecordOf, Known
<1> QED
  BY <1>1 DEF Life, LifeOf

LEMMA RefinementStep ==
  ASSUME IInv, [Next]_vars
  PROVE  Venue!Next \/ Life' = Life
<1>1. ASSUME NEW id \in OrderIds, RestoreOrder(id)
      PROVE  Venue!Next
  <2>1. CASE id \in Known
    BY <1>1, <2>1, OrderSetBack
  <2>2. CASE id \notin Known
    <3>1. /\ stored[id] \in Orders /\ Accepted(stored[id]) /\ setback' = setback
          /\ orders' = [x \in Known \cup {id} |->
                          IF x = id THEN stored[id] ELSE orders[x]]
      BY <1>1, <2>2, RestoreOrderDoes
    <3> QED
      BY <2>2, <3>1, OrderAdmitted
  <2> QED
    BY <2>1, <2>2
<1>2. ASSUME NEW t \in Threads, Insert(t)
      PROVE  Venue!Next
  <2>1. /\ pc[t] \in { "insert", "refuse" } /\ Placing(t)
        /\ orders' = [x \in Known \cup {call[t].id} |->
                        IF x = call[t].id THEN call[t].order ELSE orders[x]]
    BY <1>2 DEF Insert, Inserted, Placing
  <2>2. /\ call[t].id \in OrderIds /\ call[t].order \in Orders
        /\ call[t].order.quantity \in Ordered /\ call[t].id \notin Known
    BY <2>1, CallFields
  <2>3. Accepted(call[t].order)
    BY <2>1, <2>2 DEF IInv, CallsOK, ThreadOK, CallOK, Successors, Accepted
  <2>4. setback' = setback
    BY <1>2 DEF Insert, booted
  <2> QED
    BY <2>1, <2>2, <2>3, <2>4, OrderAdmitted
<1>3. ASSUME NEW t \in Threads, NEW id \in OrderIds, MatchOne(t, id)
      PROVE  Venue!Next \/ (orders' = orders /\ setback' = setback)
  <2> setback' = setback
    BY <1>3 DEF MatchOne, booted
  <2>1. CASE orders' = orders
    BY <2>1
  <2>2. CASE orders' # orders
    <3>1. PICK qty \in 1..Remaining(orders[id]) :
            orders' = [orders EXCEPT ![id] = AfterFill(orders[id], qty)]
      BY <1>3, <2>2, MatchOneDoes
    <3>2. /\ id \in Known /\ orders[id] \in Orders
          /\ orders[id].status \in { "acknowledged", "partially_filled" }
      BY <1>3, MatchOneDoes DEF Rests
    <3> DEFINE o == orders[id]
               p == AfterFill(o, qty)
    <3>3. /\ p \in Orders /\ p.quantity = o.quantity /\ p.filled = o.filled + qty
          /\ p.status \in { "filled", "partially_filled" }
      BY <3>2, AfterFillKeeps
    <3>4. p.filled >= o.filled
      BY <3>2, <3>3, OrderFields
    <3> HIDE DEF p
    <3>5. p.status \in Successors[o.status]
      BY <3>2, <3>3 DEF Successors
    <3>6. orders' = [orders EXCEPT ![id] = p]
      BY <3>1 DEF p
    <3> QED
      BY <3>2, <3>3, <3>4, <3>5, <3>6, OrderAdvanced
  <2> QED
    BY <2>1, <2>2
<1>4. ASSUME NEW t \in Threads, NEW id \in OrderIds, CancelOrder(t, id)
      PROVE  Venue!Next
  <2> DEFINE p == [orders[id] EXCEPT !.status = "cancelled"]
  <2> setback' = setback
    BY <1>4 DEF CancelOrder, booted
  <2>1. /\ id \in Known /\ orders[id] \in Orders
        /\ orders[id].status \in { "acknowledged", "partially_filled", "submitted" }
        /\ orders' = [orders EXCEPT ![id] = p]
    BY <1>4, CancelOrderDoes
  <2>2. /\ p \in Orders /\ p.status \in Successors[orders[id].status]
        /\ p.quantity = orders[id].quantity /\ p.filled = orders[id].filled
    BY <2>1, CancelledKeeps
  <2>3. p.filled >= orders[id].filled
    BY <2>1, <2>2, OrderFields
  <2> HIDE DEF p
  <2> QED
    BY <2>1, <2>2, <2>3, OrderAdvanced
<1>5. ASSUME NEW t \in Threads,
             ReadTop(t) \/ TakeNow(t) \/ BeginMatch(t) \/ EndMatch(t) \/ Publish(t)
               \/ TakeFills(t)
      PROVE  orders' = orders /\ setback' = setback
  BY <1>5 DEF ReadTop, TakeNow, BeginMatch, EndMatch, Publish, TakeFills, booted
<1>6. ASSUME NEW t \in Threads, NEW id \in OrderIds, NEW r \in Requests,
             PlaceCheck(t, id, r)
      PROVE  orders' = orders /\ setback' = setback
  BY <1>6 DEF PlaceCheck, booted
<1>7. LoadOrders \/ EndBoot \/ (\E id \in OrderIds : SaveOrder(id))
        \/ (\E i \in Instruments : Tick(i)) \/ UNCHANGED vars
      => orders' = orders /\ setback' = setback
  BY DEF LoadOrders, EndBoot, SaveOrder, Tick, SetBook, booted, vars
<1> QED
  BY <1>1, <1>2, <1>3, <1>4, <1>5, <1>6, <1>7, NothingAdvanced DEF Next, Boot, Continue

\* In each life every order of the engine moves along the state machine of the
\* order domain, its fills never shrink and never pass what was ordered, and a
\* terminal order is frozen: PaperEngine implements OrderLifecycle, however the
\* calls and the restore interleave.
THEOREM LifecycleKept == Spec => OrderLifecycleKept
<1>1. Init => Venue!Init
  <2>1. Init => Lives = {}
    BY DEF Init, Known, Lives
  <2> QED
    BY <2>1 DEF Venue!Init
<1>2. IInv /\ [Next]_vars => [Venue!Next]_Life
  BY RefinementStep
<1> QED
  BY <1>1, <1>2, InvariantHolds, PTL DEF Spec, OrderLifecycleKept, Venue!Spec, Life

(* Calls that wait for the restore: nothing is set back, and the orders have one
   life each. *)
Waited ==
  /\ DOMAIN setback = {}
  /\ boot # "done" => /\ \A t \in Threads : pc[t] = "idle"
                      /\ Known \cap DOMAIN stored = {}
  /\ boot = "load" => Known = {}

\* Until such a restore has ended, nothing else happens.
LEMMA WaitedCases ==
  ASSUME IInv, Waited, ~ EarlyCalls, [Next]_vars
  PROVE  \/ boot # "done" /\ \E id \in OrderIds : RestoreOrder(id)
         \/ boot # "done" /\ LoadOrders
         \/ boot # "done" /\ EndBoot
         \/ boot = "done" /\ UNCHANGED booted
         \/ UNCHANGED vars
<1>1. ASSUME NEW id \in OrderIds, SaveOrder(id)
      PROVE  FALSE
  BY <1>1 DEF Waited, SaveOrder
<1>2. ASSUME NEW t \in Threads,
             \/ Continue(t) \/ TakeFills(t)
             \/ \E i \in Instruments, top \in Ticks : SetBook(t, i, top)
             \/ \E id \in OrderIds, r \in Requests : PlaceCheck(t, id, r)
             \/ \E id \in OrderIds : CancelOrder(t, id)
      PROVE  boot = "done" /\ UNCHANGED booted
  <2>1. UNCHANGED booted
    BY <1>2 DEF Continue, ReadTop, TakeNow, Insert, BeginMatch, MatchOne, EndMatch,
                Publish, TakeFills, SetBook, PlaceCheck, CancelOrder
  <2>2. pc[t] # "idle" \/ Ready(t)
    BY <1>2 DEF Continue, ReadTop, TakeNow, Insert, BeginMatch, MatchOne, EndMatch,
                Publish, TakeFills, SetBook, PlaceCheck, CancelOrder
  <2> QED
    BY <2>1, <2>2 DEF Waited, Ready
<1>3. Boot => boot # "done" /\ (LoadOrders \/ EndBoot \/ \E id \in OrderIds : RestoreOrder(id))
  BY DEF Boot, LoadOrders, EndBoot, RestoreOrder
<1> QED
  BY <1>1, <1>2, <1>3 DEF Next, Tick

LEMMA WaitedHolds ==
  ASSUME ~ EarlyCalls
  PROVE  Spec => []Waited
<1>1. Init => Waited
  BY DEF Init, Waited, Known
<1>2. ASSUME IInv, Waited, [Next]_vars
      PROVE  Waited'
  <2>1. ASSUME NEW id \in OrderIds, RestoreOrder(id)
        PROVE  Waited'
    <3>1. boot = "restore" /\ boot' = boot /\ UNCHANGED pc
      BY <2>1 DEF RestoreOrder
    <3>2. id \notin Known
      BY <1>2, <2>1, <3>1, RestoreOrderDoes DEF Waited
    <3>3. /\ setback' = setback /\ Known' = Known \cup {id}
          /\ DOMAIN stored' = DOMAIN stored \ {id}
      BY <1>2, <2>1, <3>2, RestoreOrderDoes
    <3> QED
      BY <1>2, <3>1, <3>3 DEF Waited
  <2>2. CASE LoadOrders
    BY <1>2, <2>2 DEF Waited, LoadOrders, Restrict, Known
  <2>3. CASE EndBoot
    BY <1>2, <2>3 DEF Waited, EndBoot, Known
  <2>4. CASE boot = "done" /\ UNCHANGED booted
    BY <1>2, <2>4 DEF Waited, booted
  <2>5. CASE UNCHANGED vars
    BY <1>2, <2>5 DEF Waited, vars, Known
  <2> QED
    BY <1>2, <2>1, <2>2, <2>3, <2>4, <2>5, WaitedCases
<1> QED
  BY <1>1, <1>2, InvariantHolds, PTL DEF Spec

\* When calls wait for the restore, as in the demo process, it never meets an order
\* it knows: no order is set back, and FillsConserved and OrderLifecycleKept are
\* about every order's one life.
THEOREM NothingSetBack == ~ EarlyCalls => (Spec => [](DOMAIN setback = {}))
<1> SUFFICES ASSUME ~ EarlyCalls
             PROVE  Spec => [](DOMAIN setback = {})
  OBVIOUS
<1>1. Waited => DOMAIN setback = {}
  BY DEF Waited
<1>2. Spec => []Waited
  BY WaitedHolds
<1> QED
  BY <1>1, <1>2, PTL

(***************************************************************************)
(* No fill is lost or counted twice                                        *)
(***************************************************************************)

\* What each fill of a sequence counts for an order.
Counted(fills, id) ==
  [n \in DOMAIN fills |-> IF fills[n].order = id THEN fills[n].quantity ELSE 0]

LEMMA CountedType ==
  ASSUME NEW fills \in Seq(Fills), NEW id
  PROVE  /\ DOMAIN fills = 1..Len(fills) /\ Len(fills) \in Nat
         /\ Counted(fills, id) \in [1..Len(fills) -> Int]
<1>1. DOMAIN fills = 1..Len(fills) /\ Len(fills) \in Nat
  BY LenProperties
<1>2. \A n \in 1..Len(fills) : fills[n] \in Fills
  BY ElementOfSeq
<1>3. \A n \in 1..Len(fills) : fills[n].quantity \in Int
  BY <1>2 DEF Fills
<1> QED
  BY <1>1, <1>3 DEF Counted

\* One fill more counts for its order.
LEMMA FilledInAppend ==
  ASSUME NEW fills \in Seq(Fills), NEW f \in Fills, NEW id
  PROVE  FilledIn(Append(fills, f), id)
           = FilledIn(fills, id) + (IF f.order = id THEN f.quantity ELSE 0)
<1> DEFINE more == Append(fills, f)
           n == Len(fills)
<1>1. /\ more \in Seq(Fills) /\ Len(more) = n + 1
      /\ \A k \in 1..n : more[k] = fills[k]
      /\ more[n + 1] = f
  BY AppendProperties, LenProperties
<1> HIDE DEF more
<1>2. /\ DOMAIN fills = 1..n /\ n \in Nat /\ DOMAIN more = 1..(n + 1)
      /\ Counted(fills, id) \in [1..n -> Int]
      /\ Counted(more, id) \in [1..(n + 1) -> Int]
  BY <1>1, CountedType
<1> HIDE DEF n
<1>3. /\ \A k \in 1..n : Counted(more, id)[k] = Counted(fills, id)[k]
      /\ Counted(more, id)[n + 1] = IF f.order = id THEN f.quantity ELSE 0
  BY <1>1, <1>2 DEF Counted
<1>4. SumFunction(Counted(more, id))
        = SumFunction(Counted(fills, id)) + Counted(more, id)[n + 1]
  BY <1>2, <1>3, SumAppend
<1>5. /\ FilledIn(more, id) = SumFunction(Counted(more, id))
      /\ FilledIn(fills, id) = SumFunction(Counted(fills, id))
  BY DEF FilledIn, Counted
<1> QED
  BY <1>3, <1>4, <1>5 DEF more

\* The fills of two sequences count together what each counts.
LEMMA FilledInJoined ==
  ASSUME NEW p \in Seq(Fills), NEW h \in Seq(Fills), NEW id
  PROVE  FilledIn(p \o h, id) = FilledIn(p, id) + FilledIn(h, id)
<1> DEFINE j == p \o h
           a == Len(p)
           b == Len(h)
<1>1. /\ j \in Seq(Fills) /\ DOMAIN j = 1..(a + b) /\ a \in Nat /\ b \in Nat
      /\ DOMAIN p = 1..a /\ DOMAIN h = 1..b
      /\ \A n \in 1..a : j[n] = p[n]
      /\ \A n \in 1..b : j[a + n] = h[n]
  BY FillsJoined
<1>2. Counted(j, id) \in [1..(a + b) -> Int]
  <2>1. Counted(j, id) \in [1..Len(j) -> Int] /\ DOMAIN j = 1..Len(j)
    BY <1>1, CountedType
  <2> QED
    BY <1>1, <2>1
<1> HIDE DEF j, a, b
<1>3. [k \in 1..a |-> Counted(j, id)[k]] = Counted(p, id)
  <2>1. \A k \in 1..a : k \in 1..(a + b)
    BY <1>1
  <2> QED
    BY <1>1, <2>1 DEF Counted
<1>4. [k \in 1..b |-> Counted(j, id)[a + k]] = Counted(h, id)
  <2>1. \A k \in 1..b : a + k \in 1..(a + b)
    BY <1>1
  <2> QED
    BY <1>1, <2>1 DEF Counted
<1>5. SumFunction(Counted(j, id))
        = SumFunction([k \in 1..a |-> Counted(j, id)[k]])
            + SumFunction([k \in 1..b |-> Counted(j, id)[a + k]])
  BY <1>1, <1>2, SumSplit
<1>6. \A fills : FilledIn(fills, id) = SumFunction(Counted(fills, id))
  BY DEF FilledIn, Counted
<1> QED
  BY <1>3, <1>4, <1>5, <1>6 DEF j

LEMMA NothingFilledIn ==
  << >> \in Seq(Fills) /\ \A id : FilledIn(<< >>, id) = 0
<1>1. << >> \in Seq(Fills) /\ DOMAIN << >> = {}
  OBVIOUS
<1> QED
  BY <1>1, FilledInType

\* What each thread has in hand of an order.
Held(id) == [t \in Threads |-> FilledIn(hand[t], id)]

LEMMA HeldType ==
  ASSUME IInv, NEW id
  PROVE  /\ Held(id) \in [Threads -> Int] /\ SumFunction(Held(id)) \in Nat
         /\ (\A t \in Threads : FilledIn(hand[t], id) = 0) => SumFunction(Held(id)) = 0
         /\ FilledIn(pending, id) \in Nat
<1>1. \A t \in Threads : FilledIn(hand[t], id) \in Nat
  BY FilledInType DEF IInv, CallsOK, SharedOK
<1>2. /\ Held(id) \in [Threads -> Int] /\ \A t \in Threads : Held(id)[t] >= 0
      /\ \A t \in Threads : Held(id)[t] = FilledIn(hand[t], id)
  BY <1>1 DEF Held
<1>3. FilledIn(pending, id) \in Nat
  BY FilledInType DEF IInv, CallsOK, SharedOK
<1>4. /\ SumFunction(Held(id)) \in Int /\ SumFunction(Held(id)) >= 0
      /\ (\A t \in Threads : Held(id)[t] = 0) => SumFunction(Held(id)) = 0
  BY <1>2, EngineAssumption, SumType
<1> QED
  BY <1>2, <1>3, <1>4

\* What changes in one hand changes the sum of all hands by as much.
LEMMA HeldChange ==
  ASSUME IInv, NEW t \in Threads, NEW h \in Seq(Fills), hand' = [hand EXCEPT ![t] = h],
         NEW id
  PROVE  SumFunction(Held(id))'
           = SumFunction(Held(id)) - FilledIn(hand[t], id) + FilledIn(h, id)
<1>1. Held(id) \in [Threads -> Int] /\ FilledIn(h, id) \in Nat
  BY HeldType, FilledInType
<1>2. /\ Held(id)' = [u \in Threads |-> FilledIn(hand'[u], id)]
      /\ hand'[t] = h /\ \A u \in Threads \ {t} : hand'[u] = hand[u]
  BY DEF Held, IInv, CallsOK, SharedOK
<1>3. Held(id)' = [Held(id) EXCEPT ![t] = FilledIn(h, id)]
  <2>1. \A u \in Threads :
          FilledIn(hand'[u], id) = IF u = t THEN FilledIn(h, id) ELSE FilledIn(hand[u], id)
    BY <1>2
  <2>2. [Held(id) EXCEPT ![t] = FilledIn(h, id)]
          = [u \in Threads |-> IF u = t THEN FilledIn(h, id) ELSE FilledIn(hand[u], id)]
    BY DEF Held
  <2> QED
    BY <1>2, <2>1, <2>2
<1> DEFINE f == Held(id)
           g == Held(id)'
<1>4. f[t] = FilledIn(hand[t], id)
  BY DEF Held
<1>5. g = [f EXCEPT ![t] = FilledIn(h, id)] /\ f \in [Threads -> Int]
  BY <1>1, <1>3
<1> HIDE DEF f, g
<1>6. DifferAt(Threads, t, f, g) /\ g[t] = FilledIn(h, id)
  BY <1>1, <1>5, EngineAssumption DEF DifferAt
<1>7. SumFunction(g) = SumFunction(f) - f[t] + g[t]
  BY <1>6, SumChange
<1> QED
  BY <1>4, <1>6, <1>7 DEF f, g

\* Nothing is published or collected of an order before it is inserted, and in no
\* hand are fills of it but in that of the call that is to insert it.
LEMMA NoneYet ==
  ASSUME IInv, NEW id, id \notin Known
  PROVE  /\ FilledIn(pending, id) = 0
         /\ \A t \in Threads : (pc[t] = "insert" => call[t].id # id) =>
              FilledIn(hand[t], id) = 0
<1>1. pending \in Seq(Fills) /\ \A t \in Threads : hand[t] \in Seq(Fills)
  BY DEF IInv, CallsOK, SharedOK
<1>2. \A n \in DOMAIN pending : pending[n].order # id
  BY DEF IInv, CallsOK, SharedOK
<1>3. ASSUME NEW t \in Threads, pc[t] = "insert" => call[t].id # id
      PROVE  \A n \in DOMAIN hand[t] : hand[t][n].order # id
  BY <1>3 DEF IInv, CallsOK, ThreadOK, HandOK
<1> QED
  BY <1>1, <1>2, <1>3, FilledInType

\* What an order says it has filled, and what it was made to forget, is accounted
\* for outside the engine, in pending_fills or in a hand.
Balanced(id) ==
  orders[id].filled + TakenBack(id) = delivered[id] + FilledIn(pending, id) + SumFunction(Held(id))

\* FillsConserved, with what is on the way into the books: a call that is to insert
\* its order has the fills of it in hand, and nothing else accounts for them.
Accounts ==
  /\ \A t \in Threads :
       pc[t] = "insert" => FilledIn(hand[t], call[t].id) = call[t].order.filled
  /\ \A id \in OrderIds \ Known : delivered[id] = 0
  /\ \A id \in Known : Balanced(id)

\* Nothing is taken back of an order that is new, and only a restore takes back.
LEMMA TakenBackType ==
  ASSUME IInv
  PROVE  /\ \A id \in Known : TakenBack(id) \in Int
         /\ \A id : id \notin DOMAIN setback => TakenBack(id) = 0
         /\ \A id : id \notin Known => TakenBack(id) = 0
         /\ setback' = setback => \A id : TakenBack(id)' = TakenBack(id)
<1>1. DOMAIN setback \subseteq Known
  BY DEF IInv, BootOK
<1>2. ASSUME NEW id \in DOMAIN setback
      PROVE  setback[id].before.filled \in Nat /\ setback[id].after.filled \in Nat
  <2>1. setback[id].before \in Orders /\ setback[id].after \in Orders
    BY DEF IInv, BootOK
  <2> QED
    BY <2>1, OrderFields
<1>3. \A id : TakenBack(id) \in Int
  BY <1>2 DEF TakenBack
<1> QED
  BY <1>1, <1>3 DEF TakenBack

\* A step that makes, moves and accounts for no fill.
LEMMA AccountsUntouched ==
  ASSUME IInv, Accounts, UNCHANGED << hand, delivered, pending, setback >>, Known' = Known,
         \A id \in Known : orders'[id].filled = orders[id].filled,
         \A t \in Threads : pc'[t] = "insert" => pc[t] = "insert" /\ call'[t] = call[t]
  PROVE  Accounts'
<1>1. \A id : Held(id)' = Held(id)
  BY DEF Held
<1>2. \A id \in Known : Balanced(id)'
  BY <1>1, TakenBackType DEF Accounts, Balanced
<1> QED
  BY <1>2 DEF Accounts

LEMMA RestoreOrderAccounts ==
  ASSUME IInv, Accounts, NEW id \in OrderIds, RestoreOrder(id)
  PROVE  Accounts'
<1> DEFINE o == stored[id]
<1>1. /\ id \in DOMAIN stored /\ o \in Orders
      /\ Known' = Known \cup {id} /\ orders'[id] = o
      /\ \A x \in Known \ {id} : orders'[x] = orders[x]
      /\ \A t \in Threads : Placing(t) => call[t].id # id
      /\ \/ /\ id \in Known /\ UNCHANGED delivered
            /\ setback' = [x \in DOMAIN setback \cup {id} |->
                  IF x = id THEN [before |-> orders[id], after |-> o] ELSE setback[x]]
         \/ /\ id \notin Known /\ UNCHANGED setback
            /\ delivered' = [delivered EXCEPT ![id] = o.filled]
      /\ UNCHANGED << pending, pc, call, hand >>
  BY RestoreOrderDoes
<1>2. o.filled \in Nat /\ id \notin DOMAIN setback
  BY <1>1, OrderFields DEF IInv, BootOK
<1> HIDE DEF o
<1>3. \A x : Held(x)' = Held(x)
  BY <1>1 DEF Held
<1>4. \A t \in Threads : pc[t] = "insert" => call[t].id # id
  BY <1>1 DEF Placing
<1>5. \A x \in Known : x \in OrderIds
  BY DEF IInv, CallsOK, SharedOK
<1>6. CASE id \in Known
  <2>1. /\ UNCHANGED delivered /\ Known' = Known
        /\ setback' = [x \in DOMAIN setback \cup {id} |->
              IF x = id THEN [before |-> orders[id], after |-> o] ELSE setback[x]]
    BY <1>1, <1>6
  <2>2. /\ DOMAIN setback' = DOMAIN setback \cup {id}
        /\ setback'[id] = [before |-> orders[id], after |-> o]
        /\ \A x \in DOMAIN setback : x # id => setback'[x] = setback[x]
    BY <2>1
  <2>3. TakenBack(id)' = orders[id].filled - o.filled /\ TakenBack(id) = 0
    BY <1>2, <2>2, TakenBackType DEF TakenBack
  <2>4. \A x : x # id => TakenBack(x)' = TakenBack(x)
    BY <2>2 DEF TakenBack
  <2>5. orders[id].filled \in Nat
    <3>1. orders[id] \in Orders
      BY <1>6 DEF IInv, CallsOK, SharedOK
    <3> QED
      BY <3>1, OrderFields
  <2>6. Balanced(id)'
    <3>1. orders[id].filled = delivered[id] + FilledIn(pending, id) + SumFunction(Held(id))
      BY <1>6, <2>3, <2>5 DEF Accounts, Balanced
    <3>2. orders'[id].filled + TakenBack(id)' = orders[id].filled
      BY <1>1, <1>2, <2>3, <2>5
    <3> QED
      BY <1>1, <1>3, <2>1, <3>1, <3>2 DEF Balanced
  <2>7. \A x \in Known \ {id} : Balanced(x)'
    BY <1>1, <1>3, <2>1, <2>4 DEF Accounts, Balanced
  <2> QED
    BY <1>1, <2>1, <2>6, <2>7 DEF Accounts
<1>7. CASE id \notin Known
  <2>1. /\ UNCHANGED setback /\ delivered' = [delivered EXCEPT ![id] = o.filled]
        /\ delivered'[id] = o.filled
        /\ \A x \in OrderIds \ {id} : delivered'[x] = delivered[x]
    BY <1>1, <1>7 DEF IInv, CallsOK, SharedOK
  <2>2. TakenBack(id) = 0 /\ \A x : TakenBack(x)' = TakenBack(x)
    BY <1>7, <2>1, TakenBackType
  <2>3. Balanced(id)'
    <3>1. FilledIn(pending, id) = 0 /\ SumFunction(Held(id)) = 0
      BY <1>4, <1>7, NoneYet, HeldType
    <3> QED
      BY <1>1, <1>2, <1>3, <2>1, <2>2, <3>1 DEF Balanced
  <2>4. \A x \in Known : Balanced(x)'
    BY <1>1, <1>3, <1>5, <1>7, <2>1, <2>2 DEF Accounts, Balanced
  <2> QED
    BY <1>1, <2>1, <2>3, <2>4 DEF Accounts
<1> QED
  BY <1>6, <1>7

LEMMA TakeNowAccounts ==
  ASSUME IInv, Accounts, NEW t \in Threads, TakeNow(t)
  PROVE  Accounts'
<1> DEFINE id == call[t].id
           h  == hand'[t]
<1>1. PICK p \in Orders, top \in Tops :
        /\ call' = [call EXCEPT ![t] =
                      [id |-> call[t].id, order |-> p, top |-> call[t].top]]
        /\ hand' = [hand EXCEPT ![t] = hand'[t]] /\ hand'[t] \in Seq(Fills)
        /\ \/ p.filled = 0 /\ hand'[t] = << >>
           \/ \E f \in Fills : /\ p.filled > 0 /\ hand'[t] = << f >>
                               /\ f.order = call[t].id /\ f.quantity = p.filled
  BY TakeNowDoes
<1>2. /\ pc[t] = "take" /\ pc' = [pc EXCEPT ![t] = "insert"]
      /\ UNCHANGED << orders, pending, delivered, setback >> /\ Known' = Known
  BY DEF TakeNow, Known, booted
<1>3. /\ hand[t] = << >> /\ id \notin Known
  BY <1>2, CallFields DEF IInv, CallsOK, ThreadOK, HandOK, Placing
<1>4. /\ call'[t].id = id /\ call'[t].order = p
      /\ \A u \in Threads \ {t} : pc'[u] = pc[u] /\ call'[u] = call[u] /\ hand'[u] = hand[u]
  BY <1>1, <1>2 DEF IInv, CallsOK, SharedOK
<1>5. FilledIn(h, id) = p.filled /\ \A x \in Known : FilledIn(h, x) = 0
  <2>1. /\ << >> \in Seq(Fills) /\ \A x : FilledIn(<< >>, x) = 0
    BY NothingFilledIn
  <2>2. ASSUME NEW f \in Fills, p.filled > 0, h = << f >>, f.order = id,
               f.quantity = p.filled
        PROVE  FilledIn(h, id) = p.filled /\ \A x \in Known : FilledIn(h, x) = 0
    <3>1. << f >> = Append(<< >>, f)
      OBVIOUS
    <3>2. \A x : FilledIn(h, x) = FilledIn(<< >>, x) + (IF f.order = x THEN f.quantity ELSE 0)
      <4>1. \A x : FilledIn(Append(<< >>, f), x)
                     = FilledIn(<< >>, x) + (IF f.order = x THEN f.quantity ELSE 0)
        BY <2>1, FilledInAppend
      <4> HIDE DEF h
      <4> QED
        BY <2>2, <3>1, <4>1
    <3>3. f.quantity \in Nat
      BY DEF Fills
    <3> QED
      BY <1>3, <2>1, <2>2, <3>2, <3>3
  <2> QED
    BY <1>1, <2>1, <2>2
<1>6. \A x \in Known : SumFunction(Held(x))' = SumFunction(Held(x))
  <2>1. ASSUME NEW x \in Known
        PROVE  SumFunction(Held(x))' = SumFunction(Held(x))
    <3>1. SumFunction(Held(x))'
            = SumFunction(Held(x)) - FilledIn(hand[t], x) + FilledIn(h, x)
      BY <1>1, HeldChange
    <3>2. FilledIn(hand[t], x) = 0
      BY <1>3, NothingFilledIn
    <3>3. SumFunction(Held(x)) \in Nat
      BY HeldType
    <3> QED
      BY <1>5, <3>1, <3>2, <3>3
  <2> QED
    BY <2>1
<1>7. \A x \in Known : Balanced(x)'
  BY <1>2, <1>6, TakenBackType DEF Accounts, Balanced
<1>8. \A u \in Threads : pc'[u] = "insert" =>
        FilledIn(hand'[u], call'[u].id) = call'[u].order.filled
  <2>1. ASSUME NEW u \in Threads \ {t}, pc'[u] = "insert"
        PROVE  FilledIn(hand'[u], call'[u].id) = call'[u].order.filled
    BY <1>4, <2>1 DEF Accounts
  <2> QED
    BY <1>4, <1>5, <2>1
<1> QED
  BY <1>2, <1>7, <1>8 DEF Accounts

LEMMA InsertAccounts ==
  ASSUME IInv, Accounts, NEW t \in Threads, Insert(t)
  PROVE  Accounts'
<1>0. PICK id, o : id = call[t].id /\ o = call[t].order
  OBVIOUS
<1>1. /\ pc[t] \in { "insert", "refuse" } /\ Placing(t)
      /\ orders' = [x \in Known \cup {id} |-> IF x = id THEN o ELSE orders[x]]
      /\ call' = [call EXCEPT ![t] = NoCall]
      /\ pc' = [pc EXCEPT ![t] = IF hand[t] = << >> THEN "idle" ELSE "publish"]
      /\ UNCHANGED << pending, delivered, hand, setback >>
  BY <1>0 DEF Insert, Inserted, Placing, booted
<1>2. id \in OrderIds /\ id \notin Known
  BY <1>0, <1>1, CallFields
<1>3. FilledIn(hand[t], id) = o.filled
  <2>1. CASE pc[t] = "insert"
    BY <1>0, <2>1 DEF Accounts
  <2>2. CASE pc[t] = "refuse"
    BY <1>0, <2>2, NothingFilledIn DEF IInv, CallsOK, ThreadOK, CallOK, HandOK
  <2> QED
    BY <1>1, <2>1, <2>2
<1>4. /\ delivered[id] = 0 /\ FilledIn(pending, id) = 0
      /\ \A u \in Threads \ {t} : FilledIn(hand[u], id) = 0
  <2>1. \A u \in Threads \ {t} : pc[u] = "insert" => call[u].id # id
    BY <1>0, <1>1 DEF IInv, CallsOK, FreshIds, Placing
  <2> QED
    BY <1>2, <2>1, NoneYet DEF Accounts
<1>5. SumFunction(Held(id)) = o.filled
  <2> DEFINE f == Held(id)
             z == [u \in Threads |-> 0]
  <2>1. /\ f \in [Threads -> Int] /\ f[t] = o.filled
        /\ \A u \in Threads \ {t} : f[u] = 0
    BY <1>3, <1>4, HeldType DEF Held
  <2>2. z \in [Threads -> Int] /\ \A u \in Threads : z[u] = 0
    OBVIOUS
  <2> HIDE DEF f, z
  <2>3. DifferAt(Threads, t, f, z)
    BY <2>1, <2>2, EngineAssumption DEF DifferAt
  <2>4. SumFunction(z) = SumFunction(f) - f[t] + z[t]
    BY <2>3, SumChange
  <2>5. SumFunction(z) = 0 /\ SumFunction(f) \in Int
    BY <2>1, <2>2, EngineAssumption, SumType
  <2>6. f[t] \in Int /\ z[t] = 0
    BY <2>1, <2>2
  <2>7. SumFunction(f) = f[t]
    <3>1. SumFunction(f) - f[t] = 0
      BY <2>4, <2>5, <2>6
    <3>2. \A a, b \in Int : a - b = 0 => a = b
      OBVIOUS
    <3> QED
      BY <2>5, <2>6, <3>1, <3>2
  <2> QED
    BY <2>1, <2>7 DEF f
<1>6. /\ Known' = Known \cup {id} /\ orders'[id] = o
      /\ \A x \in Known : orders'[x] = orders[x]
  BY <1>1, <1>2 DEF Known
<1>7. \A x : Held(x)' = Held(x)
  BY <1>1 DEF Held
<1>8. Balanced(id)'
  <2>1. o.filled \in Nat
    BY <1>0, <1>1, CallFields, OrderFields
  <2> QED
    <3>1. TakenBack(id)' = 0
      BY <1>1, <1>2, TakenBackType
    <3> QED
      BY <1>1, <1>4, <1>5, <1>6, <1>7, <2>1, <3>1 DEF Balanced
<1>9. \A x \in Known : Balanced(x)'
  BY <1>1, <1>6, <1>7, TakenBackType DEF Accounts, Balanced
<1>10. \A u \in Threads : pc'[u] = "insert" => pc[u] = "insert" /\ call'[u] = call[u]
  BY <1>1 DEF IInv, CallsOK, SharedOK
<1> QED
  BY <1>1, <1>6, <1>8, <1>9, <1>10 DEF Accounts

LEMMA MatchOneAccounts ==
  ASSUME IInv, Accounts, NEW t \in Threads, NEW id \in OrderIds, MatchOne(t, id)
  PROVE  Accounts'
<1>1. /\ pc[t] = "matching" /\ id \in Known /\ Rests(orders[id]) /\ orders[id] \in Orders
      /\ UNCHANGED << pending, delivered, pc, call, setback >>
  BY MatchOneDoes DEF booted
<1>2. CASE UNCHANGED << orders, hand >>
  BY <1>1, <1>2, AccountsUntouched DEF Known
<1>3. ASSUME NEW qty \in 1..Remaining(orders[id]), NEW f \in Fills,
             f.order = id, f.quantity = qty,
             orders' = [orders EXCEPT ![id] = AfterFill(orders[id], qty)],
             hand' = [hand EXCEPT ![t] = Append(@, f)]
      PROVE  Accounts'
  <2>1. /\ AfterFill(orders[id], qty).filled = orders[id].filled + qty
        /\ qty \in Nat /\ orders[id].filled \in Nat
    BY <1>1, AfterFillKeeps, OrderFields DEF Rests
  <2>2. /\ Known' = Known /\ orders'[id].filled = orders[id].filled + qty
        /\ \A x \in Known \ {id} : orders'[x] = orders[x]
    BY <1>1, <1>3, <2>1 DEF IInv, CallsOK, SharedOK, Known
  <2>3. /\ hand[t] \in Seq(Fills) /\ Append(hand[t], f) \in Seq(Fills)
        /\ hand' = [hand EXCEPT ![t] = Append(hand[t], f)]
        /\ \A u \in Threads \ {t} : hand'[u] = hand[u]
    BY <1>3, AppendProperties DEF IInv, CallsOK, SharedOK
  <2>4. \A x : SumFunction(Held(x))'
                 = SumFunction(Held(x)) + (IF x = id THEN qty ELSE 0)
    <3>1. ASSUME NEW x
          PROVE  SumFunction(Held(x))'
                   = SumFunction(Held(x)) + (IF x = id THEN qty ELSE 0)
      <4>1. SumFunction(Held(x))'
              = SumFunction(Held(x)) - FilledIn(hand[t], x) + FilledIn(Append(hand[t], f), x)
        BY <2>3, HeldChange
      <4>2. FilledIn(Append(hand[t], f), x)
              = FilledIn(hand[t], x) + (IF x = id THEN qty ELSE 0)
        BY <1>3, <2>3, FilledInAppend
      <4>3. SumFunction(Held(x)) \in Nat /\ FilledIn(hand[t], x) \in Nat
        BY <2>3, HeldType, FilledInType
      <4> QED
        BY <2>1, <4>1, <4>2, <4>3
    <3> QED
      BY <3>1
  <2>5. /\ delivered[id] \in Nat /\ FilledIn(pending, id) \in Nat
        /\ SumFunction(Held(id)) \in Nat
    BY HeldType DEF IInv, CallsOK, SharedOK
  <2>6. Balanced(id)'
    <3>1. SumFunction(Held(id))' = SumFunction(Held(id)) + qty
      BY <2>4
    <3>2. orders[id].filled + TakenBack(id)
            = delivered[id] + FilledIn(pending, id) + SumFunction(Held(id))
      BY <1>1 DEF Accounts, Balanced
    <3>3. TakenBack(id) \in Int /\ TakenBack(id)' = TakenBack(id)
      BY <1>1, TakenBackType
    <3>4. orders'[id].filled + TakenBack(id)'
            = delivered[id] + FilledIn(pending, id) + SumFunction(Held(id))'
      BY <2>1, <2>2, <2>5, <3>1, <3>2, <3>3
    <3> QED
      BY <1>1, <3>4 DEF Balanced
  <2>7. ASSUME NEW x \in Known \ {id}
        PROVE  Balanced(x)'
    <3>1. SumFunction(Held(x))' = SumFunction(Held(x))
      BY <2>4, HeldType
    <3> QED
      BY <1>1, <2>2, <3>1, TakenBackType DEF Accounts, Balanced
  <2>8. \A u \in Threads : pc'[u] = "insert" => u # t
    BY <1>1
  <2> QED
    BY <1>1, <2>2, <2>3, <2>6, <2>7, <2>8 DEF Accounts
<1>4. CASE ~ UNCHANGED << orders, hand >>
  <2>1. PICK qty \in 1..Remaining(orders[id]), f \in Fills :
          /\ RespectsLiquidity => qty <= scan[t].left[orders[id].side]
          /\ scan' = [scan EXCEPT ![t].todo = @ \ {id},
                        ![t].left = LeftAfter(@, orders[id].side, qty)]
          /\ orders' = [orders EXCEPT ![id] = AfterFill(orders[id], qty)]
          /\ f.order = id /\ f.quantity = qty
          /\ hand' = [hand EXCEPT ![t] = Append(@, f)]
    BY <1>4, MatchOneDoes
  <2> QED
    BY <1>3, <2>1
<1> QED
  BY <1>2, <1>4

LEMMA PublishAccounts ==
  ASSUME IInv, Accounts, NEW t \in Threads, Publish(t)
  PROVE  Accounts'
<1>1. /\ pc[t] = "publish" /\ pending' = pending \o hand[t]
      /\ hand' = [hand EXCEPT ![t] = << >>]
      /\ pc' = [pc EXCEPT ![t] = "idle"]
      /\ UNCHANGED << orders, delivered, call, setback >> /\ Known' = Known
  BY DEF Publish, Known, booted
<1>2. \A u \in Threads : pc'[u] = "insert" => pc[u] = "insert" /\ hand'[u] = hand[u]
  BY <1>1 DEF IInv, CallsOK, SharedOK
<1>3. ASSUME NEW x \in Known
      PROVE  Balanced(x)'
  <2>1. hand[t] \in Seq(Fills) /\ pending \in Seq(Fills)
    BY DEF IInv, CallsOK, SharedOK
  <2>2. FilledIn(pending', x) = FilledIn(pending, x) + FilledIn(hand[t], x)
    BY <1>1, <2>1, FilledInJoined
  <2>3. SumFunction(Held(x))'
          = SumFunction(Held(x)) - FilledIn(hand[t], x) + FilledIn(<< >>, x)
    BY <1>1, NothingFilledIn, HeldChange
  <2>4. /\ FilledIn(<< >>, x) = 0 /\ FilledIn(hand[t], x) \in Nat
        /\ FilledIn(pending, x) \in Nat /\ SumFunction(Held(x)) \in Nat
        /\ delivered[x] \in Nat
    BY <2>1, NothingFilledIn, FilledInType, HeldType DEF IInv, CallsOK, SharedOK
  <2>5. orders[x].filled + TakenBack(x)
          = delivered[x] + FilledIn(pending, x) + SumFunction(Held(x))
    BY DEF Accounts, Balanced
  <2>6. orders[x].filled + TakenBack(x)
          = delivered[x] + FilledIn(pending', x) + SumFunction(Held(x))'
    BY <2>2, <2>3, <2>4, <2>5
  <2> QED
    BY <1>1, <2>6, TakenBackType DEF Balanced
<1> QED
  BY <1>1, <1>2, <1>3 DEF Accounts

LEMMA TakeFillsAccounts ==
  ASSUME IInv, Accounts, NEW t \in Threads, TakeFills(t)
  PROVE  Accounts'
<1>1. /\ delivered' = [id \in OrderIds |-> delivered[id] + FilledIn(pending, id)]
      /\ pending' = << >>
      /\ UNCHANGED << orders, pc, call, hand, setback >> /\ Known' = Known
  BY DEF TakeFills, Known, booted
<1>2. \A id : Held(id)' = Held(id)
  BY <1>1 DEF Held
<1>3. \A id \in OrderIds : FilledIn(pending, id) \in Nat /\ delivered[id] \in Nat
  BY HeldType DEF IInv, CallsOK, SharedOK
<1>4. ASSUME NEW id \in Known
      PROVE  Balanced(id)'
  <2>1. id \in OrderIds
    BY DEF IInv, CallsOK, SharedOK
  <2>2. delivered'[id] = delivered[id] + FilledIn(pending, id) /\ FilledIn(pending', id) = 0
    BY <1>1, <2>1, NothingFilledIn
  <2>3. orders[id].filled + TakenBack(id)
          = delivered[id] + FilledIn(pending, id) + SumFunction(Held(id))
    BY DEF Accounts, Balanced
  <2>4. SumFunction(Held(id)) \in Nat
    BY HeldType
  <2>5. orders[id].filled + TakenBack(id)
          = delivered'[id] + FilledIn(pending', id) + SumFunction(Held(id))
    BY <1>3, <2>1, <2>2, <2>3, <2>4
  <2> QED
    BY <1>1, <1>2, <2>5, TakenBackType DEF Balanced
<1>5. \A id \in OrderIds \ Known : delivered'[id] = 0
  BY <1>1, <1>3, NoneYet DEF Accounts
<1> QED
  BY <1>1, <1>4, <1>5 DEF Accounts

LEMMA AccountsStep ==
  ASSUME IInv, Accounts, [Next]_vars
  PROVE  Accounts'
<1>1. ASSUME NEW t \in Threads,
             \/ ReadTop(t) \/ BeginMatch(t) \/ EndMatch(t)
             \/ \E id \in OrderIds, r \in Requests : PlaceCheck(t, id, r)
      PROVE  Accounts'
  <2>1. UNCHANGED << orders, hand, delivered, pending, setback >>
    BY <1>1 DEF ReadTop, BeginMatch, EndMatch, PlaceCheck, booted
  <2>2. \A u \in Threads : pc'[u] = "insert" => pc[u] = "insert" /\ call'[u] = call[u]
    BY <1>1 DEF ReadTop, BeginMatch, EndMatch, PlaceCheck, IInv, CallsOK, SharedOK
  <2> QED
    BY <2>1, <2>2, AccountsUntouched DEF Known
<1>2. ASSUME NEW t \in Threads, NEW id \in OrderIds, CancelOrder(t, id)
      PROVE  Accounts'
  <2> DEFINE p == [orders[id] EXCEPT !.status = "cancelled"]
  <2>1. /\ id \in Known /\ orders[id] \in Orders
        /\ orders[id].status \in { "acknowledged", "partially_filled", "submitted" }
        /\ orders' = [orders EXCEPT ![id] = p]
        /\ Known' = Known
        /\ UNCHANGED << pending, delivered, pc, call, hand, setback >>
    BY <1>2, CancelOrderDoes DEF booted
  <2>2. p.filled = orders[id].filled
    BY <2>1, CancelledKeeps
  <2> HIDE DEF p
  <2>3. \A x \in Known : orders'[x].filled = orders[x].filled
    BY <2>1, <2>2 DEF IInv, CallsOK, SharedOK
  <2> QED
    BY <2>1, <2>3, AccountsUntouched
<1>3. CASE \/ LoadOrders \/ EndBoot \/ (\E id \in OrderIds : SaveOrder(id))
           \/ (\E i \in Instruments : Tick(i)) \/ UNCHANGED vars
  <2>1. /\ UNCHANGED << orders, hand, delivered, pending, call, setback >>
        /\ \A u \in Threads : pc'[u] = "insert" => pc[u] = "insert"
    BY <1>3 DEF LoadOrders, EndBoot, SaveOrder, Tick, SetBook, booted, vars,
                IInv, CallsOK, SharedOK
  <2> QED
    BY <2>1, AccountsUntouched DEF Known
<1>4. ASSUME NEW t \in Threads, Continue(t)
      PROVE  Accounts'
  BY <1>1, <1>4, TakeNowAccounts, InsertAccounts, MatchOneAccounts, PublishAccounts
     DEF Continue
<1>5. CASE Boot
  BY <1>3, <1>5, RestoreOrderAccounts DEF Boot
<1>6. ASSUME NEW t \in Threads,
             \/ Continue(t) \/ TakeFills(t)
             \/ \E id \in OrderIds, r \in Requests : PlaceCheck(t, id, r)
             \/ \E id \in OrderIds : CancelOrder(t, id)
      PROVE  Accounts'
  BY <1>1, <1>2, <1>4, <1>6, TakeFillsAccounts
<1> QED
  BY <1>3, <1>5, <1>6 DEF Next

\* Whatever the interleaving of the calls and the restore, what an order says it has
\* filled, and what a restore has made it forget, is what was collected, plus what
\* waits in pending_fills, plus what calls have in hand: no fill is lost or counted
\* twice on its way out of the engine.
THEOREM NoFillLost == Spec => []FillsConserved
<1>1. Init => Accounts
  BY DEF Init, Accounts, Known
<1>2. IInv /\ Accounts /\ [Next]_vars => Accounts'
  BY AccountsStep
<1>3. Accounts => FillsConserved
  BY DEF Accounts, FillsConserved, Balanced, Held
<1> QED
  BY <1>1, <1>2, <1>3, InvariantHolds, PTL DEF Spec

(***************************************************************************)
(* What becomes of the orders the engine knows                             *)
(***************************************************************************)

\* An order stays known with the terms it was placed with, one that is terminal stays
\* as it is, and where fills are immediate what executes is all that remains.
Kept(id) ==
  /\ id \in Known'
  /\ orders'[id].clid = orders[id].clid /\ orders'[id].side = orders[id].side
  /\ orders'[id].type = orders[id].type /\ orders'[id].tif = orders[id].tif
  /\ orders'[id].quantity = orders[id].quantity
  /\ IsTerminal(orders[id].status) => orders'[id] = orders[id]
  /\ ~ RespectsLiquidity => orders'[id].filled \in { orders[id].filled, orders[id].quantity }

\* A restore puts the stored record in the place of whatever there was.
Reseated(id) ==
  /\ id \in OrderIds /\ RestoreOrder(id)
  /\ id \in DOMAIN stored /\ orders'[id] = stored[id] /\ Known' = Known \cup {id}

\* Only a restore and the end of place_order make orders known.
MadeKnown(id) ==
  \/ Reseated(id)
  \/ \E t \in Threads : /\ Insert(t) /\ id = call[t].id /\ orders'[id] = call[t].order
                        /\ Known' = Known \cup {id}

LEMMA OrdersStep ==
  ASSUME IInv, [Next]_vars
  PROVE  /\ \A id \in Known : Kept(id) \/ Reseated(id)
         /\ \A id \in Known' \ Known : MadeKnown(id)
<1>1. ASSUME NEW id \in OrderIds, NEW o,
             orders' = [x \in Known \cup {id} |-> IF x = id THEN o ELSE orders[x]]
      PROVE  /\ \A x \in Known \ {id} : Kept(x)
             /\ Known' = Known \cup {id} /\ orders'[id] = o
  <2>1. /\ Known' = Known \cup {id} /\ orders'[id] = o
        /\ \A x \in Known \ {id} : orders'[x] = orders[x]
    BY <1>1 DEF Known
  <2> QED
    BY <2>1 DEF Kept
<1>2. ASSUME NEW id \in OrderIds, RestoreOrder(id)
      PROVE  /\ \A x \in Known : Kept(x) \/ Reseated(x)
             /\ \A x \in Known' \ Known : MadeKnown(x)
  <2>1. /\ id \in DOMAIN stored
        /\ orders' = [x \in Known \cup {id} |-> IF x = id THEN stored[id] ELSE orders[x]]
    BY <1>2, RestoreOrderDoes
  <2>2. /\ \A x \in Known \ {id} : Kept(x)
        /\ Known' = Known \cup {id} /\ orders'[id] = stored[id]
    BY <1>1, <2>1
  <2> QED
    BY <1>2, <2>1, <2>2 DEF MadeKnown, Reseated
<1>3. ASSUME NEW t \in Threads, Insert(t)
      PROVE  /\ \A x \in Known : Kept(x)
             /\ \A x \in Known' \ Known : MadeKnown(x)
  <2>1. /\ Placing(t)
        /\ orders' = [x \in Known \cup {call[t].id} |->
                        IF x = call[t].id THEN call[t].order ELSE orders[x]]
    BY <1>3 DEF Insert, Inserted, Placing
  <2>2. call[t].id \in OrderIds /\ call[t].id \notin Known
    BY <2>1, CallFields
  <2>3. /\ \A x \in Known : Kept(x)
        /\ Known' = Known \cup {call[t].id} /\ orders'[call[t].id] = call[t].order
    BY <1>1, <2>1, <2>2
  <2> QED
    BY <1>3, <2>3 DEF MadeKnown
<1>4. ASSUME NEW id \in Known, NEW o, orders' = [orders EXCEPT ![id] = o],
             ~ IsTerminal(orders[id].status),
             /\ o.clid = orders[id].clid /\ o.side = orders[id].side
             /\ o.type = orders[id].type /\ o.tif = orders[id].tif
             /\ o.quantity = orders[id].quantity,
             ~ RespectsLiquidity => o.filled \in { orders[id].filled, orders[id].quantity }
      PROVE  /\ \A x \in Known : Kept(x)
             /\ \A x \in Known' \ Known : MadeKnown(x)
  <2>1. /\ Known' = Known /\ orders'[id] = o
        /\ \A x \in Known \ {id} : orders'[x] = orders[x]
    BY <1>4 DEF Known, IInv, CallsOK, SharedOK
  <2> QED
    BY <1>4, <2>1 DEF Kept
<1>5. orders' = orders => /\ \A x \in Known : Kept(x)
                          /\ \A x \in Known' \ Known : MadeKnown(x)
  BY DEF Kept, Known
<1>6. ASSUME NEW t \in Threads, NEW id \in OrderIds, MatchOne(t, id), orders' # orders
      PROVE  /\ \A x \in Known : Kept(x)
             /\ \A x \in Known' \ Known : MadeKnown(x)
  <2>1. PICK qty \in 1..Remaining(orders[id]) :
          /\ orders' = [orders EXCEPT ![id] = AfterFill(orders[id], qty)]
          /\ ~ RespectsLiquidity => qty = Remaining(orders[id])
    BY <1>6, MatchOneDoes
  <2>2. /\ id \in Known /\ orders[id] \in Orders
        /\ orders[id].status \in { "acknowledged", "partially_filled" }
    BY <1>6, MatchOneDoes DEF Rests
  <2> DEFINE o == orders[id]
             p == AfterFill(o, qty)
  <2>3. /\ p.clid = o.clid /\ p.side = o.side /\ p.type = o.type /\ p.tif = o.tif
        /\ p.quantity = o.quantity /\ p.filled = o.filled + qty
    BY <2>2, AfterFillKeeps
  <2>4. orders' = [orders EXCEPT ![id] = p]
    BY <2>1
  <2>5. ~ RespectsLiquidity => p.filled \in { o.filled, o.quantity }
    BY <2>1, <2>2, <2>3, OrderFields DEF Remaining
  <2> HIDE DEF p
  <2> QED
    BY <1>4, <2>2, <2>3, <2>4, <2>5 DEF IsTerminal
<1>7. ASSUME NEW t \in Threads, NEW id \in OrderIds, CancelOrder(t, id)
      PROVE  /\ \A x \in Known : Kept(x)
             /\ \A x \in Known' \ Known : MadeKnown(x)
  <2> DEFINE p == [orders[id] EXCEPT !.status = "cancelled"]
  <2>1. /\ id \in Known /\ orders[id] \in Orders
        /\ orders[id].status \in { "acknowledged", "partially_filled", "submitted" }
        /\ orders' = [orders EXCEPT ![id] = p]
    BY <1>7, CancelOrderDoes
  <2>2. /\ p.clid = orders[id].clid /\ p.side = orders[id].side
        /\ p.type = orders[id].type /\ p.tif = orders[id].tif
        /\ p.quantity = orders[id].quantity /\ p.filled = orders[id].filled
    BY <2>1, CancelledKeeps
  <2> HIDE DEF p
  <2> QED
    BY <1>4, <2>1, <2>2 DEF IsTerminal
<1>8. ASSUME NEW t \in Threads,
             \/ ReadTop(t) \/ TakeNow(t) \/ BeginMatch(t) \/ EndMatch(t) \/ Publish(t)
             \/ TakeFills(t) \/ \E id \in OrderIds, r \in Requests : PlaceCheck(t, id, r)
      PROVE  orders' = orders
  BY <1>8 DEF ReadTop, TakeNow, BeginMatch, EndMatch, Publish, TakeFills, PlaceCheck
<1>9. LoadOrders \/ EndBoot \/ (\E id \in OrderIds : SaveOrder(id))
        \/ (\E i \in Instruments : Tick(i)) \/ UNCHANGED vars
      => orders' = orders
  BY DEF LoadOrders, EndBoot, SaveOrder, Tick, SetBook, vars
<1> QED
  BY <1>2, <1>3, <1>5, <1>6, <1>7, <1>8, <1>9 DEF Next, Boot, Continue

(***************************************************************************)
(* The displayed size is handed out once                                   *)
(***************************************************************************)

\* What each fill in hand takes from the size displayed to a side.
Taking(t, side) ==
  [n \in DOMAIN hand[t] |->
     IF orders[hand[t][n].order].side = side THEN hand[t][n].quantity ELSE 0]

LEMMA TakingType ==
  ASSUME IInv, NEW t \in Threads, NEW side
  PROVE  /\ DOMAIN hand[t] = 1..Len(hand[t]) /\ Len(hand[t]) \in Nat
         /\ Taking(t, side) \in [1..Len(hand[t]) -> Int]
         /\ SpentInScan(t, side) = SumFunction(Taking(t, side))
         /\ SpentInScan(t, side) \in Int
         /\ hand[t] = << >> => SpentInScan(t, side) = 0
<1>1. hand[t] \in Seq(Fills)
  BY DEF IInv, CallsOK, SharedOK
<1>2. DOMAIN hand[t] = 1..Len(hand[t]) /\ Len(hand[t]) \in Nat
  BY <1>1, LenProperties
<1>3. \A n \in 1..Len(hand[t]) : hand[t][n].quantity \in Int
  <2>1. \A n \in 1..Len(hand[t]) : hand[t][n] \in Fills
    BY <1>1, ElementOfSeq
  <2> QED
    BY <2>1 DEF Fills
<1>4. Taking(t, side) \in [1..Len(hand[t]) -> Int]
  BY <1>2, <1>3 DEF Taking
<1>5. SpentInScan(t, side) = SumFunction(Taking(t, side))
  BY DEF SpentInScan, Taking
<1>6. IsFiniteSet(1..Len(hand[t]))
  BY <1>2, FS_Interval
<1>7. /\ SumFunction(Taking(t, side)) \in Int
      /\ (\A n \in 1..Len(hand[t]) : Taking(t, side)[n] = 0) =>
           SumFunction(Taking(t, side)) = 0
  BY <1>4, <1>6, SumType
<1>8. hand[t] = << >> => \A n \in 1..Len(hand[t]) : Taking(t, side)[n] = 0
  BY <1>2
<1> QED
  BY <1>2, <1>4, <1>5, <1>7, <1>8

\* A pass holds the mutex that a restore would need to set an order back.
LEMMA KeptWhileMatching ==
  ASSUME IInv, [Next]_vars, NEW t \in Threads, pc[t] = "matching"
  PROVE  \A id \in Known : Kept(id)
<1>1. ~ Free
  BY HolderMatches
<1>2. \A id \in OrderIds : ~ RestoreOrder(id)
  BY <1>1 DEF RestoreOrder
<1> QED
  BY <1>2, OrdersStep DEF Reseated

\* A pass that has the same fills in hand has spent the same.
LEMMA SpentKept ==
  ASSUME IInv, [Next]_vars, NEW t \in Threads, pc[t] = "matching", hand'[t] = hand[t],
         NEW side
  PROVE  SpentInScan(t, side)' = SpentInScan(t, side)
<1>1. ASSUME NEW n \in DOMAIN hand[t]
      PROVE  orders'[hand[t][n].order].side = orders[hand[t][n].order].side
  <2>1. hand[t][n].order \in Known
    BY DEF IInv, CallsOK, ThreadOK, HandOK
  <2> QED
    BY <2>1, KeptWhileMatching DEF Kept
<1>2. Taking(t, side)' = Taking(t, side)
  BY <1>1 DEF Taking
<1> QED
  BY <1>2 DEF SpentInScan, Taking

\* A turn of the loop takes from the displayed size what it fills.
LEMMA MatchOneSpends ==
  ASSUME IInv, [Next]_vars, RespectsLiquidity, DisplayedSizeSpentOnce,
         NEW t \in Threads, NEW id \in OrderIds, MatchOne(t, id), NEW side \in Sides
  PROVE  SpentInScan(t, side)' + scan'[t].left[side] = OppositeQty(side, scan'[t].top)
<1> DEFINE o == orders[id]
<1>1. /\ pc[t] = "matching" /\ id \in Known /\ o \in Orders /\ scan[t] \in Scans
  BY MatchOneDoes
<1>2. SpentInScan(t, side) + scan[t].left[side] = OppositeQty(side, scan[t].top)
  BY <1>1 DEF DisplayedSizeSpentOnce
<1>3. DOMAIN scan = Threads /\ hand \in [Threads -> Seq(Fills)]
  BY DEF IInv, CallsOK, SharedOK
<1>4. CASE scan' = [scan EXCEPT ![t].todo = @ \ {id}] /\ UNCHANGED << orders, hand >>
  <2>1. scan'[t].left = scan[t].left /\ scan'[t].top = scan[t].top
    BY <1>1, <1>3, <1>4 DEF Scans
  <2>2. SpentInScan(t, side)' = SpentInScan(t, side)
    BY <1>1, <1>4, SpentKept
  <2> QED
    BY <1>2, <2>1, <2>2
<1>5. ASSUME NEW qty \in 1..Remaining(o), NEW f \in Fills,
             RespectsLiquidity => qty <= scan[t].left[o.side],
             scan' = [scan EXCEPT ![t].todo = @ \ {id},
                        ![t].left = LeftAfter(@, o.side, qty)],
             orders' = [orders EXCEPT ![id] = AfterFill(o, qty)],
             f.order = id, f.quantity = qty,
             hand' = [hand EXCEPT ![t] = Append(@, f)]
      PROVE  SpentInScan(t, side)' + scan'[t].left[side] = OppositeQty(side, scan'[t].top)
  <2>1. /\ qty \in Nat /\ o.side \in { "buy", "sell" }
        /\ scan[t].left \in [{ "buy", "sell" } -> Nat]
    BY <1>1, OrderFields DEF Sides, Scans
  <2>2. /\ scan'[t].left = LeftAfter(scan[t].left, o.side, qty)
        /\ scan'[t].top = scan[t].top
    BY <1>1, <1>3, <1>5 DEF Scans
  <2>3. scan'[t].left[side]
          = scan[t].left[side] - (IF o.side = side THEN qty ELSE 0)
    <3>1. ~ (qty > scan[t].left[o.side])
      BY <1>5, <2>1
    <3> HIDE DEF o
    <3>2. scan'[t].left = [scan[t].left EXCEPT ![o.side] = scan[t].left[o.side] - qty]
      BY <2>2, <3>1 DEF LeftAfter
    <3> QED
      BY <2>1, <3>2 DEF Sides
  <2> DEFINE n == Len(hand[t])
             g == Taking(t, side)'
  <2>4. /\ Taking(t, side) \in [1..n -> Int] /\ n \in Nat
        /\ SpentInScan(t, side) = SumFunction(Taking(t, side))
        /\ SpentInScan(t, side) \in Int
        /\ DOMAIN hand[t] = 1..n
    BY TakingType
  <2>5. /\ hand'[t] = Append(hand[t], f) /\ hand[t] \in Seq(Fills)
        /\ DOMAIN hand'[t] = 1..(n + 1)
        /\ hand'[t][n + 1] = f /\ \A k \in 1..n : hand'[t][k] = hand[t][k]
    <3>1. hand'[t] = Append(hand[t], f) /\ hand[t] \in Seq(Fills)
      BY <1>3, <1>5
    <3> QED
      BY <3>1, AppendProperties, LenProperties
  <2>6. \A k \in 1..n : orders'[hand[t][k].order].side = orders[hand[t][k].order].side
    <3>1. \A k \in 1..n : hand[t][k].order \in Known
      BY <1>1, <2>4 DEF IInv, CallsOK, ThreadOK, HandOK
    <3> QED
      BY <1>1, <3>1, KeptWhileMatching DEF Kept
  <2>7. orders'[id].side = o.side
    BY <1>1, KeptWhileMatching DEF Kept
  <2>8. g = [k \in 1..(n + 1) |->
              IF orders'[hand'[t][k].order].side = side THEN hand'[t][k].quantity ELSE 0]
    BY <2>5 DEF Taking
  <2>9. g[n + 1] = IF o.side = side THEN qty ELSE 0
    <3> HIDE DEF o, n, g
    <3>1. n + 1 \in 1..(n + 1)
      BY <2>4
    <3> QED
      BY <1>5, <2>5, <2>7, <2>8, <3>1
  <2>10. \A k \in 1..n : g[k] = Taking(t, side)[k]
    <3> HIDE DEF o, n, g
    <3>1. \A k \in 1..n : k \in 1..(n + 1)
      BY <2>4
    <3>2. \A k \in 1..n :
            Taking(t, side)[k]
              = IF orders[hand[t][k].order].side = side THEN hand[t][k].quantity ELSE 0
      BY <2>4 DEF Taking
    <3> QED
      BY <2>5, <2>6, <2>8, <3>1, <3>2
  <2>11. g \in [1..(n + 1) -> Int]
    <3> HIDE DEF o, n, g
    <3>1. g[n + 1] \in Int /\ \A k \in 1..n : g[k] \in Int
      BY <2>1, <2>4, <2>9, <2>10
    <3>2. \A k \in 1..(n + 1) : k \in 1..n \/ k = n + 1
      BY <2>4
    <3>3. \A k \in 1..(n + 1) : g[k] \in Int
      BY <3>1, <3>2
    <3>4. g = [k \in 1..(n + 1) |-> g[k]]
      BY <2>8
    <3> QED
      BY <3>3, <3>4
  <2> HIDE DEF o, n, g
  <2>12. SumFunction(g) = SumFunction(Taking(t, side)) + g[n + 1]
    BY <2>4, <2>10, <2>11, SumAppend
  <2>13. SpentInScan(t, side)' = SumFunction(g)
    BY DEF SpentInScan, Taking, g
  <2>14. scan[t].left[side] \in Nat
    BY <2>1 DEF Sides
  <2>15. SpentInScan(t, side)' + scan'[t].left[side]
           = SpentInScan(t, side) + scan[t].left[side]
    BY <2>1, <2>3, <2>4, <2>9, <2>12, <2>13, <2>14
  <2> QED
    BY <1>2, <2>2, <2>15
<1>6. \/ scan' = [scan EXCEPT ![t].todo = @ \ {id}] /\ UNCHANGED << orders, hand >>
      \/ \E qty \in 1..Remaining(orders[id]), f \in Fills :
           /\ RespectsLiquidity => qty <= scan[t].left[orders[id].side]
           /\ scan' = [scan EXCEPT ![t].todo = @ \ {id},
                         ![t].left = LeftAfter(@, orders[id].side, qty)]
           /\ orders' = [orders EXCEPT ![id] = AfterFill(orders[id], qty)]
           /\ f.order = id /\ f.quantity = qty
           /\ hand' = [hand EXCEPT ![t] = Append(@, f)]
  BY MatchOneDoes
<1> QED
  BY <1>4, <1>5, <1>6

\* A pass begins with nothing in hand and all that is displayed.
LEMMA BeginMatchSpends ==
  ASSUME IInv, NEW t \in Threads, BeginMatch(t), NEW side \in Sides
  PROVE  SpentInScan(t, side)' + scan'[t].left[side] = OppositeQty(side, scan'[t].top)
<1> DEFINE top == book[scan[t].instrument]
<1>1. /\ pc[t] = "match" /\ hand' = hand /\ orders' = orders
      /\ scan' = [scan EXCEPT ![t] =
           [ instrument |-> scan[t].instrument, top |-> top,
             todo |-> { id \in Known : orders[id].instrument = scan[t].instrument
                                       /\ Rests(orders[id]) },
             left |-> Displayed(top) ]]
  BY DEF BeginMatch
<1> HIDE DEF top
<1>2. scan'[t].left = Displayed(top) /\ scan'[t].top = top
  BY <1>1 DEF IInv, CallsOK, SharedOK
<1>3. SpentInScan(t, side)' = SpentInScan(t, side)
  BY <1>1 DEF SpentInScan
<1>4. SpentInScan(t, side) = 0
  BY <1>1, TakingType DEF IInv, CallsOK, ThreadOK, HandOK
<1>5. Displayed(top)[side] = OppositeQty(side, top)
  BY DEF Displayed, OppositeQty, Sides
<1>6. OppositeQty(side, top) \in Nat
  BY <1>1, OppositeType DEF top, IInv, CallsOK, SharedOK, ThreadOK, ScanOK
<1> QED
  BY <1>2, <1>3, <1>4, <1>5, <1>6

\* One pass of match_resting hands out at most the size the book displays, however
\* many orders rest on a side, in whatever order they are visited, and whatever
\* other threads do meanwhile.
THEOREM SizeSpentOnce == Spec => []DisplayedSizeSpentOnce
<1>1. Init => DisplayedSizeSpentOnce
  BY DEF Init, DisplayedSizeSpentOnce
<1>2. ASSUME IInv, DisplayedSizeSpentOnce, [Next]_vars
      PROVE  DisplayedSizeSpentOnce'
  <2> SUFFICES ASSUME RespectsLiquidity, NEW t \in Threads, pc'[t] = "matching",
                      NEW side \in Sides
               PROVE  SpentInScan(t, side)' + scan'[t].left[side]
                        = OppositeQty(side, scan'[t].top)
    BY DEF DisplayedSizeSpentOnce
  <2>1. CASE BeginMatch(t)
    BY <1>2, <2>1, BeginMatchSpends
  <2>2. ASSUME NEW id \in OrderIds, MatchOne(t, id)
        PROVE  SpentInScan(t, side)' + scan'[t].left[side] = OppositeQty(side, scan'[t].top)
    BY <1>2, <2>2, MatchOneSpends
  <2>3. ASSUME pc[t] = "matching", hand'[t] = hand[t], scan'[t] = scan[t]
        PROVE  SpentInScan(t, side)' + scan'[t].left[side] = OppositeQty(side, scan'[t].top)
    <3>1. SpentInScan(t, side)' = SpentInScan(t, side)
      BY <1>2, <2>3, SpentKept
    <3> QED
      BY <1>2, <2>3, <3>1 DEF DisplayedSizeSpentOnce
  <2>4. CASE /\ ~ BeginMatch(t)
             /\ \A id \in OrderIds : ~ MatchOne(t, id)
    <3>1. /\ pc \in [Threads -> { "idle", "read", "refuse", "take", "insert", "match",
                                  "matching", "publish" }]
          /\ hand \in [Threads -> Seq(Fills)] /\ DOMAIN scan = Threads
      BY <1>2 DEF IInv, CallsOK, SharedOK
    <3>2. ASSUME NEW u \in Threads, Continue(u)
          PROVE  pc[t] = "matching" /\ hand'[t] = hand[t] /\ scan'[t] = scan[t]
      <4>1. CASE ReadTop(u) \/ TakeNow(u) \/ Insert(u) \/ EndMatch(u) \/ Publish(u)
        BY <3>1, <4>1 DEF ReadTop, TakeNow, Insert, EndMatch, Publish
      <4>2. CASE BeginMatch(u)
        <5>1. u # t
          BY <2>4, <4>2
        <5> QED
          BY <3>1, <4>2, <5>1 DEF BeginMatch
      <4>3. ASSUME NEW id \in OrderIds, MatchOne(u, id)
            PROVE  pc[t] = "matching" /\ hand'[t] = hand[t] /\ scan'[t] = scan[t]
        <5>1. u # t /\ pc' = pc
          BY <2>4, <4>3 DEF MatchOne
        <5> QED
          BY <3>1, <4>3, <5>1 DEF MatchOne
      <4> QED
        BY <3>2, <4>1, <4>2, <4>3 DEF Continue
    <3>3. ASSUME NEW u \in Threads,
                 \/ TakeFills(u)
                 \/ \E id \in OrderIds, r \in Requests : PlaceCheck(u, id, r)
                 \/ \E id \in OrderIds : CancelOrder(u, id)
          PROVE  pc[t] = "matching" /\ hand'[t] = hand[t] /\ scan'[t] = scan[t]
      BY <3>1, <3>3 DEF TakeFills, PlaceCheck, CancelOrder
    <3>4. ASSUME Boot \/ (\E id \in OrderIds : SaveOrder(id)) \/ UNCHANGED vars
          PROVE  pc[t] = "matching" /\ hand'[t] = hand[t] /\ scan'[t] = scan[t]
      BY <3>4 DEF Boot, LoadOrders, EndBoot, RestoreOrder, SaveOrder, vars
    <3>5. ASSUME NEW i \in Instruments, Tick(i)
          PROVE  pc[t] = "matching" /\ hand'[t] = hand[t] /\ scan'[t] = scan[t]
      BY <3>1, <3>5 DEF Tick, SetBook
    <3> QED
      BY <1>2, <2>3, <3>2, <3>3, <3>4, <3>5 DEF Next
  <2> QED
    BY <2>1, <2>2, <2>4
<1> QED
  BY <1>1, <1>2, InvariantHolds, PTL DEF Spec

(***************************************************************************)
(* Orders that must not rest                                               *)
(***************************************************************************)

\* What the theorems of this section guarantee of the orders of an earlier life: no
\* immediate-or-cancel order was live when it was stored, and a fill-or-kill order
\* only where fills are immediate, with nothing filled.
RestoredRest ==
  \A r \in Restorable : r.type \in { "limit", "market" } =>
    /\ r.tif # "ioc"
    /\ r.tif = "fok" => ~ RespectsLiquidity /\ r.filled = 0

\* What TakeNow makes of the order of a call, in the terms of PlacedKeeps.
LEMMA TakeNowPlaces ==
  ASSUME IInv, NEW t \in Threads, TakeNow(t)
  PROVE  /\ pc[t] = "take" /\ pc' = [pc EXCEPT ![t] = "insert"]
         /\ book' = book /\ orders' = orders
         /\ \A u \in Threads \ {t} : pc'[u] = pc[u] /\ call'[u] = call[u]
         /\ \E o \in Orders, top \in Tops, p \in Orders :
              /\ o = call[t].order /\ o.status = "submitted" /\ o.filled = 0
              /\ o.type \in { "limit", "market" }
              /\ top = book[o.instrument]
              /\ call'[t].order = p /\ call'[t].id = call[t].id
              /\ p.filled = TakeQty(o, top)
              /\ p.clid = o.clid /\ p.quantity = o.quantity
              /\ p.type = o.type /\ p.tif = o.tif
              /\ o.tif = "ioc" => IsTerminal(p.status)
              /\ TakeQty(o, top) = o.quantity => p.status = "filled"
              /\ o.tif # "ioc" /\ o.type = "market" /\ TakeQty(o, top) = 0 =>
                   p.status = "rejected"
<1>1. PICK o : o = call[t].order
  OBVIOUS
<1>2. /\ pc[t] = "take" /\ pc' = [pc EXCEPT ![t] = "insert"]
      /\ book' = book /\ orders' = orders
  BY DEF TakeNow
<1>3. /\ o \in Orders /\ o.status = "submitted" /\ o.filled = 0
      /\ o.type \in { "limit", "market" }
  BY <1>1, <1>2, CallFields DEF IInv, CallsOK, ThreadOK, CallOK, Placing
<1>4. PICK p \in Orders, top \in Tops :
        /\ top = book[call[t].order.instrument]
        /\ p = Placed(call[t].order, top)
        /\ call' = [call EXCEPT ![t] =
                      [id |-> call[t].id, order |-> p, top |-> call[t].top]]
  BY TakeNowDoes
<1>5. /\ top \in Tops /\ top = book[o.instrument] /\ p \in Orders
      /\ p = Placed(o, top)
  BY <1>1, <1>4
<1>6. /\ p.filled = TakeQty(o, top)
      /\ p.clid = o.clid /\ p.quantity = o.quantity
      /\ p.type = o.type /\ p.tif = o.tif
  BY <1>3, <1>5, PlacedKeeps
<1>7. /\ o.tif = "ioc" => IsTerminal(p.status)
      /\ TakeQty(o, top) = o.quantity => p.status = "filled"
      /\ o.tif # "ioc" /\ o.type = "market" /\ TakeQty(o, top) = 0 =>
           p.status = "rejected"
  BY <1>3, <1>5, PlacedKeeps
<1>8. /\ call'[t].order = p /\ call'[t].id = call[t].id
      /\ \A u \in Threads \ {t} : pc'[u] = pc[u] /\ call'[u] = call[u]
  BY <1>2, <1>4 DEF IInv, CallsOK, SharedOK
<1> QED
  BY <1>1, <1>2, <1>3, <1>5, <1>6, <1>7, <1>8

\* An early return leaves an order that takes liquidity as fill-or-kill, cancelled.
LEMMA ReadTopPlaces ==
  ASSUME IInv, NEW t \in Threads, ReadTop(t)
  PROVE  /\ pc[t] = "read" /\ book' = book /\ orders' = orders
         /\ \A u \in Threads \ {t} : pc'[u] = pc[u] /\ call'[u] = call[u]
         /\ \E o \in Orders, top \in Tops :
              /\ o = call[t].order /\ o.filled = 0 /\ top = book[o.instrument]
              /\ \/ /\ pc'[t] = "refuse" /\ ReturnsEarly(o, top)
                    /\ call'[t].order = [o EXCEPT !.status = EarlyStatus(o, top)]
                 \/ /\ pc'[t] = "take" /\ ~ ReturnsEarly(o, top)
                    /\ call'[t].order = o /\ call'[t].top = top
<1>1. PICK o, top : o = call[t].order /\ top = book[o.instrument]
  OBVIOUS
<1>2. pc[t] = "read" /\ book' = book /\ orders' = orders
  BY DEF ReadTop
<1>3. o \in Orders /\ o.filled = 0
  BY <1>1, <1>2, CallFields DEF IInv, CallsOK, ThreadOK, CallOK, Placing
<1>4. top \in Tops
  BY <1>1, <1>3, OrderFields DEF IInv, CallsOK, SharedOK
<1>5. DOMAIN call = Threads /\ DOMAIN pc = Threads
  BY DEF IInv, CallsOK, SharedOK
<1>6. call[t] = [id |-> call[t].id, order |-> o, top |-> call[t].top]
  BY <1>1, <1>2, CallFields DEF Placing
<1>7. CASE ReturnsEarly(o, top)
  <2>1. /\ pc' = [pc EXCEPT ![t] = "refuse"]
        /\ call' = [call EXCEPT ![t].top = top, ![t].order.status = EarlyStatus(o, top)]
    BY <1>1, <1>7 DEF ReadTop
  <2>2. /\ pc'[t] = "refuse"
        /\ call'[t] = [call[t] EXCEPT !.top = top, !.order.status = EarlyStatus(o, top)]
        /\ \A u \in Threads \ {t} : pc'[u] = pc[u] /\ call'[u] = call[u]
    BY <1>5, <2>1
  <2>3. call'[t].order = [o EXCEPT !.status = EarlyStatus(o, top)]
    BY <1>6, <2>2
  <2> QED
    BY <1>1, <1>2, <1>3, <1>4, <1>7, <2>2, <2>3
<1>8. CASE ~ ReturnsEarly(o, top)
  <2>1. pc' = [pc EXCEPT ![t] = "take"] /\ call' = [call EXCEPT ![t].top = top]
    BY <1>1, <1>8 DEF ReadTop
  <2>2. /\ pc'[t] = "take" /\ call'[t] = [call[t] EXCEPT !.top = top]
        /\ \A u \in Threads \ {t} : pc'[u] = pc[u] /\ call'[u] = call[u]
    BY <1>5, <2>1
  <2>3. call'[t].order = o /\ call'[t].top = top
    BY <1>6, <2>2
  <2> QED
    BY <1>1, <1>2, <1>3, <1>4, <1>8, <2>2, <2>3
<1> QED
  BY <1>7, <1>8

\* The other steps bring no call closer to its insertion.
LEMMA OtherCalls ==
  ASSUME IInv, [Next]_vars, NEW t \in Threads, ~ ReadTop(t), ~ TakeNow(t),
         \A id \in OrderIds, r \in Requests : ~ PlaceCheck(t, id, r), Placing(t)'
  PROVE  Placing(t) /\ pc'[t] = pc[t] /\ call'[t] = call[t]
<1>1. /\ pc \in [Threads -> { "idle", "read", "refuse", "take", "insert", "match",
                              "matching", "publish" }]
      /\ DOMAIN call = Threads
  BY DEF IInv, CallsOK, SharedOK
<1>2. ASSUME NEW u \in Threads, Continue(u)
      PROVE  pc'[t] = pc[t] /\ call'[t] = call[t]
  <2>1. CASE u # t
    <3>1. CASE ReadTop(u) \/ TakeNow(u) \/ Insert(u)
      BY <1>1, <2>1, <3>1 DEF ReadTop, TakeNow, Insert
    <3>2. CASE BeginMatch(u) \/ EndMatch(u) \/ Publish(u)
      BY <1>1, <2>1, <3>2 DEF BeginMatch, EndMatch, Publish
    <3>3. ASSUME NEW id \in OrderIds, MatchOne(u, id)
          PROVE  pc'[t] = pc[t] /\ call'[t] = call[t]
      BY <3>3 DEF MatchOne
    <3> QED
      BY <1>2, <3>1, <3>2, <3>3 DEF Continue
  <2>2. CASE u = t
    <3>1. CASE Insert(t) \/ BeginMatch(t) \/ EndMatch(t) \/ Publish(t)
      BY <1>1, <3>1 DEF Insert, BeginMatch, EndMatch, Publish, Placing
    <3>2. ASSUME NEW id \in OrderIds, MatchOne(t, id)
          PROVE  pc'[t] = pc[t] /\ call'[t] = call[t]
      BY <3>2 DEF MatchOne
    <3> QED
      BY <1>2, <2>2, <3>1, <3>2 DEF Continue
  <2> QED
    BY <2>1, <2>2
<1>3. ASSUME NEW u \in Threads, NEW id \in OrderIds, NEW r \in Requests,
             PlaceCheck(u, id, r)
      PROVE  pc'[t] = pc[t] /\ call'[t] = call[t]
  <2>1. u # t
    BY <1>3
  <2> QED
    BY <1>1, <1>3, <2>1 DEF PlaceCheck
<1>4. ASSUME NEW u \in Threads, TakeFills(u) \/ \E id \in OrderIds : CancelOrder(u, id)
      PROVE  pc'[t] = pc[t] /\ call'[t] = call[t]
  BY <1>4 DEF TakeFills, CancelOrder
<1>5. ASSUME Boot \/ (\E id \in OrderIds : SaveOrder(id)) \/ UNCHANGED vars
      PROVE  pc'[t] = pc[t] /\ call'[t] = call[t]
  BY <1>5 DEF Boot, LoadOrders, EndBoot, RestoreOrder, SaveOrder, vars
<1>6. ASSUME NEW i \in Instruments, Tick(i)
      PROVE  pc'[t] = pc[t] /\ call'[t] = call[t]
  BY <1>1, <1>6 DEF Tick, SetBook, Placing
<1>7. pc'[t] = pc[t] /\ call'[t] = call[t]
  BY <1>2, <1>3, <1>4, <1>5, <1>6 DEF Next
<1> QED
  BY <1>7 DEF Placing

\* The order of a call that begins.
LEMMA PlaceCheckPlaces ==
  ASSUME IInv, NEW t \in Threads, NEW id \in OrderIds, NEW r \in Requests,
         PlaceCheck(t, id, r)
  PROVE  /\ Ready(t) /\ r.clid \notin LiveClids /\ orders' = orders
         /\ call'[t].order.clid = r.clid
         /\ pc'[t] \in { "read", "refuse" }
         /\ pc'[t] = "refuse" => call'[t].order.type = "stop"
<1> DEFINE p == [r EXCEPT !.status = IF r.type = "stop" THEN "rejected" ELSE "submitted"]
<1>1. /\ Ready(t) /\ r.clid \notin LiveClids /\ orders' = orders
      /\ pc' = [pc EXCEPT ![t] = IF r.type = "stop" THEN "refuse" ELSE "read"]
      /\ call' = [call EXCEPT ![t] = [id |-> id, top |-> NoTop, order |-> p]]
  BY DEF PlaceCheck
<1>2. r \in OrderSpecs
  BY EngineAssumption
<1>3. p.clid = r.clid /\ p.type = r.type
  BY <1>2 DEF OrderSpecs
<1> HIDE DEF p
<1>4. call'[t].order = p /\ pc'[t] = IF r.type = "stop" THEN "refuse" ELSE "read"
  BY <1>1 DEF IInv, CallsOK, SharedOK
<1> QED
  BY <1>1, <1>3, <1>4

\* An immediate-or-cancel order that takes liquidity has ended.
Ended(o) == o.tif = "ioc" /\ o.type \in { "limit", "market" } => IsTerminal(o.status)

\* IocNeverRests, and of the orders that are stored or about to become known.
AllEnded ==
  /\ \A id \in Known : Ended(orders[id])
  /\ \A id \in DOMAIN stored : Ended(stored[id])
  /\ \A t \in Threads : pc[t] \in { "refuse", "insert" } => Ended(call[t].order)

\* What a step leaves in the store was there, or is an order as the engine has it.
LEMMA StoredStep ==
  ASSUME IInv, [Next]_vars, NEW id \in DOMAIN stored'
  PROVE  \/ id \in DOMAIN stored /\ stored'[id] = stored[id]
         \/ id \in Known /\ stored'[id] = orders[id]
<1>1. ASSUME NEW x \in OrderIds, RestoreOrder(x) \/ LoadOrders
      PROVE  id \in DOMAIN stored /\ stored'[id] = stored[id]
  BY <1>1 DEF RestoreOrder, LoadOrders, Restrict
<1>2. ASSUME NEW x \in OrderIds, SaveOrder(x)
      PROVE  \/ id \in DOMAIN stored /\ stored'[id] = stored[id]
             \/ id \in Known /\ stored'[id] = orders[id]
  BY <1>2 DEF SaveOrder
<1>3. CASE LoadOrders
  BY <1>3 DEF LoadOrders, Restrict
<1>4. CASE EndBoot \/ (\E i \in Instruments : Tick(i)) \/ UNCHANGED vars
  BY <1>4 DEF EndBoot, Tick, SetBook, vars, booted
<1>5. ASSUME NEW t \in Threads,
             \/ Continue(t) \/ TakeFills(t)
             \/ \E x \in OrderIds, r \in Requests : PlaceCheck(t, x, r)
             \/ \E x \in OrderIds : CancelOrder(t, x)
      PROVE  stored' = stored
  BY <1>5 DEF Continue, ReadTop, TakeNow, Insert, BeginMatch, MatchOne, EndMatch, Publish,
              TakeFills, PlaceCheck, CancelOrder, booted
<1> QED
  BY <1>1, <1>2, <1>3, <1>4, <1>5 DEF Next, Boot

LEMMA EndedStep ==
  ASSUME IInv, [Next]_vars, AllEnded
  PROVE  AllEnded'
<1>1. ASSUME NEW id \in Known'
      PROVE  Ended(orders'[id])
  <2>1. ASSUME id \in Known, Kept(id)
        PROVE  Ended(orders'[id])
    <3>1. Ended(orders[id])
      BY <2>1 DEF AllEnded
    <3> QED
      BY <2>1, <3>1 DEF Kept, Ended
  <2>2. ASSUME Reseated(id)
        PROVE  Ended(orders'[id])
    BY <2>2 DEF Reseated, AllEnded
  <2>3. ASSUME NEW t \in Threads, Insert(t), orders'[id] = call[t].order
        PROVE  Ended(orders'[id])
    BY <2>3 DEF Insert, AllEnded
  <2> QED
    BY <2>1, <2>2, <2>3, OrdersStep DEF MadeKnown
<1>2. ASSUME NEW t \in Threads, pc'[t] \in { "refuse", "insert" }
      PROVE  Ended(call'[t].order)
  <2>1. CASE ReadTop(t)
    <3>1. PICK o \in Orders, top \in Tops :
            \/ /\ pc'[t] = "refuse" /\ ReturnsEarly(o, top)
               /\ call'[t].order = [o EXCEPT !.status = EarlyStatus(o, top)]
            \/ pc'[t] = "take"
      BY <2>1, ReadTopPlaces
    <3>2. /\ call'[t].order.tif = o.tif /\ call'[t].order.type = o.type
          /\ o.type = "post_only" \/ o.tif = "fok"
      BY <1>2, <3>1, OrderFields DEF OrderSpecs, ReturnsEarly
    <3> QED
      BY <3>2 DEF Ended
  <2>2. CASE TakeNow(t)
    <3>1. PICK o \in Orders, top \in Tops, p \in Orders :
            /\ call'[t].order = p /\ p.tif = o.tif
            /\ o.tif = "ioc" => IsTerminal(p.status)
      BY <2>2, TakeNowPlaces
    <3> QED
      BY <3>1 DEF Ended
  <2>3. ASSUME NEW id \in OrderIds, NEW r \in Requests, PlaceCheck(t, id, r)
        PROVE  Ended(call'[t].order)
    BY <1>2, <2>3, PlaceCheckPlaces DEF Ended
  <2>4. CASE /\ ~ ReadTop(t) /\ ~ TakeNow(t)
             /\ \A id \in OrderIds, r \in Requests : ~ PlaceCheck(t, id, r)
    <3>1. pc'[t] = pc[t] /\ call'[t] = call[t]
      BY <1>2, <2>4, OtherCalls DEF Placing
    <3> QED
      BY <1>2, <3>1 DEF AllEnded
  <2> QED
    BY <2>1, <2>2, <2>3, <2>4
<1>3. \A id \in DOMAIN stored' : Ended(stored'[id])
  BY StoredStep DEF AllEnded
<1> QED
  BY <1>1, <1>2, <1>3 DEF AllEnded

\* With any number of threads, an immediate-or-cancel order is terminal as soon as
\* it can be seen.
THEOREM IocEndsAtOnce ==
  ASSUME RestoredRest
  PROVE  Spec => []IocNeverRests
<1>1. Init => AllEnded
  BY DEF Init, AllEnded, Ended, RestoredRest, Known
<1>2. IInv /\ AllEnded /\ [Next]_vars => AllEnded'
  BY EndedStep
<1>3. AllEnded => IocNeverRests
  BY DEF AllEnded, Ended, IocNeverRests
<1> QED
  BY <1>1, <1>2, <1>3, InvariantHolds, PTL DEF Spec

(***************************************************************************)
(* What holds as long as one thread at a time calls the engine             *)
(***************************************************************************)

OneThread == \A t, u \in Threads : t = u

\* A fill-or-kill order that takes liquidity is filled whole or not at all, and has
\* ended unless fills are immediate.
Whole(o) ==
  o.tif = "fok" /\ o.type \in { "limit", "market" } =>
    /\ o.filled \in { 0, o.quantity }
    /\ RespectsLiquidity => IsTerminal(o.status)

\* FokAllOrNone, of the orders that are stored or about to become known too, and the
\* top that let a call pass the fill-or-kill check is still that of the book.
AllWhole ==
  /\ \A id \in Known : Whole(orders[id])
  /\ \A id \in DOMAIN stored : Whole(stored[id])
  /\ \A t \in Threads :
       /\ pc[t] \in { "refuse", "insert" } => Whole(call[t].order)
       /\ RespectsLiquidity /\ pc[t] = "take" =>
            /\ call[t].top = book[call[t].order.instrument]
            /\ ~ ReturnsEarly(call[t].order, call[t].top)

\* What passes the check against a top is filled whole by it, unless it is a market
\* order and that side of the book is empty.
LEMMA FokTakes ==
  ASSUME NEW o \in Orders, o.filled = 0, o.tif = "fok", o.type \in { "limit", "market" },
         NEW top \in Tops, RespectsLiquidity, ~ ReturnsEarly(o, top)
  PROVE  \/ TakeQty(o, top) = o.quantity
         \/ o.type = "market" /\ TakeQty(o, top) = 0
<1> DEFINE clip == ClipQty(Remaining(o), OppositeQty(o.side, top))
<1>1. /\ o.quantity \in Nat /\ o.quantity > 0 /\ Remaining(o) = o.quantity
      /\ OppositeQty(o.side, top) \in Nat
  BY OrderFields, OppositeType DEF Remaining
<1>2. clip \in 0..o.quantity
  BY <1>1, ClipQtyBounds
<1>3. ~ (FillableNow(o, top) < o.quantity)
  BY <1>1 DEF ReturnsEarly
<1>4. FillableNow(o, top) = IF o.type = "market" \/ Crosses(o, top) THEN clip ELSE 0
  BY DEF FillableNow
<1> HIDE DEF clip
<1>5. clip = o.quantity /\ (o.type = "market" \/ Crosses(o, top))
  BY <1>1, <1>2, <1>3, <1>4
<1>6. o.type = "limit" => TakeQty(o, top) = clip
  BY <1>5 DEF TakeQty, clip
<1>7. o.type = "market" => TakeQty(o, top) = clip \/ TakeQty(o, top) = 0
  BY DEF TakeQty, clip
<1> QED
  BY <1>5, <1>6, <1>7

\* While the only thread is placing an order, nobody else delivers a tick.
LEMMA BookKept ==
  ASSUME IInv, [Next]_vars, OneThread, NEW t \in Threads, Placing(t)'
  PROVE  book' = book
<1>1. ASSUME NEW i \in Instruments, Tick(i)
      PROVE  FALSE
  <2>1. PICK u \in Threads, top \in Ticks : SetBook(u, i, top)
    BY <1>1 DEF Tick
  <2>2. u = t
    BY DEF OneThread
  <2> QED
    BY <2>1, <2>2 DEF SetBook, Placing, IInv, CallsOK, SharedOK
<1>2. ASSUME NEW u \in Threads, Continue(u)
      PROVE  book' = book
  BY <1>2 DEF Continue, ReadTop, TakeNow, Insert, BeginMatch, MatchOne, EndMatch, Publish
<1>3. ASSUME NEW u \in Threads,
             \/ TakeFills(u)
             \/ \E id \in OrderIds, r \in Requests : PlaceCheck(u, id, r)
             \/ \E id \in OrderIds : CancelOrder(u, id)
      PROVE  book' = book
  BY <1>3 DEF TakeFills, PlaceCheck, CancelOrder
<1>4. ASSUME Boot \/ (\E id \in OrderIds : SaveOrder(id)) \/ UNCHANGED vars
      PROVE  book' = book
  BY <1>4 DEF Boot, LoadOrders, EndBoot, RestoreOrder, SaveOrder, vars
<1> QED
  BY <1>1, <1>2, <1>3, <1>4 DEF Next

LEMMA WholeStep ==
  ASSUME IInv, [Next]_vars, OneThread \/ ~ RespectsLiquidity, AllWhole
  PROVE  AllWhole'
<1>1. ASSUME NEW id \in Known'
      PROVE  Whole(orders'[id])
  <2>1. ASSUME id \in Known, Kept(id)
        PROVE  Whole(orders'[id])
    <3>1. Whole(orders[id])
      BY <2>1 DEF AllWhole
    <3> QED
      BY <2>1, <3>1 DEF Kept, Whole
  <2>2. ASSUME Reseated(id)
        PROVE  Whole(orders'[id])
    BY <2>2 DEF Reseated, AllWhole
  <2>3. ASSUME NEW t \in Threads, Insert(t), orders'[id] = call[t].order
        PROVE  Whole(orders'[id])
    BY <2>3 DEF Insert, AllWhole
  <2> QED
    BY <2>1, <2>2, <2>3, OrdersStep DEF MadeKnown
<1>2. ASSUME NEW t \in Threads, pc'[t] \in { "refuse", "insert", "take" }
      PROVE  /\ pc'[t] \in { "refuse", "insert" } => Whole(call'[t].order)
             /\ RespectsLiquidity /\ pc'[t] = "take" =>
                  /\ call'[t].top = book'[call'[t].order.instrument]
                  /\ ~ ReturnsEarly(call'[t].order, call'[t].top)
  <2>1. CASE ReadTop(t)
    <3>1. PICK o \in Orders, top \in Tops :
            /\ o.filled = 0 /\ top = book[o.instrument]
            /\ \/ /\ pc'[t] = "refuse" /\ ReturnsEarly(o, top)
                  /\ call'[t].order = [o EXCEPT !.status = EarlyStatus(o, top)]
               \/ /\ pc'[t] = "take" /\ ~ ReturnsEarly(o, top)
                  /\ call'[t].order = o /\ call'[t].top = top
      BY <2>1, ReadTopPlaces
    <3>2. book' = book
      BY <2>1, ReadTopPlaces
    <3>3. CASE pc'[t] = "refuse"
      <4>1. /\ call'[t].order.type = o.type /\ call'[t].order.filled = 0
            /\ call'[t].order.status = EarlyStatus(o, top)
        <5>1. o \in OrderSpecs
          BY OrderFields
        <5> QED
          BY <3>1, <3>3, <5>1 DEF OrderSpecs
      <4>2. o.type # "post_only" => EarlyStatus(o, top) = "cancelled"
        BY DEF EarlyStatus
      <4> QED
        BY <3>3, <4>1, <4>2 DEF Whole, IsTerminal
    <3>4. CASE pc'[t] = "take"
      BY <3>1, <3>2, <3>4
    <3> QED
      BY <3>1, <3>3, <3>4
  <2>2. CASE TakeNow(t)
    <3>1. PICK o \in Orders, top \in Tops, p \in Orders :
            /\ o = call[t].order /\ o.status = "submitted" /\ o.filled = 0
            /\ o.type \in { "limit", "market" }
            /\ top = book[o.instrument]
            /\ call'[t].order = p /\ call'[t].id = call[t].id
            /\ p.filled = TakeQty(o, top)
            /\ p.clid = o.clid /\ p.quantity = o.quantity
            /\ p.type = o.type /\ p.tif = o.tif
            /\ o.tif = "ioc" => IsTerminal(p.status)
            /\ TakeQty(o, top) = o.quantity => p.status = "filled"
            /\ o.tif # "ioc" /\ o.type = "market" /\ TakeQty(o, top) = 0 =>
                 p.status = "rejected"
      BY <2>2, TakeNowPlaces
    <3>2. pc[t] = "take" /\ pc'[t] = "insert"
      BY <2>2, TakeNowPlaces DEF IInv, CallsOK, SharedOK
    <3>3. RespectsLiquidity => ~ ReturnsEarly(o, top)
      BY <3>1, <3>2 DEF AllWhole
    <3>4. RespectsLiquidity /\ o.tif = "fok" =>
            \/ TakeQty(o, top) = o.quantity
            \/ o.type = "market" /\ TakeQty(o, top) = 0
      BY <3>1, <3>3, FokTakes
    <3>5. ~ RespectsLiquidity => TakeQty(o, top) \in { 0, o.quantity }
      <4>1. Remaining(o) = o.quantity
        BY <3>1, OrderFields DEF Remaining
      <4> QED
        BY <4>1, WholeOrNothing
    <3>6. Whole(p)
      BY <3>1, <3>4, <3>5 DEF Whole, IsTerminal
    <3> QED
      BY <3>1, <3>2, <3>6
  <2>3. ASSUME NEW id \in OrderIds, NEW r \in Requests, PlaceCheck(t, id, r)
        PROVE  pc'[t] = "refuse" /\ Whole(call'[t].order)
    BY <1>2, <2>3, PlaceCheckPlaces DEF Whole
  <2>4. CASE /\ ~ ReadTop(t) /\ ~ TakeNow(t)
             /\ \A id \in OrderIds, r \in Requests : ~ PlaceCheck(t, id, r)
    <3>1. Placing(t)'
      BY <1>2 DEF Placing
    <3>2. pc'[t] = pc[t] /\ call'[t] = call[t]
      BY <2>4, <3>1, OtherCalls
    <3>3. RespectsLiquidity => book' = book
      BY <3>1, BookKept
    <3> QED
      BY <1>2, <3>2, <3>3 DEF AllWhole
  <2> QED
    BY <2>1, <2>2, <2>3, <2>4
<1>3. \A id \in DOMAIN stored' : Whole(stored'[id])
  BY StoredStep DEF AllWhole
<1> QED
  BY <1>1, <1>2, <1>3 DEF AllWhole

\* A fill-or-kill order that takes liquidity is filled whole or not at all: with the
\* fill model the program ships for any number of threads, and with the models that
\* respect the book for one caller, who never sees it rest either.
THEOREM FokFilledWholeOrNotAtAll ==
  ASSUME RestoredRest, OneThread \/ ~ RespectsLiquidity
  PROVE  Spec => []FokAllOrNone
<1>1. Init => AllWhole
  BY DEF Init, AllWhole, Whole, RestoredRest, Known
<1>2. IInv /\ AllWhole /\ [Next]_vars => AllWhole'
  BY WholeStep
<1>3. AllWhole => FokAllOrNone
  BY DEF AllWhole, Whole, FokAllOrNone
<1> QED
  BY <1>1, <1>2, <1>3, InvariantHolds, PTL DEF Spec

\* OneLiveOrderPerClid, with the orders that are being placed, whose client order ids
\* are those of no live order, and those the restore is still to seat: no call is made
\* before all of them are seated.
ClidsFresh ==
  /\ OneLiveOrderPerClid
  /\ \A t \in Threads : Placing(t) => boot = "done" /\ call[t].order.clid \notin LiveClids
  /\ boot # "done" =>
       /\ \A a, b \in DOMAIN stored : stored[a].clid = stored[b].clid => a = b
       /\ \A a \in DOMAIN stored : stored[a].clid \notin LiveClids

LEMMA LiveClidsContain ==
  ASSUME NEW id \in Known, ~ IsTerminal(orders[id].status)
  PROVE  orders[id].clid \in LiveClids
  BY DEF LiveClids

\* Once they are seated, a call that is let in adds a client order id nobody has.
LEMMA ClidsFreshCalls ==
  ASSUME IInv, [Next]_vars, OneThread, ClidsFresh, boot = "done", boot' = "done"
  PROVE  ClidsFresh'
<1>1. \A id \in Known : Kept(id)
  BY OrdersStep DEF Reseated, RestoreOrder
<1>2. ASSUME NEW id \in Known, ~ IsTerminal(orders'[id].status)
      PROVE  ~ IsTerminal(orders[id].status) /\ orders'[id].clid = orders[id].clid
  BY <1>1, <1>2 DEF Kept
<1>3. ASSUME NEW id \in Known' \ Known
      PROVE  /\ Known' = Known \cup {id} /\ orders'[id].clid \notin LiveClids
             /\ \E t \in Threads : Insert(t)
  <2>1. ~ Reseated(id)
    BY DEF Reseated, RestoreOrder
  <2>2. PICK t \in Threads : /\ Insert(t) /\ orders'[id] = call[t].order
                             /\ Known' = Known \cup {id}
    BY <2>1, OrdersStep DEF MadeKnown
  <2> QED
    BY <2>2 DEF Insert, Placing, ClidsFresh
<1>4. OneLiveOrderPerClid'
  <2> SUFFICES ASSUME NEW a \in Known', NEW b \in Known',
                      orders'[a].clid = orders'[b].clid,
                      ~ IsTerminal(orders'[a].status), ~ IsTerminal(orders'[b].status)
               PROVE  a = b
    BY DEF OneLiveOrderPerClid
  <2>1. CASE a \in Known /\ b \in Known
    BY <1>2, <2>1 DEF ClidsFresh, OneLiveOrderPerClid
  <2>2. CASE a \in Known /\ b \notin Known
    BY <1>2, <1>3, <2>2, LiveClidsContain
  <2>3. CASE a \notin Known /\ b \in Known
    BY <1>2, <1>3, <2>3, LiveClidsContain
  <2>4. CASE a \notin Known /\ b \notin Known
    BY <1>3, <2>4
  <2> QED
    BY <2>1, <2>2, <2>3, <2>4
<1>5. ASSUME NEW t \in Threads, Placing(t)'
      PROVE  call'[t].order.clid \notin LiveClids'
  <2>1. ASSUME orders' = orders, NEW o, o.clid \notin LiveClids,
               call'[t].order.clid = o.clid
        PROVE  call'[t].order.clid \notin LiveClids'
    BY <2>1 DEF LiveClids, Known
  <2>2. CASE ReadTop(t)
    <3>1. PICK o \in Orders, top \in Tops :
            /\ o = call[t].order
            /\ \/ call'[t].order = [o EXCEPT !.status = EarlyStatus(o, top)]
               \/ call'[t].order = o
      BY <2>2, ReadTopPlaces
    <3>2. pc[t] = "read" /\ orders' = orders
      BY <2>2, ReadTopPlaces
    <3>3. call'[t].order.clid = o.clid
      BY <3>1, OrderFields DEF OrderSpecs
    <3> QED
      BY <2>1, <3>1, <3>2, <3>3 DEF ClidsFresh, Placing
  <2>3. CASE TakeNow(t)
    <3>1. pc[t] = "take" /\ orders' = orders
      BY <2>3, TakeNowPlaces
    <3>2. call'[t].order.clid = call[t].order.clid
      BY <2>3, TakeNowPlaces
    <3> QED
      BY <2>1, <3>1, <3>2 DEF ClidsFresh, Placing
  <2>4. ASSUME NEW id \in OrderIds, NEW r \in Requests, PlaceCheck(t, id, r)
        PROVE  call'[t].order.clid \notin LiveClids'
    BY <2>1, <2>4, PlaceCheckPlaces
  <2>5. CASE /\ ~ ReadTop(t) /\ ~ TakeNow(t)
             /\ \A id \in OrderIds, r \in Requests : ~ PlaceCheck(t, id, r)
    <3>1. Placing(t) /\ call'[t] = call[t]
      BY <1>5, <2>5, OtherCalls
    <3>2. call[t].order.clid \notin LiveClids
      BY <3>1 DEF ClidsFresh
    <3>3. ~ \E u \in Threads : Insert(u)
      <4>1. ~ Insert(t)
        BY <1>5 DEF Insert, Placing, IInv, CallsOK, SharedOK
      <4> QED
        BY <4>1 DEF OneThread
    <3>4. \A id \in Known' : id \in Known
      BY <1>3, <3>3
    <3>5. LiveClids' \subseteq LiveClids
      <4>1. ASSUME NEW id \in Known', ~ IsTerminal(orders'[id].status)
            PROVE  orders'[id].clid \in LiveClids
        BY <1>2, <3>4, <4>1, LiveClidsContain
      <4> QED
        BY <4>1 DEF LiveClids
    <3> QED
      BY <3>1, <3>2, <3>5
  <2> QED
    BY <2>2, <2>3, <2>4, <2>5
<1> QED
  BY <1>4, <1>5 DEF ClidsFresh

\* The restore seats the stored orders one by one, nobody else does anything.
LEMMA ClidsFreshBooting ==
  ASSUME IInv, Waited, ClidsFresh, boot # "done",
         LoadOrders \/ EndBoot \/ \E id \in OrderIds : RestoreOrder(id)
  PROVE  ClidsFresh'
<1>1. \A t \in Threads : ~ Placing(t)
  BY DEF Waited, Placing
<1>2. CASE LoadOrders \/ EndBoot
  <2>1. /\ UNCHANGED << orders, pc, call >>
        /\ \A x \in DOMAIN stored' : x \in DOMAIN stored /\ stored'[x] = stored[x]
    BY <1>2 DEF LoadOrders, EndBoot, Restrict
  <2>2. OneLiveOrderPerClid' /\ LiveClids' = LiveClids
    BY <2>1 DEF ClidsFresh, OneLiveOrderPerClid, LiveClids, Known
  <2> QED
    BY <1>1, <2>1, <2>2 DEF ClidsFresh, Placing
<1>3. ASSUME NEW id \in OrderIds, RestoreOrder(id)
      PROVE  ClidsFresh'
  <2>1. /\ id \in DOMAIN stored /\ Known' = Known \cup {id} /\ orders'[id] = stored[id]
        /\ \A x \in Known \ {id} : orders'[x] = orders[x]
        /\ stored' = [x \in DOMAIN stored \ {id} |-> stored[x]]
        /\ UNCHANGED << pc, call >>
    BY <1>3, RestoreOrderDoes
  <2>2. id \notin Known
    BY <2>1 DEF Waited
  <2>3. \A x \in Known : orders'[x] = orders[x]
    BY <2>1, <2>2
  <2>4. \A x \in Known : ~ IsTerminal(orders[x].status) => orders[x].clid # stored[id].clid
    BY <2>1, LiveClidsContain DEF ClidsFresh
  <2>5. OneLiveOrderPerClid'
    BY <2>1, <2>3, <2>4 DEF ClidsFresh, OneLiveOrderPerClid
  <2>6. LiveClids' \subseteq LiveClids \cup { stored[id].clid }
    BY <2>1, <2>3, LiveClidsContain DEF LiveClids
  <2>7. \A x \in DOMAIN stored' : /\ x \in DOMAIN stored /\ stored'[x] = stored[x] /\ x # id
    BY <2>1
  <2>8. /\ \A a, b \in DOMAIN stored' : stored'[a].clid = stored'[b].clid => a = b
        /\ \A a \in DOMAIN stored' : stored'[a].clid \notin LiveClids'
    BY <2>1, <2>6, <2>7 DEF ClidsFresh
  <2> QED
    BY <1>1, <2>1, <2>5, <2>8 DEF ClidsFresh, Placing
<1> QED
  BY <1>2, <1>3

LEMMA ClidsFreshStep ==
  ASSUME IInv, Waited, [Next]_vars, OneThread, ~ EarlyCalls, ClidsFresh
  PROVE  ClidsFresh'
<1>1. CASE boot # "done" /\ (LoadOrders \/ EndBoot \/ \E id \in OrderIds : RestoreOrder(id))
  BY <1>1, ClidsFreshBooting
<1>2. CASE UNCHANGED vars
  <2>1. UNCHANGED << orders, pc, call, boot, stored >>
    BY <1>2 DEF vars
  <2> QED
    BY <2>1 DEF ClidsFresh, OneLiveOrderPerClid, LiveClids, Known, Placing
<1>3. CASE boot = "done" /\ UNCHANGED booted
  BY <1>3, ClidsFreshCalls DEF booted
<1> QED
  BY <1>1, <1>2, <1>3, WaitedCases

\* With one caller that starts after the restore, at most one live order carries a
\* client order id, across restarts too.
THEOREM ClidsUnique ==
  ASSUME OneThread, ~ EarlyCalls
  PROVE  Spec => []OneLiveOrderPerClid
<1>1. Init => ClidsFresh
  BY DEF Init, ClidsFresh, OneLiveOrderPerClid, LiveClids, Known, Placing
<1>2. IInv /\ Waited /\ ClidsFresh /\ [Next]_vars => ClidsFresh'
  BY ClidsFreshStep
<1>3. ClidsFresh => OneLiveOrderPerClid
  BY DEF ClidsFresh
<1>4. Spec => []Waited
  BY WaitedHolds
<1> QED
  BY <1>1, <1>2, <1>3, <1>4, InvariantHolds, PTL DEF Spec

=============================================================================
