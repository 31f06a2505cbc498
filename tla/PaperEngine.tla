---------------------------- MODULE PaperEngine ----------------------------
(***************************************************************************)
(* The paper exchange of crates/tux-core/src/sim.rs: an ExecutionPort that *)
(* keeps orders and the latest book in one mutex (Inner) and the fills     *)
(* nobody has collected yet in another.  place_order and on_book_top take  *)
(* these mutexes several times in one call, so calls made by different     *)
(* threads interleave between the critical sections; each action below is  *)
(* one critical section, except the matching loop, which holds Inner for   *)
(* many steps (`holder').                                                  *)
(*                                                                         *)
(* EarlyCalls = FALSE is the demo process: the stored orders are restored  *)
(* before the first tick and the first order.  EarlyCalls = TRUE is the    *)
(* service: the price sampler and the HTTP handlers already run while the  *)
(* boot thread restores, and what they save may be what it reads.          *)
(***************************************************************************)
EXTENDS Integers, FiniteSets, Sequences, Functions, PaperMatching

CONSTANTS Threads, Instruments, ClientOrderIds, OrderIds,
          Requests,      \* what callers may order
          Restorable,    \* order records a store of an earlier life may hold
          Ticks,         \* tops the feed may deliver
          NoThread,
          EarlyCalls     \* calls are accepted while orders are restored

OrderSpecs ==
  [ clid : ClientOrderIds, instrument : Instruments, side : Sides,
    type : OrderTypes, tif : TimesInForce, price : Nat,
    quantity : Nat \ {0}, status : OrderStatuses, filled : Nat ]

ASSUME EngineAssumption ==
  /\ NoThread \notin Threads /\ IsFiniteSet(Threads)
  /\ EarlyCalls \in BOOLEAN
  /\ Ticks \subseteq Tops
  /\ Requests \subseteq
       { r \in OrderSpecs : /\ r.status = "risk_approved" /\ r.filled = 0
                            /\ r.type = "market" \/ r.price > NoPrice }
  /\ Restorable \subseteq
       { r \in OrderSpecs :
           /\ r.status \in { "acknowledged", "partially_filled" }
           /\ StatusAgreesWithFills(r.status, r.filled, r.quantity) }

VARIABLES
  orders,     \* Inner.orders: order id -> order, for the ids it knows
  book,       \* Inner.book: instrument -> top
  holder,     \* the thread that holds Inner across steps
  pending,    \* pending_fills
  delivered,  \* order id -> quantity accounted for outside the engine: the
              \* quantity collected by take_fills, or filled before a restore
  pc,         \* thread -> where its call stands
  call,       \* thread -> the order it is placing and the top it has read
  scan,       \* thread -> what its matching loop still has to visit
  hand,       \* thread -> fills its call has made and not yet published
  boot,       \* where restore_from_store stands: "load", "restore" or "done"
  stored,     \* order id -> the stored record the restore is still to seat
  setback     \* history: order id -> the record of this life a restore found
              \* in its place (before) and the one it put there (after)

booted == << boot, stored, setback >>

vars == << orders, book, holder, pending, delivered, pc, call, scan, hand,
           boot, stored, setback >>

Fills == [ order : OrderIds, side : Sides, price : Nat, quantity : Nat \ {0},
           is_maker : BOOLEAN ]

Free == holder = NoThread

NoCall == [id |-> "none"]
NoScan == [todo |-> {}]

\* A thread may start a call.
Ready(t) == pc[t] = "idle" /\ (boot # "done" => EarlyCalls)

\* Orders a thread is placing are not in Inner yet.
Placing(t) == pc[t] \in { "read", "refuse", "take", "insert" }

InFlight == { call[t].id : t \in { u \in Threads : Placing(u) } }

Known == DOMAIN orders

Inserted(id, o) ==
  [ x \in Known \cup {id} |-> IF x = id THEN o ELSE orders[x] ]

-----------------------------------------------------------------------------

\* The store is left by an earlier life: its orders have ids and client order
\* ids of their own.
Init ==
  /\ orders = [x \in {} |-> NoCall]
  /\ book = [i \in Instruments |-> NoTop]
  /\ holder = NoThread
  /\ pending = << >>
  /\ delivered = [id \in OrderIds |-> 0]
  /\ pc = [t \in Threads |-> "idle"]
  /\ call = [t \in Threads |-> NoCall]
  /\ scan = [t \in Threads |-> NoScan]
  /\ hand = [t \in Threads |-> << >>]
  /\ boot = "load"
  /\ \E S \in SUBSET OrderIds :
       /\ stored \in [S -> Restorable]
       /\ \A a, b \in S : stored[a].clid = stored[b].clid => a = b
  /\ setback = [x \in {} |-> NoCall]

-----------------------------------------------------------------------------
(* Restart *)

\* Mutation: partly filled orders do not count as duplicates.
LiveClids_OnlyAcknowledged ==
  { orders[id].clid : id \in { x \in Known : orders[x].status = "acknowledged" } }

LiveClids == { orders[id].clid : id \in { x \in Known : ~ IsTerminal(orders[x].status) } }

\* A caller that is early saves an order as the engine answered it.  What is
\* saved after the restore has read the store is of no use to this life.
SaveOrder(id) ==
  /\ boot = "load"
  /\ Free
  /\ id \in Known
  /\ stored' = [x \in DOMAIN stored \cup {id} |->
                  IF x = id THEN orders[id] ELSE stored[x]]
  /\ UNCHANGED << orders, book, holder, pending, delivered, pc, call, scan,
                  hand, boot, setback >>

\* The restore reads the open orders; it will seat the active ones.
LoadOrders ==
  /\ boot = "load"
  /\ boot' = "restore"
  /\ stored' = Restrict(stored, { id \in DOMAIN stored : IsActive(stored[id].status) })
  /\ UNCHANGED << orders, book, holder, pending, delivered, pc, call, scan,
                  hand, setback >>

\* Re-seats one order of the list, over whatever record the engine has of it.
RestoreOrder(id) ==
  /\ boot = "restore"
  /\ Free
  /\ id \in DOMAIN stored
  /\ orders' = Inserted(id, stored[id])
  /\ IF id \in Known
       THEN /\ setback' = [x \in DOMAIN setback \cup {id} |->
                 IF x = id THEN [before |-> orders[id], after |-> stored[id]]
                           ELSE setback[x]]
            /\ UNCHANGED delivered
       ELSE /\ delivered' = [delivered EXCEPT ![id] = stored[id].filled]
            /\ UNCHANGED setback
  /\ stored' = Restrict(stored, DOMAIN stored \ {id})
  /\ UNCHANGED << book, holder, pending, pc, call, scan, hand, boot >>

EndBoot ==
  /\ boot = "restore"
  /\ DOMAIN stored = {}
  /\ boot' = "done"
  /\ UNCHANGED << orders, book, holder, pending, delivered, pc, call, scan,
                  hand, stored, setback >>

Boot == LoadOrders \/ EndBoot \/ \E id \in OrderIds : RestoreOrder(id)

-----------------------------------------------------------------------------
(* place_order *)

\* The duplicate check.  A call it refuses returns with nothing changed.  The
\* id of an order is new when the order is made.
PlaceCheck(t, id, r) ==
  /\ Ready(t)
  /\ Free
  /\ id \notin Known \cup InFlight \cup DOMAIN stored
  /\ r.clid \notin LiveClids
  /\ pc' = [pc EXCEPT ![t] = IF r.type = "stop" THEN "refuse" ELSE "read"]
  /\ call' = [call EXCEPT ![t] =
       [ id |-> id, top |-> NoTop,
         order |-> [r EXCEPT !.status =
                      IF r.type = "stop" THEN "rejected" ELSE "submitted"] ]]
  /\ UNCHANGED << orders, book, holder, pending, delivered, scan, hand,
                  booted >>

ReadTop(t) ==
  /\ pc[t] = "read"
  /\ Free
  /\ LET o   == call[t].order
         top == book[o.instrument]
     IN IF ReturnsEarly(o, top)
          THEN /\ pc' = [pc EXCEPT ![t] = "refuse"]
               /\ call' = [call EXCEPT ![t].top = top,
                                       ![t].order.status = EarlyStatus(o, top)]
          ELSE /\ pc' = [pc EXCEPT ![t] = "take"]
               /\ call' = [call EXCEPT ![t].top = top]
  /\ UNCHANGED << orders, book, holder, pending, delivered, scan, hand,
                  booted >>

\* try_fill_now reads the book again, in a critical section of its own.
TakeNow(t) ==
  /\ pc[t] = "take"
  /\ Free
  /\ LET o     == call[t].order
         top   == book[o.instrument]
         qty   == TakeQty(o, top)
         after == IF qty > 0 THEN AfterFill(o, qty) ELSE o
     IN /\ call' = [call EXCEPT ![t].order =
                      [after EXCEPT !.status = PlacedStatus(after)]]
        /\ hand' = [hand EXCEPT ![t] =
             IF qty > 0
               THEN << FillOf(call[t].id, o, ExecPrice(o, top), qty, FALSE) >>
               ELSE << >>]
  /\ pc' = [pc EXCEPT ![t] = "insert"]
  /\ UNCHANGED << orders, book, holder, pending, delivered, scan, booted >>

Insert(t) ==
  /\ pc[t] \in { "insert", "refuse" }
  /\ Free
  /\ orders' = Inserted(call[t].id, call[t].order)
  /\ call' = [call EXCEPT ![t] = NoCall]
  /\ pc' = [pc EXCEPT ![t] = IF hand[t] = << >> THEN "idle" ELSE "publish"]
  /\ UNCHANGED << book, holder, pending, delivered, scan, hand, booted >>

-----------------------------------------------------------------------------
(* on_book_top *)

SetBook(t, i, top) ==
  /\ Ready(t)
  /\ Free
  /\ book' = [book EXCEPT ![i] = top]
  /\ pc' = [pc EXCEPT ![t] = "match"]
  /\ scan' = [scan EXCEPT ![t] = [instrument |-> i, todo |-> {}]]
  /\ UNCHANGED << orders, holder, pending, delivered, call, hand, booted >>

BeginMatch(t) ==
  /\ pc[t] = "match"
  /\ Free
  /\ holder' = t
  /\ LET i   == scan[t].instrument
         top == book[i]
     IN scan' = [scan EXCEPT ![t] =
          [ instrument |-> i, top |-> top,
            todo |-> { id \in Known : orders[id].instrument = i
                                      /\ Rests(orders[id]) },
            left |-> Displayed(top) ]]
  /\ pc' = [pc EXCEPT ![t] = "matching"]
  /\ UNCHANGED << orders, book, pending, delivered, call, hand, booted >>

\* One turn of the loop.  The ids come out of a HashMap, in any order.
MatchOne(t, id) ==
  /\ pc[t] = "matching"
  /\ id \in scan[t].todo
  /\ LET o   == orders[id]
         top == scan[t].top
         qty == MatchQty(o, top, scan[t].left)
     IN IF qty > 0
          THEN /\ scan' = [scan EXCEPT ![t].todo = @ \ {id},
                                       ![t].left = LeftAfter(@, o.side, qty)]
               /\ orders' = [orders EXCEPT ![id] = AfterFill(o, qty)]
               /\ hand' = [hand EXCEPT ![t] =
                    Append(@, FillOf(id, o, ExecPrice(o, top), qty, TRUE))]
          ELSE /\ scan' = [scan EXCEPT ![t].todo = @ \ {id}]
               /\ UNCHANGED << orders, hand >>
  /\ UNCHANGED << book, holder, pending, delivered, pc, call, booted >>

EndMatch(t) ==
  /\ pc[t] = "matching"
  /\ scan[t].todo = {}
  /\ holder' = NoThread
  /\ pc' = [pc EXCEPT ![t] = "publish"]
  /\ UNCHANGED << orders, book, pending, delivered, call, scan, hand, booted >>

-----------------------------------------------------------------------------
(* pending_fills, and the operations of one critical section *)

\* Mutation: a call replaces the fills other calls have published.
Publish_Overwrites(t) ==
  /\ pc[t] = "publish"
  /\ pending' = hand[t]
  /\ hand' = [hand EXCEPT ![t] = << >>]
  /\ scan' = [scan EXCEPT ![t] = NoScan]
  /\ pc' = [pc EXCEPT ![t] = "idle"]
  /\ UNCHANGED << orders, book, holder, delivered, call, booted >>

\* The last step of place_order and of on_book_top.
Publish(t) ==
  /\ pc[t] = "publish"
  /\ pending' = pending \o hand[t]
  /\ hand' = [hand EXCEPT ![t] = << >>]
  /\ scan' = [scan EXCEPT ![t] = NoScan]
  /\ pc' = [pc EXCEPT ![t] = "idle"]
  /\ UNCHANGED << orders, book, holder, delivered, call, booted >>

\* The quantity of order id in a sequence of fills.
FilledIn(fills, id) ==
  SumFunction([n \in DOMAIN fills |->
                 IF fills[n].order = id THEN fills[n].quantity ELSE 0])

\* Mutation: a single fill is not worth collecting.
TakeFills_WaitsForTwo(t) ==
  /\ Ready(t)
  /\ Len(pending) > 1
  /\ delivered' = [id \in OrderIds |-> delivered[id] + FilledIn(pending, id)]
  /\ pending' = << >>
  /\ UNCHANGED << orders, book, holder, pc, call, scan, hand, booted >>

TakeFills(t) ==
  /\ Ready(t)
  /\ pending # << >>
  /\ delivered' = [id \in OrderIds |-> delivered[id] + FilledIn(pending, id)]
  /\ pending' = << >>
  /\ UNCHANGED << orders, book, holder, pc, call, scan, hand, booted >>

\* A cancellation that finds a terminal order returns it unchanged.
CancelOrder(t, id) ==
  /\ Ready(t)
  /\ Free
  /\ id \in Known
  /\ orders[id].status \in { "acknowledged", "partially_filled", "submitted" }
  /\ orders' = [orders EXCEPT ![id].status = StatusAfter(@, "cancelled")]
  /\ UNCHANGED << book, holder, pending, delivered, pc, call, scan, hand,
                  booted >>

-----------------------------------------------------------------------------

Continue(t) ==
  \/ ReadTop(t)
  \/ TakeNow(t)
  \/ Insert(t)
  \/ BeginMatch(t)
  \/ \E id \in OrderIds : MatchOne(t, id)
  \/ EndMatch(t)
  \/ Publish(t)

Tick(i) == \E t \in Threads, top \in Ticks : SetBook(t, i, top)

Next ==
  \/ Boot
  \/ \E id \in OrderIds : SaveOrder(id)
  \/ \E i \in Instruments : Tick(i)
  \/ \E t \in Threads :
       \/ Continue(t)
       \/ TakeFills(t)
       \/ \E id \in OrderIds, r \in Requests : PlaceCheck(t, id, r)
       \/ \E id \in OrderIds : CancelOrder(t, id)

Spec == Init /\ [][Next]_vars

\* The restore and every call run to their end, the feed ticks every instrument
\* again and again (the sampler's timer), and a loop that ticks collects the fills
\* after it.
Fairness ==
  /\ SF_vars(Boot)
  /\ \A t \in Threads : SF_vars(Continue(t))
  /\ \A i \in Instruments : SF_vars(Tick(i))
  /\ SF_vars(\E t \in Threads : TakeFills(t))

FairSpec == Spec /\ Fairness

-----------------------------------------------------------------------------
(* Properties *)

Orders == { o \in OrderSpecs : StatusAgreesWithFills(o.status, o.filled, o.quantity) }

Scans ==
  [ instrument : Instruments, top : Tops, todo : SUBSET OrderIds,
    left : [{ "buy", "sell" } -> Nat] ]

\* Every variable holds a value of its type: orders satisfy the agreement of
\* status and filled quantity, and a thread's locals are those of its step.
TypeOK ==
  /\ Known \subseteq OrderIds
  /\ orders \in [Known -> Orders]
  /\ book \in [Instruments -> Tops]
  /\ holder \in Threads \cup {NoThread}
  /\ pending \in Seq(Fills)
  /\ delivered \in [OrderIds -> Nat]
  /\ pc \in [Threads -> { "idle", "read", "refuse", "take", "insert", "match",
                          "matching", "publish" }]
  /\ hand \in [Threads -> Seq(Fills)]
  /\ boot \in { "load", "restore", "done" }
  /\ DOMAIN stored \subseteq OrderIds /\ stored \in [DOMAIN stored -> Orders]
  /\ DOMAIN setback \subseteq Known
  /\ setback \in [DOMAIN setback -> [before : Orders, after : Orders]]
  /\ \A t \in Threads :
       /\ Placing(t) => call[t] \in [id : OrderIds, order : Orders, top : Tops]
       /\ pc[t] = "match" => scan[t].instrument \in Instruments
       /\ pc[t] = "matching" => scan[t] \in Scans
       /\ pc[t] = "matching" <=> holder = t

\* What a restore took back of an order it set back to an older record.
TakenBack(id) ==
  IF id \in DOMAIN setback
    THEN setback[id].before.filled - setback[id].after.filled ELSE 0

\* No fill is lost or counted twice on its way out of the engine, whatever the
\* interleaving: what an order says it has filled, and what a restore that ran
\* beside the callers has made it forget, is what was collected plus what waits
\* in pending_fills plus what calls have matched and not published.
FillsConserved ==
  \A id \in Known :
    orders[id].filled + TakenBack(id) =
      delivered[id] + FilledIn(pending, id)
        + SumFunction([t \in Threads |-> FilledIn(hand[t], id)])

SpentInScan(t, side) ==
  SumFunction([n \in DOMAIN hand[t] |->
    IF orders[hand[t][n].order].side = side THEN hand[t][n].quantity ELSE 0])

\* "Consume displayed L1 size across multiple orders (no double-spend)": one
\* pass of match_resting hands out at most the size the book displays, however
\* many orders rest on each side and in whatever order the map yields them.
DisplayedSizeSpentOnce ==
  RespectsLiquidity =>
    \A t \in Threads : pc[t] = "matching" =>
      \A side \in Sides :
        SpentInScan(t, side) + scan[t].left[side]
          = OppositeQty(side, scan[t].top)

\* "Detect duplicate client_order_id (restart safety)": at most one order that
\* is not terminal carries a client order id.
OneLiveOrderPerClid ==
  \A a, b \in Known :
    /\ orders[a].clid = orders[b].clid
    /\ ~ IsTerminal(orders[a].status)
    /\ ~ IsTerminal(orders[b].status)
    => a = b

\* "FOK: all-or-none against current liquidity": a fill-or-kill order that may
\* take liquidity is filled whole or not at all.  It never stays in the book
\* either, unless the fill model gives every order all it asks for: then what
\* finds no book, or does not cross it, is left to rest.
FokAllOrNone ==
  \A id \in Known :
    orders[id].tif = "fok" /\ orders[id].type \in { "limit", "market" } =>
      /\ orders[id].filled \in { 0, orders[id].quantity }
      /\ RespectsLiquidity => IsTerminal(orders[id].status)

\* "IOC: fill what we can now, cancel remainder": an immediate-or-cancel order
\* is terminal as soon as it can be seen.
IocNeverRests ==
  \A id \in Known :
    orders[id].tif = "ioc" /\ orders[id].type \in { "limit", "market" } =>
      IsTerminal(orders[id].status)

\* The lives of the orders: one for every order, and a second for one that a
\* restore has set back, which starts at the record the restore put in its place.
Lives == (Known \X { "first" }) \cup ((DOMAIN setback) \X { "second" })

RecordOf(l) ==
  IF l[2] = "first" /\ l[1] \in DOMAIN setback THEN setback[l[1]].before
                                               ELSE orders[l[1]]

LifeOf(o) == [status |-> o.status, filled |-> o.filled, quantity |-> o.quantity]

\* The engine keeps the promise every venue makes about its orders in each of
\* their lives, and only a restore over a record of this life begins another.
Venue == INSTANCE OrderLifecycle WITH
           OrderIds <- OrderIds \X { "first", "second" },
           Quantities <- { r.quantity : r \in Requests \cup Restorable },
           life <- [l \in Lives |-> LifeOf(RecordOf(l))]

OrderLifecycleKept == Venue!Spec

\* No order stays in the book for ever while the book offers to fill it, not
\* even one that was inserted between a tick's new top and its matching pass.
CrossedOrderExecutes ==
  \A id \in OrderIds :
    []<> ~ ( /\ id \in Known
             /\ Rests(orders[id])
             /\ Crosses(orders[id], book[orders[id].instrument])
             /\ OppositeQty(orders[id].side, book[orders[id].instrument]) > 0 )

\* A fill that was published is eventually collected by somebody.
FillsCollected == pending # << >> ~> pending = << >>

=============================================================================
