---------------------------- MODULE OrderManager ----------------------------
(***************************************************************************)
(* The order manager of crates/tux-core/src/oms.rs in front of a venue     *)
(* that may act and lose its answer, and the reconciler of                 *)
(* crates/tux-exchange that compares the two.  Callers repeat their        *)
(* intents, and different intents may carry the same client order id.      *)
(* Every operation borrows the order manager for as long as it runs, also  *)
(* while it awaits the venue: each is one step, and what the venue does    *)
(* meanwhile shows as a step of the venue after it.                        *)
(*                                                                         *)
(* One instrument, and orders that execute at their price.  The venue is   *)
(* the ExecutionPort trait of domain.rs as oms.rs uses it.                 *)
(***************************************************************************)
EXTENDS OrderStatus, FiniteSets, Functions

CONSTANTS Intents, ClientOrderIds, Quantities, Prices,
          MaxOrders,     \* bound on the number of orders
          RetryUnknown   \* whether callers submit an unknown order again

ASSUME OrderManagerAssumption ==
  /\ Quantities \subseteq Nat \ {0} /\ Prices \subseteq Nat
  /\ MaxOrders \in Nat /\ RetryUnknown \in BOOLEAN

VARIABLES
  clid,        \* intent -> the client order id it carries
  orders,      \* Oms.orders: order id -> order
  by_intent,   \* Oms.by_intent: intent -> order id
  by_clid,     \* Oms.by_clid: client order id -> order id
  venue,       \* what the venue holds: order id -> status and filled
  reports,     \* every status the venue has ever reported of an order
  placements,  \* history: order id -> how often the venue accepted it
  answers      \* history: what create_from_intent answered

vars == << clid, orders, by_intent, by_clid, venue, reports, placements, answers >>

oms   == << orders, by_intent, by_clid >>
port  == << venue, reports, placements >>

OrderIds == 1..MaxOrders

Sides == { "buy", "sell" }

Nothing == [x \in {} |-> 0]

Put(map, key, value) ==
  [x \in DOMAIN map \cup {key} |-> IF x = key THEN value ELSE map[x]]

Init ==
  /\ clid \in [Intents -> ClientOrderIds]
  /\ orders = Nothing /\ by_intent = Nothing /\ by_clid = Nothing
  /\ venue = Nothing /\ reports = {}
  /\ placements = [id \in OrderIds |-> 0]
  /\ answers = {}

-----------------------------------------------------------------------------
(* create_from_intent *)

\* Mutation: an order that has ended is not found again.
Found_LiveOnly(i) ==
  LET ids == IF i \in DOMAIN by_intent THEN { by_intent[i] }
             ELSE { by_clid[k] : k \in DOMAIN by_clid \cap { clid[i] } }
  IN { id \in ids : ~ IsTerminal(orders[id].status) }

\* The order an intent already has, by its own id or by its client order id.
Found(i) ==
  IF i \in DOMAIN by_intent THEN { by_intent[i] }
  ELSE { by_clid[k] : k \in DOMAIN by_clid \cap { clid[i] } }

\* Only an order found by the intent's id must also have its price.
SamePayload(i, id, side, quantity, price) ==
  /\ orders[id].side = side /\ orders[id].quantity = quantity
  /\ i \in DOMAIN by_intent => orders[id].price = price

Answer(i, id, side, quantity) ==
  answers' = answers \cup
    { [intent |-> i, order |-> id, side |-> side, quantity |-> quantity] }

\* Mutation: the client order id is not indexed.
Index_NoClid(id, o) ==
  /\ orders' = Put(orders, id, o)
  /\ by_intent' = Put(by_intent, o.intent, id)
  /\ UNCHANGED by_clid

\* index_order
Index(id, o) ==
  /\ orders' = Put(orders, id, o)
  /\ by_intent' = Put(by_intent, o.intent, id)
  /\ by_clid' = Put(by_clid, o.clid, id)

\* A repeated intent gets the order there is; one with another payload, an error.
Repeat(i, side, quantity, price) ==
  \E id \in Found(i) :
    /\ SamePayload(i, id, side, quantity, price)
    /\ Answer(i, id, side, quantity)
    /\ UNCHANGED << clid, oms, port >>

Create(i, side, quantity, price) ==
  LET id == Cardinality(DOMAIN orders) + 1
  IN /\ Found(i) = {}
     /\ id \in OrderIds
     /\ Index(id, [ intent |-> i, clid |-> clid[i], side |-> side,
                    quantity |-> quantity, price |-> price,
                    status |-> "risk_approved", filled |-> 0 ])
     /\ Answer(i, id, side, quantity)
     /\ UNCHANGED << clid, port >>

-----------------------------------------------------------------------------
(* The venue *)

Live(v) == IsActive(v.status)

\* What the venue holds of an order after accepting, or refusing, it.
Accepted(o) ==
  { [status |-> "acknowledged", filled |-> 0], [status |-> "rejected", filled |-> 0],
    [status |-> "filled", filled |-> o.quantity] }

Reports(id, v) ==
  /\ venue' = Put(venue, id, v)
  /\ reports' = reports \cup { [order |-> id, status |-> v.status] }

VenueFills(id) ==
  LET v == venue[id]
  IN /\ Live(v) /\ v.filled < orders[id].quantity
     /\ Reports(id, [ filled |-> v.filled + 1,
                      status |-> IF v.filled + 1 = orders[id].quantity
                                   THEN "filled" ELSE "partially_filled" ])
     /\ UNCHANGED << clid, oms, placements, answers >>

VenueEnds(id) ==
  /\ Live(venue[id])
  /\ Reports(id, [venue[id] EXCEPT !.status = "cancelled"])
  /\ UNCHANGED << clid, oms, placements, answers >>

-----------------------------------------------------------------------------
(* submit, cancel, upsert, apply_status *)

\* Mutation: the transition to submitted is not checked.
MaySubmit_Always(status) == TRUE

\* apply_status accepts the status an order has already.
MaySubmit(status) == status = "submitted" \/ CanTransitionTo(status, "submitted")

Asked(id) ==
  /\ MaySubmit(orders[id].status)
  /\ orders[id].status = "unknown" => RetryUnknown

As(id, v) == [orders[id] EXCEPT !.status = v.status, !.filled = v.filled]

SubmitAnswered(id) ==
  /\ Asked(id)
  /\ \E v \in Accepted(orders[id]) :
       /\ Reports(id, v)
       /\ Index(id, As(id, v))
  /\ placements' = [placements EXCEPT ![id] = @ + 1]
  /\ UNCHANGED << clid, answers >>

\* Mutation: an error of the venue is taken for a rejection.
StatusAfterError_Rejected == "rejected"

\* mark_unknown
StatusAfterError == "unknown"

\* The venue has the order or not: the error does not tell.
SubmitFails(id) ==
  /\ Asked(id)
  /\ \/ \E v \in Accepted(orders[id]) :
          /\ Reports(id, v)
          /\ placements' = [placements EXCEPT ![id] = @ + 1]
     \/ UNCHANGED port
  /\ Index(id, [orders[id] EXCEPT !.status = StatusAfterError])
  /\ UNCHANGED << clid, answers >>

\* An order that has ended at the venue is answered as it is.  Only the order is
\* replaced, if the venue answers; nothing is, if it does not.
Cancel(id) ==
  /\ id \in DOMAIN venue
  /\ LET v == IF Live(venue[id]) THEN [venue[id] EXCEPT !.status = "cancelled"]
                                ELSE venue[id]
     IN /\ Reports(id, v)
        /\ orders' = Put(orders, id, As(id, v)) \/ UNCHANGED orders
  /\ UNCHANGED << clid, by_intent, by_clid, placements, answers >>

\* query_order and upsert, as the runtime does after every fill.
Query(id) ==
  /\ id \in DOMAIN venue
  /\ Index(id, As(id, venue[id]))
  /\ UNCHANGED << clid, port, answers >>

\* apply_status with a report of the venue, late, repeated or out of order.
ApplyStatus(r) ==
  /\ orders' = [orders EXCEPT ![r.order].status = StatusAfter(@, r.status)]
  /\ UNCHANGED << clid, by_intent, by_clid, port, answers >>

Next ==
  \/ \E i \in Intents, side \in Sides, quantity \in Quantities, price \in Prices :
       Repeat(i, side, quantity, price) \/ Create(i, side, quantity, price)
  \/ \E id \in DOMAIN orders :
       SubmitAnswered(id) \/ SubmitFails(id) \/ Cancel(id) \/ Query(id)
  \/ \E id \in DOMAIN venue : VenueFills(id) \/ VenueEnds(id)
  \/ \E r \in reports : ApplyStatus(r)

Spec == Init /\ [][Next]_vars

-----------------------------------------------------------------------------
(* Reconciler *)

\* Mutation: what is only at the venue is not looked for.
DiffOrders_LocalOnly(local, remote) == local \ remote

\* diff_orders, on the client order ids of the two lists.
DiffOrders(local, remote) == (local \ remote) \cup (remote \ local)

\* diff_balances and diff_positions: an amount that is missing is zero.
DiffAmounts(local, remote) ==
  LET of(amounts, x) == IF x \in DOMAIN amounts THEN amounts[x] ELSE 0
  IN { x \in DOMAIN local \cup DOMAIN remote : of(local, x) # of(remote, x) }

ActiveOrders == { id \in DOMAIN orders : IsActive(orders[id].status) }
OpenOrders   == { id \in DOMAIN venue : Live(venue[id]) }

\* What the fills of a list of orders brought in, less what they gave away.
Bought(filled) ==
  LET base == [id \in DOMAIN filled |->
                 IF orders[id].side = "buy" THEN filled[id] ELSE 0 - filled[id]]
  IN [ base  |-> SumFunction(base),
       quote |-> SumFunction([id \in DOMAIN base |-> 0 - base[id] * orders[id].price]) ]

ReportClean ==
  /\ DiffOrders({ orders[id].clid : id \in ActiveOrders },
                { orders[id].clid : id \in OpenOrders }) = {}
  /\ DiffAmounts(Bought([id \in DOMAIN orders |-> orders[id].filled]),
                 Bought([id \in DOMAIN venue |-> venue[id].filled])) = {}

-----------------------------------------------------------------------------
(* Properties *)

OrderRecords ==
  [ intent : Intents, clid : ClientOrderIds, side : Sides,
    quantity : Quantities, price : Prices, status : OrderStatuses, filled : Nat ]

\* The indexes lead to orders that carry the key, every order is found by its
\* client order id, and every variable has its type.
TypeOK ==
  /\ clid \in [Intents -> ClientOrderIds]
  /\ DOMAIN orders \subseteq OrderIds /\ orders \in [DOMAIN orders -> OrderRecords]
  /\ \A i \in DOMAIN by_intent :
       by_intent[i] \in DOMAIN orders /\ orders[by_intent[i]].intent = i
  /\ \A k \in DOMAIN by_clid :
       by_clid[k] \in DOMAIN orders /\ orders[by_clid[k]].clid = k
  /\ \A id \in DOMAIN orders :
       orders[id].clid \in DOMAIN by_clid /\ by_clid[orders[id].clid] = id
  /\ DOMAIN venue \subseteq DOMAIN orders
  /\ venue \in [DOMAIN venue -> [status : OrderStatuses, filled : Nat]]
  /\ placements \in [OrderIds -> Nat]

\* "Idempotent on intent id / client_order_id": however often an intent is
\* repeated, in whatever state its order is, it gets one and the same order,
\* which has the side and quantity it asked for.
IdempotentAnswers ==
  \A a, b \in answers :
    /\ a.intent = b.intent => a.order = b.order
    /\ orders[a.order].side = a.side /\ orders[a.order].quantity = a.quantity

\* Callers that repeat everything except unknown orders never have an order
\* accepted twice.
PlacedOnce == \A id \in OrderIds : placements[id] <= 1

\* What the venue may still execute is never taken for ended, nor for an order
\* that was not sent, whatever answers are lost and reports are late.
LiveOrdersKnown ==
  \A id \in OpenOrders :
    /\ ~ IsTerminal(orders[id].status)
    /\ orders[id].status \notin { "created", "risk_approved" }

\* Orders of a side that have filled more at the venue than is known here.
Unseen(side) ==
  { id \in DOMAIN venue : orders[id].side = side /\ orders[id].filled # venue[id].filled }

\* What a clean reconciliation leaves open: the orders that are active here are
\* the open ones there, although only client order ids are compared; and fills
\* that have not been seen, which sums might hide, are hidden on both sides or on
\* none, so that no order is behind where all buy or all sell.
CleanReportHidesPairsOnly ==
  ReportClean =>
    /\ ActiveOrders = OpenOrders
    /\ Unseen("buy") = {} <=> Unseen("sell") = {}

=============================================================================
