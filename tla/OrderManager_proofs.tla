------------------------ MODULE OrderManager_proofs ------------------------
(***************************************************************************)
(* Proofs about OrderManager for all intents, client order ids, quantities *)
(* and prices, and every bound on the number of orders.  What needs        *)
(* callers that do not submit an unknown order again says so.              *)
(***************************************************************************)
EXTENDS OrderManager, FoldTheorems

(***************************************************************************)
(* The inductive invariant                                                 *)
(***************************************************************************)

\* What a venue reports of an order it has.
VenueStatuses ==
  { "acknowledged", "partially_filled", "filled", "cancelled", "rejected" }

\* Orders are numbered in turn, and each is found by its intent and has the
\* client order id of it.
Numbered ==
  /\ \E n \in 0..MaxOrders : DOMAIN orders = 1..n
  /\ DOMAIN by_intent \subseteq Intents
  /\ \A id \in DOMAIN orders :
       /\ orders[id].intent \in DOMAIN by_intent
       /\ by_intent[orders[id].intent] = id
       /\ orders[id].clid = clid[orders[id].intent]

\* Every answer names the order its intent would be given again.
Answered ==
  \A a \in answers :
    /\ a.intent \in Intents /\ a.order \in DOMAIN orders
    /\ orders[a.order].side = a.side /\ orders[a.order].quantity = a.quantity
    /\ Found(a.intent) = { a.order }

\* What is known here of an order comes from the venue and is not ahead of it:
\* an order whose status is the venue's is there, and it has filled no more.
Behind ==
  /\ \A id \in DOMAIN venue :
       /\ venue[id].status \in VenueStatuses
       /\ orders[id].status # "risk_approved"
       /\ orders[id].filled <= venue[id].filled
  /\ \A id \in DOMAIN orders :
       /\ orders[id].status \in VenueStatuses \cup { "risk_approved", "unknown" }
       /\ orders[id].status \in VenueStatuses => id \in DOMAIN venue
       /\ orders[id].status \in { "risk_approved", "unknown" } => orders[id].filled = 0
  /\ \A r \in reports : r.order \in DOMAIN venue /\ r.status \in VenueStatuses

\* With callers that do not submit an unknown order again, what was reported
\* ended stays so, here and there, and no order is placed that is there already.
Once ==
  /\ \A id \in OrderIds : id \notin DOMAIN venue => placements[id] = 0
  /\ ~ RetryUnknown =>
       /\ \A id \in OrderIds : placements[id] <= 1
       /\ \A r \in reports : IsTerminal(r.status) => ~ Live(venue[r.order])
       /\ \A id \in DOMAIN orders :
            IsTerminal(orders[id].status) => ~ Live(venue[id])

Inv == TypeOK /\ Numbered /\ Answered /\ Behind /\ Once

(***************************************************************************)
(* Steps                                                                   *)
(***************************************************************************)

\* A step that creates nothing: it gives some orders another status and other
\* fills, and leaves the indexes as they are.
Reindexed ==
  /\ clid' = clid
  /\ orders' \in [DOMAIN orders -> OrderRecords]
  /\ \A id \in DOMAIN orders :
       /\ orders'[id].intent = orders[id].intent
       /\ orders'[id].clid = orders[id].clid
       /\ orders'[id].side = orders[id].side
       /\ orders'[id].quantity = orders[id].quantity
  /\ DOMAIN by_intent' = DOMAIN by_intent
  /\ \A i \in DOMAIN by_intent : by_intent'[i] = by_intent[i]
  /\ DOMAIN by_clid' = DOMAIN by_clid
  /\ \A k \in DOMAIN by_clid : by_clid'[k] = by_clid[k]

\* Such a step keeps every order found as it was, and every answer right.
LEMMA ReindexedKeeps ==
  ASSUME TypeOK, Numbered, Answered, Reindexed
  PROVE  /\ Numbered'
         /\ answers' = answers => Answered'
         /\ \A i \in Intents : Found(i)' = Found(i)
         /\ \A i \in DOMAIN by_intent' :
              by_intent'[i] \in DOMAIN orders' /\ orders'[by_intent'[i]].intent = i
         /\ \A k \in DOMAIN by_clid' :
              by_clid'[k] \in DOMAIN orders' /\ orders'[by_clid'[k]].clid = k
         /\ \A id \in DOMAIN orders' :
              orders'[id].clid \in DOMAIN by_clid' /\ by_clid'[orders'[id].clid] = id
         /\ clid' \in [Intents -> ClientOrderIds]
         /\ DOMAIN orders' = DOMAIN orders
<1>1. DOMAIN orders' = DOMAIN orders
  BY DEF Reindexed
<1>2. /\ \A i \in DOMAIN by_intent : by_intent[i] \in DOMAIN orders
      /\ \A k \in DOMAIN by_clid : by_clid[k] \in DOMAIN orders
  BY DEF TypeOK
<1>3. Numbered'
  BY <1>1 DEF Numbered, Reindexed
<1>4. ASSUME NEW i \in Intents
      PROVE  Found(i)' = Found(i)
  BY DEF Found, Reindexed
<1>5. answers' = answers => Answered'
  <2> SUFFICES ASSUME answers' = answers, NEW a \in answers
               PROVE  /\ a.intent \in Intents /\ a.order \in DOMAIN orders'
                      /\ orders'[a.order].side = a.side /\ orders'[a.order].quantity = a.quantity
                      /\ Found(a.intent)' = { a.order }
    BY DEF Answered
  <2> QED
    BY <1>1, <1>4 DEF Answered, Reindexed
<1>6. /\ \A i \in DOMAIN by_intent' :
           by_intent'[i] \in DOMAIN orders' /\ orders'[by_intent'[i]].intent = i
      /\ \A k \in DOMAIN by_clid' :
           by_clid'[k] \in DOMAIN orders' /\ orders'[by_clid'[k]].clid = k
      /\ \A id \in DOMAIN orders' :
           orders'[id].clid \in DOMAIN by_clid' /\ by_clid'[orders'[id].clid] = id
  <2>1. ASSUME NEW i \in DOMAIN by_intent'
        PROVE  by_intent'[i] \in DOMAIN orders' /\ orders'[by_intent'[i]].intent = i
    <3>1. by_intent'[i] = by_intent[i] /\ orders[by_intent[i]].intent = i
      BY DEF TypeOK, Reindexed
    <3> QED
      BY <1>1, <1>2, <3>1 DEF Reindexed
  <2>2. ASSUME NEW k \in DOMAIN by_clid'
        PROVE  by_clid'[k] \in DOMAIN orders' /\ orders'[by_clid'[k]].clid = k
    <3>1. by_clid'[k] = by_clid[k] /\ orders[by_clid[k]].clid = k
      BY DEF TypeOK, Reindexed
    <3> QED
      BY <1>1, <1>2, <3>1 DEF Reindexed
  <2>3. ASSUME NEW id \in DOMAIN orders'
        PROVE  orders'[id].clid \in DOMAIN by_clid' /\ by_clid'[orders'[id].clid] = id
    <3>1. orders[id].clid \in DOMAIN by_clid /\ by_clid[orders[id].clid] = id
      BY <1>1 DEF TypeOK
    <3> QED
      BY <1>1, <3>1 DEF Reindexed
  <2> QED
    BY <2>1, <2>2, <2>3
<1>7. clid' \in [Intents -> ClientOrderIds]
  BY DEF TypeOK, Reindexed
<1> QED
  BY <1>1, <1>3, <1>4, <1>5, <1>6, <1>7

\* The order id gets the status s and the fills f.
Becomes(id, s, f) ==
  /\ id \in DOMAIN orders /\ s \in OrderStatuses /\ f \in Nat
  /\ orders' = [orders EXCEPT ![id].status = s, ![id].filled = f]

\* Index puts an order that is there already where it is.
LEMMA IndexBecomes ==
  ASSUME TypeOK, Numbered, NEW id \in DOMAIN orders,
         NEW s \in OrderStatuses, NEW f \in Nat,
         Index(id, [orders[id] EXCEPT !.status = s, !.filled = f]), clid' = clid
  PROVE  Becomes(id, s, f) /\ Reindexed
<1> DEFINE o == [orders[id] EXCEPT !.status = s, !.filled = f]
<1>1. orders \in [DOMAIN orders -> OrderRecords]
  BY DEF TypeOK
<1>2. o \in OrderRecords /\ o.intent = orders[id].intent /\ o.clid = orders[id].clid
      /\ o.side = orders[id].side /\ o.quantity = orders[id].quantity
  BY <1>1 DEF OrderRecords
<1>3. orders' = [orders EXCEPT ![id] = o]
  BY <1>1 DEF Index, Put
<1>4. /\ DOMAIN by_intent' = DOMAIN by_intent
      /\ \A i \in DOMAIN by_intent : by_intent'[i] = by_intent[i]
      /\ DOMAIN by_clid' = DOMAIN by_clid
      /\ \A k \in DOMAIN by_clid : by_clid'[k] = by_clid[k]
  <2>1. by_intent' = Put(by_intent, o.intent, id) /\ by_clid' = Put(by_clid, o.clid, id)
    BY DEF Index
  <2>2. /\ o.intent \in DOMAIN by_intent /\ by_intent[o.intent] = id
        /\ o.clid \in DOMAIN by_clid /\ by_clid[o.clid] = id
    BY <1>2 DEF TypeOK, Numbered
  <2> HIDE DEF o
  <2> QED
    BY <2>1, <2>2 DEF Put
<1>5. Becomes(id, s, f)
  BY <1>1, <1>3 DEF Becomes, OrderRecords
<1> HIDE DEF o
<1>6. Reindexed
  BY <1>1, <1>2, <1>3, <1>4 DEF Reindexed
<1> QED
  BY <1>5, <1>6

\* So does a step that replaces the order alone.
LEMMA BecomesReindexed ==
  ASSUME TypeOK, NEW id, NEW s, NEW f, Becomes(id, s, f),
         UNCHANGED << clid, by_intent, by_clid >>
  PROVE  Reindexed
  BY DEF TypeOK, Becomes, Reindexed, OrderRecords

\* What a step that gives one order another status and fills leaves as it is, in
\* the terms of the invariant.
LEMMA BecomesOthers ==
  ASSUME TypeOK, NEW id, NEW s, NEW f, Becomes(id, s, f)
  PROVE  /\ DOMAIN orders' = DOMAIN orders
         /\ orders'[id].status = s /\ orders'[id].filled = f
         /\ \A x \in DOMAIN orders \ {id} : orders'[x] = orders[x]
<1>1. orders[id] \in OrderRecords
  BY DEF TypeOK, Becomes
<1>2. orders'[id] = [orders[id] EXCEPT !.status = s, !.filled = f]
  BY DEF Becomes
<1>3. orders'[id].status = s /\ orders'[id].filled = f
  BY <1>1, <1>2 DEF OrderRecords
<1> QED
  BY <1>3 DEF Becomes

\* What a step of the venue leaves as it is.
LEMMA ReportsOthers ==
  ASSUME NEW id, NEW v, Reports(id, v)
  PROVE  /\ DOMAIN venue' = DOMAIN venue \cup {id}
         /\ venue'[id] = v
         /\ \A x \in DOMAIN venue \ {id} : venue'[x] = venue[x]
         /\ reports' = reports \cup { [order |-> id, status |-> v.status] }
  BY DEF Reports, Put

\* What the venue holds of an order it has just been sent.
LEMMA AcceptedType ==
  ASSUME TypeOK, NEW id \in DOMAIN orders, NEW v \in Accepted(orders[id])
  PROVE  /\ v \in [status : OrderStatuses, filled : Nat]
         /\ v.status \in VenueStatuses
         /\ v = [status |-> v.status, filled |-> v.filled]
<1>1. orders[id].quantity \in Nat
  BY OrderManagerAssumption DEF TypeOK, OrderRecords
<1> QED
  BY <1>1 DEF Accepted, OrderStatuses, VenueStatuses

\* A step that changes no order gives each what it has.
LEMMA UnchangedBecomes ==
  ASSUME TypeOK, NEW id \in DOMAIN orders, orders' = orders
  PROVE  /\ Becomes(id, orders[id].status, orders[id].filled)
         /\ orders[id].status \in OrderStatuses /\ orders[id].filled \in Nat
  BY DEF TypeOK, Becomes, OrderRecords

VenueRecords == [status : OrderStatuses, filled : Nat]

\* The venue says v of an order, and the order becomes what the venue says or
\* something behind it.
Heard(id, s, f, v) ==
  /\ Becomes(id, s, f) /\ Reports(id, v)
  /\ v \in VenueRecords /\ v.status \in VenueStatuses
  /\ s \in VenueStatuses \cup { "unknown" } /\ f <= v.filled
  /\ s = "unknown" => f = 0

\* The order becomes what the venue has said, without the venue.
Noted(id, s, f) ==
  /\ Becomes(id, s, f) /\ UNCHANGED << venue, reports >>
  /\ s \in VenueStatuses \cup { "unknown" }
  /\ s \in VenueStatuses => id \in DOMAIN venue
  /\ id \in DOMAIN venue => f <= venue[id].filled
  /\ s = "unknown" => f = 0

\* Either keeps the venue's records typed and the orders behind them.
LEMMA HeardKeepsBehind ==
  ASSUME TypeOK, Behind, NEW id, NEW s, NEW f, NEW v, Heard(id, s, f, v)
  PROVE  /\ Behind'
         /\ DOMAIN venue' \subseteq DOMAIN orders' /\ venue' \in [DOMAIN venue' -> VenueRecords]
<1>1. /\ DOMAIN orders' = DOMAIN orders /\ id \in DOMAIN orders
      /\ orders'[id].status = s /\ orders'[id].filled = f
      /\ \A x \in DOMAIN orders \ {id} : orders'[x] = orders[x]
  BY BecomesOthers DEF Heard, Becomes
<1>2. /\ DOMAIN venue' = DOMAIN venue \cup {id}
      /\ venue'[id] = v
      /\ \A x \in DOMAIN venue \ {id} : venue'[x] = venue[x]
      /\ reports' = reports \cup { [order |-> id, status |-> v.status] }
  BY ReportsOthers DEF Heard
<1>3. "risk_approved" \notin VenueStatuses /\ "unknown" \notin VenueStatuses
  BY DEF VenueStatuses
<1>4. ASSUME NEW x \in DOMAIN venue'
      PROVE  /\ venue'[x].status \in VenueStatuses
             /\ orders'[x].status # "risk_approved"
             /\ orders'[x].filled <= venue'[x].filled
  <2>1. CASE x = id
    BY <1>1, <1>2, <1>3, <2>1 DEF Heard
  <2>2. CASE x # id
    BY <1>1, <1>2, <2>2 DEF Behind, TypeOK
  <2> QED
    BY <2>1, <2>2
<1>5. ASSUME NEW x \in DOMAIN orders'
      PROVE  /\ orders'[x].status \in VenueStatuses \cup { "risk_approved", "unknown" }
             /\ orders'[x].status \in VenueStatuses => x \in DOMAIN venue'
             /\ orders'[x].status \in { "risk_approved", "unknown" } => orders'[x].filled = 0
  <2>1. CASE x = id
    BY <1>1, <1>2, <1>3, <2>1 DEF Heard
  <2>2. CASE x # id
    BY <1>1, <1>2, <2>2 DEF Behind
  <2> QED
    BY <2>1, <2>2
<1>6. ASSUME NEW r \in reports'
      PROVE  r.order \in DOMAIN venue' /\ r.status \in VenueStatuses
  BY <1>2 DEF Behind, Heard
<1>7. DOMAIN venue' \subseteq DOMAIN orders'
  BY <1>1, <1>2 DEF TypeOK
<1>8. venue' \in [DOMAIN venue' -> VenueRecords]
  BY DEF TypeOK, Heard, Reports, Put, VenueRecords
<1> QED
  BY <1>4, <1>5, <1>6, <1>7, <1>8 DEF Behind

LEMMA NotedKeepsBehind ==
  ASSUME TypeOK, Behind, NEW id, NEW s, NEW f, Noted(id, s, f)
  PROVE  /\ Behind'
         /\ DOMAIN venue' \subseteq DOMAIN orders' /\ venue' \in [DOMAIN venue' -> VenueRecords]
<1>1. /\ DOMAIN orders' = DOMAIN orders /\ id \in DOMAIN orders
      /\ orders'[id].status = s /\ orders'[id].filled = f
      /\ \A x \in DOMAIN orders \ {id} : orders'[x] = orders[x]
  BY BecomesOthers DEF Noted, Becomes
<1>2. venue' = venue /\ reports' = reports
  BY DEF Noted
<1>3. "risk_approved" \notin VenueStatuses /\ "unknown" \notin VenueStatuses
  BY DEF VenueStatuses
<1>4. ASSUME NEW x \in DOMAIN venue
      PROVE  /\ orders'[x].status # "risk_approved"
             /\ orders'[x].filled <= venue[x].filled
  <2>1. CASE x = id
    BY <1>1, <1>3, <2>1 DEF Noted
  <2>2. CASE x # id
    BY <1>1, <2>2 DEF Behind, TypeOK
  <2> QED
    BY <2>1, <2>2
<1>5. ASSUME NEW x \in DOMAIN orders
      PROVE  /\ orders'[x].status \in VenueStatuses \cup { "risk_approved", "unknown" }
             /\ orders'[x].status \in VenueStatuses => x \in DOMAIN venue
             /\ orders'[x].status \in { "risk_approved", "unknown" } => orders'[x].filled = 0
  <2>1. CASE x = id
    BY <1>1, <1>3, <2>1 DEF Noted
  <2>2. CASE x # id
    BY <1>1, <2>2 DEF Behind
  <2> QED
    BY <2>1, <2>2
<1> QED
  BY <1>1, <1>2, <1>4, <1>5 DEF Behind, TypeOK, VenueRecords

\* What else they must keep: an order that has ended at the venue stays so, and
\* one that has ended here has ended there.
LEMMA HeardKeepsEnds ==
  ASSUME TypeOK, Behind, Once, ~ RetryUnknown,
         NEW id, NEW s, NEW f, NEW v, Heard(id, s, f, v),
         id \in DOMAIN venue /\ Live(v) => Live(venue[id]),
         IsTerminal(s) => ~ Live(v)
  PROVE  /\ \A r \in reports' : IsTerminal(r.status) => ~ Live(venue'[r.order])
         /\ \A x \in DOMAIN orders' : IsTerminal(orders'[x].status) => ~ Live(venue'[x])
<1>1. /\ DOMAIN orders' = DOMAIN orders /\ id \in DOMAIN orders
      /\ orders'[id].status = s
      /\ \A x \in DOMAIN orders \ {id} : orders'[x] = orders[x]
  BY BecomesOthers DEF Heard, Becomes
<1>2. /\ venue'[id] = v
      /\ \A x \in DOMAIN venue \ {id} : venue'[x] = venue[x]
      /\ reports' = reports \cup { [order |-> id, status |-> v.status] }
  BY ReportsOthers DEF Heard
<1>3. \A u \in OrderStatuses : IsTerminal(u) => ~ IsActive(u)
  BY DEF IsTerminal, IsActive
<1>4. ASSUME NEW r \in reports', IsTerminal(r.status)
      PROVE  ~ Live(venue'[r.order])
  <2>1. CASE r \in reports /\ r.order # id
    BY <1>2, <1>4, <2>1 DEF Once, Behind
  <2>2. CASE r \in reports /\ r.order = id
    BY <1>2, <1>4, <2>2 DEF Once, Behind
  <2>3. CASE r = [order |-> id, status |-> v.status]
    BY <1>2, <1>3, <1>4, <2>3 DEF Live, Heard, VenueRecords
  <2> QED
    BY <1>2, <2>1, <2>2, <2>3
<1>5. ASSUME NEW x \in DOMAIN orders', IsTerminal(orders'[x].status)
      PROVE  ~ Live(venue'[x])
  <2>1. CASE x = id
    BY <1>1, <1>2, <1>5, <2>1
  <2>2. CASE x # id
    <3>1. orders'[x] = orders[x] /\ x \in DOMAIN orders
      BY <1>1, <2>2
    <3>2. x \in DOMAIN venue
      BY <1>5, <3>1 DEF Behind, IsTerminal
    <3> QED
      BY <1>2, <1>5, <2>2, <3>1, <3>2 DEF Once
  <2> QED
    BY <2>1, <2>2
<1> QED
  BY <1>4, <1>5

LEMMA NotedKeepsEnds ==
  ASSUME TypeOK, Behind, Once, ~ RetryUnknown,
         NEW id, NEW s, NEW f, Noted(id, s, f),
         IsTerminal(s) => ~ Live(venue[id])
  PROVE  /\ \A r \in reports' : IsTerminal(r.status) => ~ Live(venue'[r.order])
         /\ \A x \in DOMAIN orders' : IsTerminal(orders'[x].status) => ~ Live(venue'[x])
<1>1. /\ DOMAIN orders' = DOMAIN orders /\ id \in DOMAIN orders
      /\ orders'[id].status = s
      /\ \A x \in DOMAIN orders \ {id} : orders'[x] = orders[x]
  BY BecomesOthers DEF Noted, Becomes
<1>2. venue' = venue /\ reports' = reports
  BY DEF Noted
<1> QED
  BY <1>1, <1>2 DEF Once

\* The type invariant after a step that creates nothing, from its parts.
LEMMA TypeFromParts ==
  ASSUME TypeOK, Numbered, Answered, Reindexed,
         DOMAIN venue' \subseteq DOMAIN orders', venue' \in [DOMAIN venue' -> VenueRecords],
         placements' \in [OrderIds -> Nat]
  PROVE  TypeOK'
<1>1. DOMAIN orders' = DOMAIN orders /\ orders' \in [DOMAIN orders -> OrderRecords]
  BY ReindexedKeeps DEF Reindexed
<1>2. DOMAIN orders' \subseteq OrderIds
  BY <1>1 DEF TypeOK
<1>3. /\ \A i \in DOMAIN by_intent' :
           by_intent'[i] \in DOMAIN orders' /\ orders'[by_intent'[i]].intent = i
      /\ \A k \in DOMAIN by_clid' :
           by_clid'[k] \in DOMAIN orders' /\ orders'[by_clid'[k]].clid = k
      /\ \A id \in DOMAIN orders' :
           orders'[id].clid \in DOMAIN by_clid' /\ by_clid'[orders'[id].clid] = id
      /\ clid' \in [Intents -> ClientOrderIds]
  BY ReindexedKeeps
<1>4. orders' \in [DOMAIN orders' -> OrderRecords]
  BY <1>1
<1> QED
  BY <1>2, <1>3, <1>4 DEF TypeOK, VenueRecords

\* What the venue said keeps the invariant, if a live order stays what it was.
LEMMA HeardKeeps ==
  ASSUME Inv, Reindexed, answers' = answers,
         NEW id, NEW s, NEW f, NEW v, Heard(id, s, f, v),
         placements' \in [OrderIds -> Nat],
         \A x \in OrderIds \ {id} : placements'[x] = placements[x],
         ~ RetryUnknown =>
           /\ placements'[id] <= 1
           /\ id \in DOMAIN venue /\ Live(v) => Live(venue[id])
           /\ IsTerminal(s) => ~ Live(v)
  PROVE  Inv'
<1>1. /\ Behind'
      /\ DOMAIN venue' \subseteq DOMAIN orders' /\ venue' \in [DOMAIN venue' -> VenueRecords]
  BY HeardKeepsBehind DEF Inv
<1>2. TypeOK' /\ Numbered' /\ Answered'
  BY <1>1, TypeFromParts, ReindexedKeeps DEF Inv
<1>3. DOMAIN venue' = DOMAIN venue \cup {id}
  BY ReportsOthers DEF Heard
<1>4. \A x \in OrderIds : x \notin DOMAIN venue' => placements'[x] = 0
  BY <1>3 DEF Inv, Once
<1>5. ASSUME ~ RetryUnknown
      PROVE  /\ \A x \in OrderIds : placements'[x] <= 1
             /\ \A r \in reports' : IsTerminal(r.status) => ~ Live(venue'[r.order])
             /\ \A x \in DOMAIN orders' : IsTerminal(orders'[x].status) => ~ Live(venue'[x])
  <2>1. \A x \in OrderIds : placements'[x] <= 1
    BY <1>5 DEF Inv, Once
  <2>2. /\ \A r \in reports' : IsTerminal(r.status) => ~ Live(venue'[r.order])
        /\ \A x \in DOMAIN orders' : IsTerminal(orders'[x].status) => ~ Live(venue'[x])
    BY <1>5, HeardKeepsEnds DEF Inv
  <2> QED
    BY <2>1, <2>2
<1>6. Once'
  BY <1>4, <1>5 DEF Once, Live
<1> QED
  BY <1>1, <1>2, <1>6 DEF Inv

\* So does what is taken over from the venue.
LEMMA NotedKeeps ==
  ASSUME Inv, Reindexed, answers' = answers, placements' = placements,
         NEW id, NEW s, NEW f, Noted(id, s, f),
         ~ RetryUnknown /\ IsTerminal(s) => ~ Live(venue[id])
  PROVE  Inv'
<1>1. /\ Behind'
      /\ DOMAIN venue' \subseteq DOMAIN orders' /\ venue' \in [DOMAIN venue' -> VenueRecords]
  BY NotedKeepsBehind DEF Inv
<1>2. placements' \in [OrderIds -> Nat]
  BY DEF Inv, TypeOK
<1>3. TypeOK' /\ Numbered' /\ Answered'
  BY <1>1, <1>2, TypeFromParts, ReindexedKeeps DEF Inv
<1>4. \A x \in OrderIds : x \notin DOMAIN venue' => placements'[x] = 0
  BY DEF Inv, Once, Noted
<1>5. ASSUME ~ RetryUnknown
      PROVE  /\ \A x \in OrderIds : placements'[x] <= 1
             /\ \A r \in reports' : IsTerminal(r.status) => ~ Live(venue'[r.order])
             /\ \A x \in DOMAIN orders' : IsTerminal(orders'[x].status) => ~ Live(venue'[x])
  <2>1. \A x \in OrderIds : placements'[x] <= 1
    BY <1>5 DEF Inv, Once
  <2>2. /\ \A r \in reports' : IsTerminal(r.status) => ~ Live(venue'[r.order])
        /\ \A x \in DOMAIN orders' : IsTerminal(orders'[x].status) => ~ Live(venue'[x])
    BY <1>5, NotedKeepsEnds DEF Inv
  <2> QED
    BY <2>1, <2>2
<1>6. Once'
  BY <1>4, <1>5 DEF Once, Live
<1> QED
  BY <1>1, <1>3, <1>6 DEF Inv

\* An order that is sent has not been heard of; with callers that do not submit
\* an unknown order again, it is not at the venue.
LEMMA AskedFor ==
  ASSUME TypeOK, Behind, NEW id \in DOMAIN orders, Asked(id)
  PROVE  /\ orders[id].status \in { "risk_approved", "unknown" } /\ orders[id].filled = 0
         /\ ~ RetryUnknown => id \notin DOMAIN venue
<1>1. orders[id].status \in VenueStatuses \cup { "risk_approved", "unknown" }
  BY DEF Behind
<1>2. \A s \in VenueStatuses : ~ MaySubmit(s)
  BY DEF VenueStatuses, MaySubmit, CanTransitionTo, Successors
<1>3. orders[id].status \in { "risk_approved", "unknown" }
  BY <1>1, <1>2 DEF Asked
<1> QED
  BY <1>3 DEF Asked, Behind

(***************************************************************************)
(* The operations                                                          *)
(***************************************************************************)

LEMMA SubmitAnsweredKeeps ==
  ASSUME Inv, NEW id \in DOMAIN orders, SubmitAnswered(id)
  PROVE  Inv'
<1>0. TypeOK /\ Numbered /\ Answered /\ Behind /\ Once
  BY DEF Inv
<1>1. PICK v \in Accepted(orders[id]) : Reports(id, v) /\ Index(id, As(id, v))
  BY DEF SubmitAnswered
<1>2. v \in VenueRecords /\ v.status \in VenueStatuses
  BY <1>0, AcceptedType DEF VenueRecords
<1>3. v.status \in OrderStatuses /\ v.filled \in Nat /\ clid' = clid /\ answers' = answers
  BY <1>2 DEF VenueRecords, SubmitAnswered
<1>4. Becomes(id, v.status, v.filled) /\ Reindexed
  BY <1>0, <1>1, <1>3, IndexBecomes DEF As
<1>5. Heard(id, v.status, v.filled, v)
  BY <1>1, <1>2, <1>3, <1>4 DEF Heard, VenueStatuses
<1>6. id \in OrderIds /\ placements \in [OrderIds -> Nat]
      /\ placements' = [placements EXCEPT ![id] = @ + 1]
  BY <1>0 DEF TypeOK, SubmitAnswered
<1>7. /\ placements' \in [OrderIds -> Nat]
      /\ \A x \in OrderIds \ {id} : placements'[x] = placements[x]
      /\ placements'[id] = placements[id] + 1
  BY <1>6
<1>8. ASSUME ~ RetryUnknown
      PROVE  id \notin DOMAIN venue /\ placements'[id] <= 1
  <2>1. id \notin DOMAIN venue
    BY <1>0, <1>8, AskedFor DEF SubmitAnswered
  <2> QED
    BY <1>0, <1>6, <1>7, <2>1 DEF Once
<1>9. IsTerminal(v.status) => ~ Live(v)
  BY DEF IsTerminal, Live, IsActive
<1> QED
  BY <1>3, <1>4, <1>5, <1>7, <1>8, <1>9, HeardKeeps

LEMMA SubmitFailsKeeps ==
  ASSUME Inv, NEW id \in DOMAIN orders, SubmitFails(id)
  PROVE  Inv'
<1>0. TypeOK /\ Numbered /\ Answered /\ Behind /\ Once
  BY DEF Inv
<1>1. /\ orders[id] \in OrderRecords /\ orders[id].filled = 0
      /\ ~ RetryUnknown => id \notin DOMAIN venue
  BY <1>0, AskedFor DEF SubmitFails, TypeOK
<1>2. Index(id, [orders[id] EXCEPT !.status = "unknown", !.filled = 0])
  <2>1. [orders[id] EXCEPT !.status = "unknown"]
          = [orders[id] EXCEPT !.status = "unknown", !.filled = 0]
    BY <1>1 DEF OrderRecords
  <2> QED
    BY <2>1 DEF SubmitFails, StatusAfterError
<1>3. "unknown" \in OrderStatuses /\ 0 \in Nat /\ clid' = clid /\ answers' = answers
  BY DEF OrderStatuses, SubmitFails
<1>4. Becomes(id, "unknown", 0) /\ Reindexed
  BY <1>0, <1>2, <1>3, IndexBecomes
<1>5. ~ IsTerminal("unknown")
  BY DEF IsTerminal
<1>6. ASSUME NEW v \in Accepted(orders[id]), Reports(id, v),
             placements' = [placements EXCEPT ![id] = @ + 1]
      PROVE  Inv'
  <2>1. v \in VenueRecords /\ v.status \in VenueStatuses /\ v.filled \in Nat
    BY <1>0, AcceptedType DEF VenueRecords
  <2>2. Heard(id, "unknown", 0, v)
    BY <1>4, <1>6, <2>1 DEF Heard
  <2>3. id \in OrderIds /\ placements \in [OrderIds -> Nat]
    BY <1>0 DEF TypeOK
  <2>4. /\ placements' \in [OrderIds -> Nat]
        /\ \A x \in OrderIds \ {id} : placements'[x] = placements[x]
        /\ placements'[id] = placements[id] + 1
    BY <1>6, <2>3
  <2>5. ~ RetryUnknown => placements'[id] <= 1
    BY <1>0, <1>1, <2>3, <2>4 DEF Once
  <2> QED
    BY <1>1, <1>3, <1>4, <1>5, <2>2, <2>4, <2>5, HeardKeeps
<1>7. ASSUME UNCHANGED port
      PROVE  Inv'
  <2>1. Noted(id, "unknown", 0)
    BY <1>0, <1>4, <1>7 DEF Noted, port, VenueStatuses, TypeOK
  <2> QED
    BY <1>3, <1>4, <1>5, <1>7, <2>1, NotedKeeps DEF port
<1> QED
  BY <1>6, <1>7 DEF SubmitFails

\* What the venue holds is typed, and what is held here is behind it.
LEMMA HeldAtVenue ==
  ASSUME Inv, NEW id \in DOMAIN venue
  PROVE  /\ id \in DOMAIN orders /\ venue[id] \in VenueRecords
         /\ venue[id].status \in VenueStatuses /\ venue[id].status \in OrderStatuses
         /\ venue[id].filled \in Nat
         /\ orders[id].status \in VenueStatuses \cup { "unknown" }
         /\ orders[id].filled <= venue[id].filled
         /\ orders[id].status = "unknown" => orders[id].filled = 0
         /\ ~ RetryUnknown /\ IsTerminal(orders[id].status) => ~ Live(venue[id])
         /\ orders[id].status \in OrderStatuses /\ orders[id].filled \in Nat
<1>1. id \in DOMAIN orders /\ venue[id] \in VenueRecords /\ orders[id] \in OrderRecords
  BY DEF Inv, TypeOK, VenueRecords
<1>2. /\ venue[id].status \in OrderStatuses /\ venue[id].filled \in Nat
      /\ orders[id].status \in OrderStatuses /\ orders[id].filled \in Nat
  BY <1>1 DEF VenueRecords, OrderRecords
<1>3. /\ venue[id].status \in VenueStatuses
      /\ orders[id].status \in VenueStatuses \cup { "unknown" }
      /\ orders[id].filled <= venue[id].filled
      /\ orders[id].status = "unknown" => orders[id].filled = 0
  BY <1>1 DEF Inv, Behind
<1>4. ~ RetryUnknown /\ IsTerminal(orders[id].status) => ~ Live(venue[id])
  BY <1>1 DEF Inv, Once
<1> QED
  BY <1>1, <1>2, <1>3, <1>4

\* The venue moves an order of its own accord, and nothing is known here of it.
LEMMA VenueMoveKeeps ==
  ASSUME Inv, NEW id \in DOMAIN venue, NEW v, Reports(id, v),
         UNCHANGED << clid, oms, placements, answers >>,
         v \in VenueRecords, v.status \in VenueStatuses,
         venue[id].filled <= v.filled, Live(v) => Live(venue[id])
  PROVE  Inv'
<1> DEFINE s == orders[id].status
           f == orders[id].filled
<1>0. TypeOK /\ Numbered /\ Once
  BY DEF Inv
<1>1. /\ id \in DOMAIN orders /\ venue[id].filled \in Nat /\ v.filled \in Nat
      /\ s \in VenueStatuses \cup { "unknown" } /\ f <= venue[id].filled
      /\ s = "unknown" => f = 0
      /\ ~ RetryUnknown /\ IsTerminal(s) => ~ Live(venue[id])
      /\ f \in Nat
  BY HeldAtVenue DEF VenueRecords
<1>2. orders' = orders /\ answers' = answers /\ placements' = placements
      /\ UNCHANGED << clid, by_intent, by_clid >>
  BY DEF oms
<1>3. Becomes(id, s, f) /\ Reindexed
  BY <1>0, <1>1, <1>2, UnchangedBecomes, BecomesReindexed
<1>4. Heard(id, s, f, v)
  BY <1>1, <1>3 DEF Heard
<1>5. /\ placements' \in [OrderIds -> Nat]
      /\ \A x \in OrderIds \ {id} : placements'[x] = placements[x]
      /\ ~ RetryUnknown => placements'[id] <= 1
  BY <1>0, <1>1, <1>2 DEF TypeOK, Once
<1> HIDE DEF s, f
<1> QED
  BY <1>1, <1>2, <1>3, <1>4, <1>5, HeardKeeps

LEMMA VenueFillsKeeps ==
  ASSUME Inv, NEW id \in DOMAIN venue, VenueFills(id)
  PROVE  Inv'
<1> DEFINE v == [ filled |-> venue[id].filled + 1,
                  status |-> IF venue[id].filled + 1 = orders[id].quantity
                               THEN "filled" ELSE "partially_filled" ]
<1>1. venue[id].filled \in Nat
  BY HeldAtVenue
<1>2. /\ v \in VenueRecords /\ v.status \in VenueStatuses
      /\ venue[id].filled <= v.filled
  BY <1>1 DEF VenueRecords, OrderStatuses, VenueStatuses
<1>3. /\ Reports(id, v) /\ Live(venue[id])
      /\ UNCHANGED << clid, oms, placements, answers >>
  BY DEF VenueFills
<1> HIDE DEF v
<1> QED
  BY <1>2, <1>3, VenueMoveKeeps

LEMMA VenueEndsKeeps ==
  ASSUME Inv, NEW id \in DOMAIN venue, VenueEnds(id)
  PROVE  Inv'
<1> DEFINE v == [venue[id] EXCEPT !.status = "cancelled"]
<1>1. venue[id] \in VenueRecords /\ venue[id].filled \in Nat
  BY HeldAtVenue
<1>2. /\ v \in VenueRecords /\ v.status \in VenueStatuses
      /\ venue[id].filled <= v.filled
  BY <1>1 DEF VenueRecords, OrderStatuses, VenueStatuses
<1>3. /\ Reports(id, v) /\ Live(venue[id])
      /\ UNCHANGED << clid, oms, placements, answers >>
  BY DEF VenueEnds
<1> HIDE DEF v
<1> QED
  BY <1>2, <1>3, VenueMoveKeeps

LEMMA CancelKeeps ==
  ASSUME Inv, NEW id \in DOMAIN orders, Cancel(id)
  PROVE  Inv'
<1> DEFINE v == IF Live(venue[id]) THEN [venue[id] EXCEPT !.status = "cancelled"]
                                   ELSE venue[id]
<1>0. TypeOK /\ Numbered /\ id \in DOMAIN venue
  BY DEF Inv, Cancel
<1>1. venue[id] \in VenueRecords /\ venue[id].filled \in Nat
      /\ venue[id].status \in VenueStatuses
  BY <1>0, HeldAtVenue
<1>2. /\ v \in VenueRecords /\ v.status \in VenueStatuses
      /\ v.status \in OrderStatuses /\ v.filled = venue[id].filled
      /\ ~ Live(v)
  BY <1>1 DEF VenueRecords, OrderStatuses, VenueStatuses, Live, IsActive
<1>3. /\ Reports(id, v)
      /\ orders' = Put(orders, id, As(id, v)) \/ UNCHANGED orders
      /\ UNCHANGED << clid, by_intent, by_clid, placements, answers >>
  BY DEF Cancel
<1> HIDE DEF v
<1>4. CASE UNCHANGED orders
  BY <1>0, <1>1, <1>2, <1>3, <1>4, VenueMoveKeeps DEF oms
<1>5. CASE orders' = Put(orders, id, As(id, v))
  <2>1. Becomes(id, v.status, v.filled)
    <3>1. orders' = [orders EXCEPT ![id] = As(id, v)]
      BY <1>0, <1>5 DEF Put, TypeOK
    <3>2. orders[id] \in OrderRecords
      BY <1>0 DEF TypeOK
    <3> QED
      BY <1>0, <1>1, <1>2, <3>1, <3>2 DEF Becomes, As, TypeOK, OrderRecords
  <2>2. Reindexed
    BY <1>0, <1>3, <2>1, BecomesReindexed
  <2>3. Heard(id, v.status, v.filled, v)
    BY <1>1, <1>2, <1>3, <2>1 DEF Heard, VenueStatuses
  <2>4. /\ placements' \in [OrderIds -> Nat]
        /\ \A x \in OrderIds \ {id} : placements'[x] = placements[x]
        /\ ~ RetryUnknown => placements'[id] <= 1
    BY <1>0, <1>3 DEF Inv, TypeOK, Once
  <2> QED
    BY <1>2, <1>3, <2>2, <2>3, <2>4, HeardKeeps
<1> QED
  BY <1>3, <1>4, <1>5

LEMMA QueryKeeps ==
  ASSUME Inv, NEW id \in DOMAIN orders, Query(id)
  PROVE  Inv'
<1> DEFINE v == venue[id]
<1>0. TypeOK /\ Numbered /\ id \in DOMAIN venue
  BY DEF Inv, Query
<1>1. v.status \in VenueStatuses /\ v.status \in OrderStatuses /\ v.filled \in Nat
  BY <1>0, HeldAtVenue
<1>2. Index(id, As(id, v)) /\ clid' = clid /\ answers' = answers /\ UNCHANGED port
  BY DEF Query
<1>3. Becomes(id, v.status, v.filled) /\ Reindexed
  BY <1>0, <1>1, <1>2, IndexBecomes DEF As
<1>4. Noted(id, v.status, v.filled)
  BY <1>0, <1>1, <1>2, <1>3 DEF Noted, port, VenueStatuses
<1>5. IsTerminal(v.status) => ~ Live(venue[id])
  BY DEF IsTerminal, Live, IsActive
<1> QED
  BY <1>2, <1>3, <1>4, <1>5, NotedKeeps DEF port

LEMMA ApplyStatusKeeps ==
  ASSUME Inv, NEW r \in reports, ApplyStatus(r)
  PROVE  Inv'
<1> DEFINE id == r.order
           s  == StatusAfter(orders[id].status, r.status)
           f  == orders[id].filled
<1>0. TypeOK /\ Numbered /\ id \in DOMAIN venue /\ r.status \in VenueStatuses
  BY DEF Inv, Behind
<1>1. /\ id \in DOMAIN orders /\ venue[id].filled \in Nat
      /\ orders[id].status \in VenueStatuses \cup { "unknown" }
      /\ f <= venue[id].filled
      /\ orders[id].status = "unknown" => f = 0
      /\ ~ RetryUnknown /\ IsTerminal(orders[id].status) => ~ Live(venue[id])
      /\ f \in Nat
  BY <1>0, HeldAtVenue
<1>2. s = orders[id].status \/ s = r.status
  BY DEF StatusAfter
<1>3. /\ s \in VenueStatuses \cup { "unknown" } /\ s \in OrderStatuses
      /\ s = "unknown" => f = 0
  BY <1>0, <1>1, <1>2 DEF VenueStatuses, OrderStatuses
<1>4. Becomes(id, s, f)
  <2>1. orders' = [orders EXCEPT ![id].status = s] /\ orders[id] \in OrderRecords
    BY <1>0, <1>1 DEF ApplyStatus, TypeOK
  <2> HIDE DEF id, s
  <2> QED
    BY <1>0, <1>1, <1>3, <2>1 DEF Becomes, TypeOK, OrderRecords
<1>5. UNCHANGED << clid, by_intent, by_clid >> /\ answers' = answers
      /\ placements' = placements /\ UNCHANGED << venue, reports >>
  BY DEF ApplyStatus, port
<1>6. Reindexed
  BY <1>0, <1>4, <1>5, BecomesReindexed
<1>7. Noted(id, s, f)
  BY <1>0, <1>1, <1>3, <1>4, <1>5 DEF Noted
<1>8. ~ RetryUnknown /\ IsTerminal(s) => ~ Live(venue[id])
  BY <1>1, <1>2 DEF Inv, Once
<1> HIDE DEF id, s, f
<1> QED
  BY <1>5, <1>6, <1>7, <1>8, NotedKeeps

\* An intent leads to at most one order.
LEMMA FoundOnce ==
  ASSUME TypeOK, NEW i \in Intents, NEW id \in Found(i)
  PROVE  Found(i) = { id } /\ id \in DOMAIN orders
  BY DEF TypeOK, Found

LEMMA RepeatKeeps ==
  ASSUME Inv, NEW i \in Intents, NEW side, NEW quantity, NEW price,
         Repeat(i, side, quantity, price)
  PROVE  Inv'
<1>0. TypeOK /\ Numbered /\ Answered /\ Behind /\ Once
  BY DEF Inv
<1>1. PICK id \in Found(i) :
        /\ orders[id].side = side /\ orders[id].quantity = quantity
        /\ answers' = answers \cup
             { [intent |-> i, order |-> id, side |-> side, quantity |-> quantity] }
  BY DEF Repeat, SamePayload, Answer
<1>2. /\ clid' = clid /\ orders' = orders /\ by_intent' = by_intent /\ by_clid' = by_clid
      /\ venue' = venue /\ reports' = reports /\ placements' = placements
  BY DEF Repeat, oms, port
<1>3. Found(i) = { id } /\ id \in DOMAIN orders
  BY <1>0, <1>1, FoundOnce
<1>4. \A j : Found(j)' = Found(j)
  BY <1>2 DEF Found
<1>5. Answered'
  <2> SUFFICES ASSUME NEW a \in answers'
               PROVE  /\ a.intent \in Intents /\ a.order \in DOMAIN orders
                      /\ orders[a.order].side = a.side /\ orders[a.order].quantity = a.quantity
                      /\ Found(a.intent) = { a.order }
    BY <1>2, <1>4 DEF Answered
  <2>1. CASE a \in answers
    BY <1>0, <2>1 DEF Answered
  <2>2. CASE a = [intent |-> i, order |-> id, side |-> side, quantity |-> quantity]
    BY <1>1, <1>3, <2>2
  <2> QED
    BY <1>1, <2>1, <2>2
<1>6. TypeOK' /\ Numbered' /\ Behind' /\ Once'
  BY <1>0, <1>2 DEF TypeOK, Numbered, Behind, Once, Live
<1> QED
  BY <1>5, <1>6 DEF Inv

LEMMA CreateKeeps ==
  ASSUME Inv, NEW i \in Intents, NEW side \in Sides,
         NEW quantity \in Quantities, NEW price \in Prices,
         Create(i, side, quantity, price)
  PROVE  Inv'
<1> DEFINE o(id) == [ intent |-> i, clid |-> clid[i], side |-> side,
                      quantity |-> quantity, price |-> price,
                      status |-> "risk_approved", filled |-> 0 ]
<1>0. TypeOK /\ Numbered /\ Answered /\ Behind /\ Once
  BY DEF Inv
<1>1. PICK n \in 0..MaxOrders : DOMAIN orders = 1..n
  BY <1>0 DEF Numbered
<1>2. MaxOrders \in Nat /\ n \in Nat /\ Cardinality(DOMAIN orders) = n
  BY <1>1, FS_Interval, OrderManagerAssumption
<1> DEFINE new == n + 1
           rec == o(new)
<1>3. /\ new \in OrderIds /\ Found(i) = {} /\ Index(new, rec)
      /\ answers' = answers \cup
           { [intent |-> i, order |-> new, side |-> side, quantity |-> quantity] }
      /\ clid' = clid /\ UNCHANGED << venue, reports, placements >>
  BY <1>2 DEF Create, Answer, port
<1>4. new \notin DOMAIN orders /\ DOMAIN orders \cup {new} = 1..(n + 1)
      /\ n + 1 \in 0..MaxOrders
  BY <1>1, <1>2, <1>3 DEF OrderIds
<1>5. /\ rec \in OrderRecords /\ rec.intent = i /\ rec.clid = clid[i]
      /\ rec.side = side /\ rec.quantity = quantity /\ rec.status = "risk_approved" /\ rec.filled = 0
  BY <1>0 DEF TypeOK, OrderRecords, OrderStatuses
<1> HIDE DEF new, rec
<1>6. /\ DOMAIN orders' = DOMAIN orders \cup {new} /\ orders'[new] = rec
      /\ \A x \in DOMAIN orders : orders'[x] = orders[x]
      /\ orders' = [x \in DOMAIN orders \cup {new} |-> IF x = new THEN rec ELSE orders[x]]
  BY <1>3, <1>4 DEF Index, Put
<1>7. /\ DOMAIN by_intent' = DOMAIN by_intent \cup {i} /\ by_intent'[i] = new
      /\ DOMAIN by_clid' = DOMAIN by_clid \cup {clid[i]} /\ by_clid'[clid[i]] = new
  BY <1>3, <1>5 DEF Index, Put
<1>8. i \notin DOMAIN by_intent /\ clid[i] \notin DOMAIN by_clid
  BY <1>3 DEF Found
<1>9. /\ \A j \in DOMAIN by_intent : j # i /\ by_intent'[j] = by_intent[j]
      /\ \A k \in DOMAIN by_clid : k # clid[i] /\ by_clid'[k] = by_clid[k]
  BY <1>3, <1>5, <1>8 DEF Index, Put
<1>10. orders' \in [DOMAIN orders' -> OrderRecords] /\ DOMAIN orders' \subseteq OrderIds
  BY <1>0, <1>3, <1>5, <1>6 DEF TypeOK
<1>11. /\ \A j \in DOMAIN by_intent' :
            by_intent'[j] \in DOMAIN orders' /\ orders'[by_intent'[j]].intent = j
       /\ \A k \in DOMAIN by_clid' :
            by_clid'[k] \in DOMAIN orders' /\ orders'[by_clid'[k]].clid = k
       /\ \A id \in DOMAIN orders' :
            orders'[id].clid \in DOMAIN by_clid' /\ by_clid'[orders'[id].clid] = id
  <2>1. ASSUME NEW j \in DOMAIN by_intent'
        PROVE  by_intent'[j] \in DOMAIN orders' /\ orders'[by_intent'[j]].intent = j
    <3>1. CASE j = i
      BY <1>5, <1>6, <1>7, <3>1
    <3>2. CASE j # i
      BY <1>0, <1>6, <1>7, <1>9, <3>2 DEF TypeOK
    <3> QED
      BY <3>1, <3>2
  <2>2. ASSUME NEW k \in DOMAIN by_clid'
        PROVE  by_clid'[k] \in DOMAIN orders' /\ orders'[by_clid'[k]].clid = k
    <3>1. CASE k = clid[i]
      BY <1>5, <1>6, <1>7, <3>1
    <3>2. CASE k # clid[i]
      BY <1>0, <1>6, <1>7, <1>9, <3>2 DEF TypeOK
    <3> QED
      BY <3>1, <3>2
  <2>3. ASSUME NEW id \in DOMAIN orders'
        PROVE  orders'[id].clid \in DOMAIN by_clid' /\ by_clid'[orders'[id].clid] = id
    <3>1. CASE id = new
      BY <1>5, <1>6, <1>7, <3>1
    <3>2. CASE id # new
      BY <1>0, <1>6, <1>7, <1>9, <3>2 DEF TypeOK
    <3> QED
      BY <3>1, <3>2
  <2> QED
    BY <2>1, <2>2, <2>3
<1>12. TypeOK'
  <2>1. DOMAIN venue' \subseteq DOMAIN orders'
    BY <1>0, <1>3, <1>6 DEF TypeOK
  <2>2. /\ clid' \in [Intents -> ClientOrderIds]
        /\ venue' \in [DOMAIN venue' -> [status : OrderStatuses, filled : Nat]]
        /\ placements' \in [OrderIds -> Nat]
    BY <1>0, <1>3 DEF TypeOK
  <2> QED
    BY <1>10, <1>11, <2>1, <2>2 DEF TypeOK
<1>13. Numbered'
  <2>1. \E m \in 0..MaxOrders : DOMAIN orders' = 1..m
    BY <1>4, <1>6
  <2>2. DOMAIN by_intent' \subseteq Intents
    BY <1>0, <1>7 DEF Numbered
  <2>3. ASSUME NEW id \in DOMAIN orders'
        PROVE  /\ orders'[id].intent \in DOMAIN by_intent'
               /\ by_intent'[orders'[id].intent] = id
               /\ orders'[id].clid = clid'[orders'[id].intent]
    <3>1. CASE id = new
      BY <1>3, <1>5, <1>6, <1>7, <3>1
    <3>2. CASE id # new
      BY <1>0, <1>3, <1>6, <1>7, <1>9, <3>2 DEF Numbered
    <3> QED
      BY <3>1, <3>2
  <2> QED
    BY <2>1, <2>2, <2>3 DEF Numbered
<1>14. Found(i)' = { new }
  BY <1>7 DEF Found
<1>15. ASSUME NEW j \in Intents, Found(j) # {}
       PROVE  Found(j)' = Found(j)
  <2>1. j # i
    BY <1>3, <1>15
  <2>2. CASE j \in DOMAIN by_intent
    BY <1>7, <1>9, <2>2 DEF Found
  <2>3. CASE j \notin DOMAIN by_intent
    <3>1. clid[j] \in DOMAIN by_clid /\ j \notin DOMAIN by_intent'
      BY <1>7, <1>15, <2>1, <2>3 DEF Found
    <3>2. Found(j) = { by_clid[clid[j]] } /\ Found(j)' = { by_clid'[clid[j]] }
      BY <1>3, <1>7, <2>3, <3>1 DEF Found
    <3> QED
      BY <1>9, <3>1, <3>2
  <2> QED
    BY <2>2, <2>3
<1>16. Answered'
  <2> SUFFICES ASSUME NEW a \in answers'
               PROVE  /\ a.intent \in Intents /\ a.order \in DOMAIN orders'
                      /\ orders'[a.order].side = a.side /\ orders'[a.order].quantity = a.quantity
                      /\ Found(a.intent)' = { a.order }
    BY DEF Answered
  <2>1. CASE a \in answers
    <3>1. /\ a.intent \in Intents /\ a.order \in DOMAIN orders
          /\ orders[a.order].side = a.side /\ orders[a.order].quantity = a.quantity
          /\ Found(a.intent) = { a.order }
      BY <1>0, <2>1 DEF Answered
    <3>2. Found(a.intent)' = Found(a.intent)
      BY <1>15, <3>1
    <3> QED
      BY <1>6, <3>1, <3>2
  <2>2. CASE a = [intent |-> i, order |-> new, side |-> side, quantity |-> quantity]
    BY <1>5, <1>6, <1>14, <2>2
  <2> QED
    BY <1>3, <2>1, <2>2
<1>17. Behind'
  <2>1. \A x \in DOMAIN venue : x \in DOMAIN orders /\ orders'[x] = orders[x]
    BY <1>0, <1>6 DEF TypeOK
  <2>2. ASSUME NEW x \in DOMAIN orders'
        PROVE  /\ orders'[x].status \in VenueStatuses \cup { "risk_approved", "unknown" }
               /\ orders'[x].status \in VenueStatuses => x \in DOMAIN venue
               /\ orders'[x].status \in { "risk_approved", "unknown" } => orders'[x].filled = 0
    <3>1. CASE x = new
      BY <1>5, <1>6, <3>1 DEF VenueStatuses
    <3>2. CASE x # new
      BY <1>0, <1>6, <3>2 DEF Behind
    <3> QED
      BY <3>1, <3>2
  <2>3. /\ \A x \in DOMAIN venue :
             /\ venue[x].status \in VenueStatuses
             /\ orders'[x].status # "risk_approved"
             /\ orders'[x].filled <= venue[x].filled
        /\ \A r \in reports : r.order \in DOMAIN venue /\ r.status \in VenueStatuses
    BY <1>0, <2>1 DEF Behind
  <2> QED
    BY <1>3, <2>2, <2>3 DEF Behind
<1>18. Once'
  <2>1. ASSUME ~ RetryUnknown, NEW x \in DOMAIN orders', IsTerminal(orders'[x].status)
        PROVE  ~ Live(venue[x])
    <3>1. CASE x = new
      BY <1>5, <1>6, <2>1, <3>1 DEF IsTerminal
    <3>2. CASE x # new
      BY <1>0, <1>6, <2>1, <3>2 DEF Once
    <3> QED
      BY <3>1, <3>2
  <2> QED
    BY <1>0, <1>3, <2>1 DEF Once, Live
<1> QED
  BY <1>12, <1>13, <1>16, <1>17, <1>18 DEF Inv

(***************************************************************************)
(* Theorems                                                                *)
(***************************************************************************)

LEMMA InvInit == Init => Inv
<1> SUFFICES ASSUME Init
             PROVE  Inv
  OBVIOUS
<1>1. /\ DOMAIN orders = {} /\ DOMAIN by_intent = {} /\ DOMAIN by_clid = {}
      /\ DOMAIN venue = {} /\ reports = {} /\ answers = {}
      /\ orders = [x \in DOMAIN orders |-> 0] /\ venue = [x \in DOMAIN venue |-> 0]
      /\ placements = [id \in OrderIds |-> 0]
      /\ clid \in [Intents -> ClientOrderIds]
  BY DEF Init, Nothing
<1>2. TypeOK
  BY <1>1 DEF TypeOK
<1>3. Numbered
  <2>1. 0 \in 0..MaxOrders /\ 1..0 = {}
    BY OrderManagerAssumption
  <2> QED
    BY <1>1, <2>1 DEF Numbered
<1> QED
  BY <1>1, <1>2, <1>3 DEF Inv, Answered, Behind, Once

\* The invariant holds of every history of the order manager and the venue.
THEOREM InvariantHolds == Spec => []Inv
<1>1. ASSUME Inv, [Next]_vars
      PROVE  Inv'
  <2>1. ASSUME NEW i \in Intents, NEW side \in Sides,
               NEW quantity \in Quantities, NEW price \in Prices,
               Repeat(i, side, quantity, price) \/ Create(i, side, quantity, price)
        PROVE  Inv'
    BY <1>1, <2>1, RepeatKeeps, CreateKeeps
  <2>2. ASSUME NEW id \in DOMAIN orders,
               SubmitAnswered(id) \/ SubmitFails(id) \/ Cancel(id) \/ Query(id)
        PROVE  Inv'
    BY <1>1, <2>2, SubmitAnsweredKeeps, SubmitFailsKeeps, CancelKeeps, QueryKeeps
  <2>3. ASSUME NEW id \in DOMAIN venue, VenueFills(id) \/ VenueEnds(id)
        PROVE  Inv'
    BY <1>1, <2>3, VenueFillsKeeps, VenueEndsKeeps
  <2>4. ASSUME NEW r \in reports, ApplyStatus(r)
        PROVE  Inv'
    BY <1>1, <2>4, ApplyStatusKeeps
  <2>5. CASE UNCHANGED vars
    <3>1. /\ clid' = clid /\ orders' = orders /\ by_intent' = by_intent
          /\ by_clid' = by_clid /\ venue' = venue /\ reports' = reports
          /\ placements' = placements /\ answers' = answers
      BY <2>5 DEF vars
    <3>2. TypeOK' /\ Numbered'
      BY <1>1, <3>1 DEF Inv, TypeOK, Numbered
    <3>3. Answered'
      BY <1>1, <3>1 DEF Inv, Answered, Found
    <3>4. Behind' /\ Once'
      BY <1>1, <3>1 DEF Inv, Behind, Once, Live
    <3> QED
      BY <3>2, <3>3, <3>4 DEF Inv
  <2> QED
    BY <1>1, <2>1, <2>2, <2>3, <2>4, <2>5 DEF Next
<1> QED
  BY InvInit, <1>1, PTL DEF Spec

\* The indexes lead to the orders that carry the key, whatever is created, sent,
\* answered, reported or lost.
THEOREM TypeCorrect == Spec => []TypeOK
<1>1. Inv => TypeOK
  BY DEF Inv
<1> QED
  BY <1>1, InvariantHolds, PTL

\* create_from_intent is idempotent: every answer to an intent is the same order,
\* with the side and quantity that was asked for.
THEOREM AnswersIdempotent == Spec => []IdempotentAnswers
<1>1. Inv => IdempotentAnswers
  BY DEF Inv, Answered, IdempotentAnswers
<1> QED
  BY <1>1, InvariantHolds, PTL

\* A venue that loses its answers accepts no order twice from callers that do not
\* submit an unknown order again.
THEOREM NothingPlacedTwice ==
  ASSUME RetryUnknown = FALSE
  PROVE  Spec => []PlacedOnce
<1>1. Inv => PlacedOnce
  BY DEF Inv, Once, PlacedOnce
<1> QED
  BY <1>1, InvariantHolds, PTL

\* With such callers, what the venue may still execute is neither taken for ended
\* nor for not sent.
THEOREM LiveOrdersAlwaysKnown ==
  ASSUME RetryUnknown = FALSE
  PROVE  Spec => []LiveOrdersKnown
<1>1. ASSUME Inv, NEW id \in OpenOrders
      PROVE  /\ ~ IsTerminal(orders[id].status)
             /\ orders[id].status \notin { "created", "risk_approved" }
  <2>1. id \in DOMAIN venue /\ Live(venue[id])
    BY DEF OpenOrders
  <2>2. /\ orders[id].status \in VenueStatuses \cup { "unknown" }
        /\ ~ IsTerminal(orders[id].status)
    BY <1>1, <2>1, HeldAtVenue
  <2> QED
    BY <2>2 DEF VenueStatuses
<1>2. Inv => LiveOrdersKnown
  BY <1>1 DEF LiveOrdersKnown
<1> QED
  BY <1>2, InvariantHolds, PTL

\* Where sums agree and one side has been seen whole, so has the other: what is
\* known here of an order is not ahead of the venue, so a difference that is left
\* could only add up with others of its side.
LEMMA OneSideSeen ==
  ASSUME Inv, ReportClean, NEW side \in Sides, Unseen(side) = {}
  PROVE  \A id \in DOMAIN venue : orders[id].filled = venue[id].filled
<1> DEFINE here  == [id \in DOMAIN orders |->
                       IF orders[id].side = "buy" THEN orders[id].filled
                                                  ELSE 0 - orders[id].filled]
           there == [id \in DOMAIN venue |->
                       IF orders[id].side = "buy" THEN venue[id].filled
                                                  ELSE 0 - venue[id].filled]
           held(id) == IF id \in DOMAIN venue THEN venue[id].filled ELSE 0
           wide  == [id \in DOMAIN orders |->
                       IF orders[id].side = "buy" THEN held(id) ELSE 0 - held(id)]
<1>1. IsFiniteSet(DOMAIN orders) /\ DOMAIN venue \in SUBSET DOMAIN orders
      /\ IsFiniteSet(DOMAIN venue)
  <2>1. PICK n \in 0..MaxOrders : DOMAIN orders = 1..n
    BY DEF Inv, Numbered
  <2>2. IsFiniteSet(1..n)
    BY FS_Interval, OrderManagerAssumption
  <2> QED
    BY <2>1, <2>2, FS_Subset DEF Inv, TypeOK
<1>2. ASSUME NEW id \in DOMAIN orders
      PROVE  /\ orders[id].filled \in Nat /\ held(id) \in Nat
             /\ orders[id].filled <= held(id)
             /\ orders[id].side \in { "buy", "sell" }
             /\ orders[id].side = side => orders[id].filled = held(id)
  <2>0. orders[id] \in OrderRecords
    BY DEF Inv, TypeOK
  <2>1. CASE id \in DOMAIN venue
    BY <2>0, <2>1, HeldAtVenue DEF Unseen, OrderRecords, Sides
  <2>2. CASE id \notin DOMAIN venue
    BY <2>0, <2>2 DEF Inv, Behind, OrderRecords, Sides
  <2> QED
    BY <2>1, <2>2
<1> HIDE DEF held
<1>3. \A id \in DOMAIN orders : here[id] \in Int /\ wide[id] \in Int
  BY <1>2
<1>4. \/ \A id \in DOMAIN orders : here[id] <= wide[id]
      \/ \A id \in DOMAIN orders : wide[id] <= here[id]
  <2>1. CASE side = "sell"
    BY <1>2, <2>1
  <2>2. CASE side = "buy"
    BY <1>2, <2>2
  <2> QED
    BY <2>1, <2>2 DEF Sides
<1>5. /\ \A id \in DOMAIN venue : wide[id] = there[id]
      /\ \A id \in DOMAIN orders \ DOMAIN venue : wide[id] = 0
  BY <1>1 DEF held
<1>6. DOMAIN here = DOMAIN orders /\ DOMAIN there = DOMAIN venue
  OBVIOUS
<1>7. SumFunction(here) = SumFunction(there)
  <2> DEFINE local  == [id \in DOMAIN orders |-> orders[id].filled]
             remote == [id \in DOMAIN venue |-> venue[id].filled]
  <2>1. DiffAmounts(Bought(local), Bought(remote)) = {}
    BY DEF ReportClean
  <2>2. /\ Bought(local).base = SumFunction(here) /\ "base" \in DOMAIN Bought(local)
        /\ Bought(remote).base = SumFunction(there) /\ "base" \in DOMAIN Bought(remote)
    <3>1. /\ [id \in DOMAIN local |->
                IF orders[id].side = "buy" THEN local[id] ELSE 0 - local[id]] = here
          /\ [id \in DOMAIN remote |->
                IF orders[id].side = "buy" THEN remote[id] ELSE 0 - remote[id]] = there
      OBVIOUS
    <3> HIDE DEF here, there, local, remote
    <3> QED
      BY <3>1 DEF Bought
  <2> HIDE DEF here, there, local, remote
  <2> QED
    BY <2>1, <2>2 DEF DiffAmounts
<1> HIDE DEF here, there, wide
<1>8. SumFunctionOnSet(wide, DOMAIN orders) = SumFunctionOnSet(wide, DOMAIN venue)
  BY <1>1, <1>3, <1>5, SumZeros
<1>9. SumFunctionOnSet(there, DOMAIN venue) = SumFunctionOnSet(wide, DOMAIN venue)
  <2>1. \A id \in DOMAIN venue : wide[id] = there[id] /\ wide[id] \in Int
    BY <1>1, <1>3, <1>5
  <2> QED
    BY <1>1, <2>1, SumEqual
<1>10. SumFunctionOnSet(here, DOMAIN orders) = SumFunctionOnSet(wide, DOMAIN orders)
  BY <1>6, <1>7, <1>8, <1>9 DEF SumFunction
<1>11. \A id \in DOMAIN orders : here[id] = wide[id]
  BY <1>1, <1>3, <1>4, <1>10, SumMonotone
<1>12. ASSUME NEW id \in DOMAIN venue
       PROVE  orders[id].filled = venue[id].filled
  <2>1. id \in DOMAIN orders /\ held(id) = venue[id].filled /\ here[id] = wide[id]
    BY <1>1, <1>11 DEF held
  <2>2. /\ orders[id].filled \in Nat /\ held(id) \in Nat
        /\ orders[id].side \in { "buy", "sell" }
    BY <1>2, <2>1
  <2> QED
    BY <2>1, <2>2 DEF here, wide
<1> QED
  BY <1>12

\* What a clean report of the reconciler proves, although it compares only client
\* order ids and sums: the orders that are active here are the open ones there, as
\* no two share an id, and fills that were missed are missed on both sides or on
\* none.
THEOREM CleanReportsHidePairsOnly == Spec => []CleanReportHidesPairsOnly
<1>1. ASSUME Inv, ReportClean
      PROVE  ActiveOrders = OpenOrders
  <2>1. /\ ActiveOrders \subseteq DOMAIN orders /\ OpenOrders \subseteq DOMAIN orders
        /\ \A x, y \in DOMAIN orders : orders[x].clid = orders[y].clid => x = y
    BY <1>1 DEF Inv, TypeOK, ActiveOrders, OpenOrders
  <2>2. { orders[id].clid : id \in ActiveOrders } = { orders[id].clid : id \in OpenOrders }
    BY <1>1 DEF ReportClean, DiffOrders
  <2> QED
    BY <2>1, <2>2
<1>2. ASSUME Inv, ReportClean, NEW side \in Sides, Unseen(side) = {}, NEW other
      PROVE  Unseen(other) = {}
  BY <1>2, OneSideSeen DEF Unseen
<1>3. Inv => CleanReportHidesPairsOnly
  <2>1. "buy" \in Sides /\ "sell" \in Sides
    BY DEF Sides
  <2> QED
    BY <1>1, <1>2, <2>1 DEF CleanReportHidesPairsOnly
<1> QED
  BY <1>3, InvariantHolds, PTL

=============================================================================
