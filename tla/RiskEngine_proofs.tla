------------------------- MODULE RiskEngine_proofs -------------------------
(***************************************************************************)
(* Proofs about RiskEngine for every configuration of limits, every set of *)
(* strategies, accounts, intents and market facts, and every bound.        *)
(***************************************************************************)
EXTENDS RiskEngine, FoldTheorems, SequenceTheorems, FiniteSetTheorems, TLAPS

(***************************************************************************)
(* Operators                                                               *)
(***************************************************************************)

\* The notional of an intent is a natural number.
LEMMA NotionalType ==
  ASSUME NEW i \in Intents, NEW m \in MarketFacts
  PROVE  Notional(i, m) \in Nat
<1>1. /\ i.price \in Nat /\ i.quantity \in Nat /\ m.ref \in Nat
      /\ i.strategy \in Strategies /\ i.account \in Accounts
  BY RiskEngineAssumption
<1>2. PricedAt(i, m) \in Nat
  BY <1>1 DEF PricedAt, NoPriceData
<1>3. \A a, b \in Nat : a * b \in Nat
  OBVIOUS
<1> QED
  BY <1>1, <1>2, <1>3 DEF Notional

\* The window keeps an end of the queue, and what it drops is old.
LEMMA PrunedDropsOld ==
  ASSUME NEW times \in Seq(Nat), NEW t \in Nat
  PROVE  \E d \in 0..Len(times) :
           /\ Pruned(times, t) = SubSeq(times, d + 1, Len(times))
           /\ Pruned(times, t) \in Seq(Nat)
           /\ Len(Pruned(times, t)) = Len(times) - d
           /\ \A n \in 1..(Len(times) - d) : Pruned(times, t)[n] = times[d + n]
           /\ \A n \in 1..d : times[n] < t - RateWindow
<1> DEFINE recent == { n \in DOMAIN times : times[n] >= t - RateWindow }
<1>0. /\ Len(times) \in Nat /\ DOMAIN times = 1..Len(times)
      /\ \A n \in 1..Len(times) : times[n] \in Nat
      /\ RateWindow \in Nat
  BY LenProperties, ElementOfSeq, RiskAssumption
<1>1. CASE recent = {}
  <2>1. Pruned(times, t) = << >>
    BY <1>1 DEF Pruned
  <2>2. SubSeq(times, Len(times) + 1, Len(times)) = << >>
    BY <1>0, SubSeqEmpty
  <2>3. \A n \in 1..Len(times) : times[n] < t - RateWindow
    BY <1>0, <1>1
  <2> WITNESS Len(times) \in 0..Len(times)
  <2>4. Len(<< >>) = 0 /\ << >> \in Seq(Nat)
    BY EmptySeq
  <2> QED
    BY <1>0, <2>1, <2>2, <2>3, <2>4
<1>2. CASE recent # {}
  <2> DEFINE first == CHOOSE n \in recent : \A k \in recent : n <= k
  <2>1. first \in recent /\ \A k \in recent : first <= k
    <3>1. recent \in SUBSET Nat
      BY <1>0
    <3>2. \E n \in recent : \A k \in recent : n <= k
      BY <3>1, <1>2, LeastElement
    <3> QED
      BY <3>2
  <2>2. Pruned(times, t) = SubSeq(times, first, Len(times))
    BY <1>2 DEF Pruned
  <2>3. first \in 1..Len(times)
    BY <2>1, <1>0
  <2>4. /\ SubSeq(times, first, Len(times)) \in Seq(Nat)
        /\ Len(SubSeq(times, first, Len(times))) = Len(times) - first + 1
    <3>1. \A n \in first..Len(times) : times[n] \in Nat
      BY <1>0, <2>3
    <3> HIDE DEF first
    <3> QED
      BY <1>0, <2>3, <3>1, SubSeqProperties
  <2>5. \A n \in 1..(first - 1) : times[n] < t - RateWindow
    <3> HIDE DEF first
    <3>1. ASSUME NEW n \in 1..(first - 1)
          PROVE  times[n] < t - RateWindow
      <4>1. n \in 1..Len(times) /\ ~ (first <= n)
        BY <1>0, <2>3
      <4>2. n \notin recent
        BY <2>1, <4>1
      <4> QED
        BY <1>0, <4>1, <4>2
    <3> QED
      BY <3>1
  <2> HIDE DEF first
  <2>6. PICK d \in 0..Len(times) : first = d + 1
    <3>1. first - 1 \in 0..Len(times) /\ first = (first - 1) + 1
      BY <1>0, <2>3
    <3> QED
      BY <3>1
  <2>7. /\ Pruned(times, t) = SubSeq(times, d + 1, Len(times))
        /\ Pruned(times, t) \in Seq(Nat)
    BY <2>2, <2>4, <2>6
  <2>8. Len(Pruned(times, t)) = Len(times) - d
    <3>1. Len(Pruned(times, t)) = Len(times) - (d + 1) + 1
      BY <2>2, <2>4, <2>6
    <3>2. \A a, b \in Int : a - (b + 1) + 1 = a - b
      OBVIOUS
    <3> QED
      BY <1>0, <3>1, <3>2
  <2>9. \A n \in 1..d : times[n] < t - RateWindow
    BY <2>5, <2>6
  <2>10. \A n \in 1..(Len(times) - d) : Pruned(times, t)[n] = times[d + n]
    BY <1>0, <2>7
  <2> QED
    BY <2>7, <2>8, <2>9, <2>10
<1> QED
  BY <1>1, <1>2

(***************************************************************************)
(* Type correctness                                                        *)
(***************************************************************************)

\* The calls keep the engine's value well typed.
LEMMA BookedType ==
  ASSUME NEW r \in RiskStates, NEW s \in Strategies, NEW a \in Accounts,
         NEW n \in Nat
  PROVE  /\ Booked(r, s, a, n) \in RiskStates
         /\ AfterTerminal(r, s, a, n) \in RiskStates
<1>1. Booked(r, s, a, n) \in RiskStates
  <2> DEFINE strategies == [r.by_strategy EXCEPT ![s] = @ + n]
             accounts   == [r.by_account EXCEPT ![a] = @ + n]
             count      == [r.active EXCEPT ![s] = @ + 1]
  <2>1. /\ strategies \in [Strategies -> Int]
        /\ accounts \in [Accounts -> Int]
        /\ count \in [Strategies -> Nat]
    BY DEF RiskStates
  <2>2. Booked(r, s, a, n) = [r EXCEPT !.by_strategy = strategies,
                                       !.by_account = accounts, !.active = count]
    BY DEF Booked, RiskStates
  <2> HIDE DEF strategies, accounts, count
  <2> QED
    BY <2>1, <2>2 DEF RiskStates
<1>2. AfterTerminal(r, s, a, n) \in RiskStates
  <2> DEFINE strategies == [r.by_strategy EXCEPT ![s] = @ - n]
             accounts   == [r.by_account EXCEPT ![a] = @ - n]
             count      == [r.active EXCEPT ![s] = IF @ = 0 THEN 0 ELSE @ - 1]
  <2>1. /\ strategies \in [Strategies -> Int]
        /\ accounts \in [Accounts -> Int]
        /\ count \in [Strategies -> Nat]
    BY DEF RiskStates
  <2>2. AfterTerminal(r, s, a, n) = [r EXCEPT !.by_strategy = strategies,
                                       !.by_account = accounts, !.active = count]
    BY DEF AfterTerminal, RiskStates
  <2> HIDE DEF strategies, accounts, count
  <2> QED
    BY <2>1, <2>2 DEF RiskStates
<1> QED
  BY <1>1, <1>2

\* A checked intent, approved or not, leaves a well-typed engine.
LEMMA AfterCheckType ==
  ASSUME NEW r \in RiskStates, NEW i \in Intents, NEW m \in MarketFacts,
         NEW t \in Nat
  PROVE  AfterCheck(r, i, m, t) \in RiskStates
<1>1. r.times \in Seq(Nat)
  BY DEF RiskStates
<1>2. Pruned(r.times, t) \in Seq(Nat)
  BY <1>1, PrunedDropsOld
<1>3. AfterRejection(r, i, m, t) \in RiskStates
  <2> DEFINE queue == IF BeforeRateCheck(r, i, m)
                           /\ Limits.max_order_rate # NoLimit
                        THEN Pruned(r.times, t) ELSE r.times
             count == r.rejects + 1
             stopped == r.engaged \/ ( /\ Limits.consecutive_reject_limit # NoLimit
                                      /\ count >= Limits.consecutive_reject_limit )
  <2>1. queue \in Seq(Nat) /\ count \in Nat /\ stopped \in BOOLEAN
    BY <1>1, <1>2 DEF RiskStates
  <2>2. AfterRejection(r, i, m, t)
          = [r EXCEPT !.rejects = count, !.engaged = stopped, !.times = queue]
    BY DEF AfterRejection, RiskStates
  <2> HIDE DEF queue, count, stopped
  <2> QED
    BY <2>1, <2>2 DEF RiskStates
<1>4. AfterApproval(r, i, m, t) \in RiskStates
  <2> DEFINE b     == Booked(r, i.strategy, i.account, Notional(i, m))
             queue == IF Limits.max_order_rate = NoLimit
                        THEN r.times ELSE Pruned(r.times, t)
  <2>1. i.strategy \in Strategies /\ i.account \in Accounts
    BY RiskEngineAssumption
  <2>2. b \in RiskStates
    BY <2>1, NotionalType, BookedType
  <2> DEFINE longer == Append(queue, t)
  <2>3. longer \in Seq(Nat)
    BY <1>1, <1>2, AppendProperties
  <2>4. AfterApproval(r, i, m, t) = [b EXCEPT !.rejects = 0, !.times = longer]
    BY DEF AfterApproval
  <2>5. ASSUME NEW c \in RiskStates, NEW q \in Seq(Nat)
        PROVE  [c EXCEPT !.rejects = 0, !.times = q] \in RiskStates
    BY DEF RiskStates
  <2> HIDE DEF b, queue, longer
  <2> QED
    BY <2>2, <2>3, <2>4, <2>5
<1> QED
  BY <1>3, <1>4 DEF AfterCheck

\* The engine's value and its callers' bookkeeping stay well typed.
THEOREM TypeCorrect == Spec => []TypeOK
<1>1. Init => TypeOK
  <2>1. FreshRisk \in RiskStates
    BY EmptySeq DEF FreshRisk, RiskStates
  <2>2. << >> \in Seq(0..MaxTime)
    BY EmptySeq
  <2>3. Init => live \in [DOMAIN live -> Bookings] /\ DOMAIN live \subseteq Keys
    BY DEF Init
  <2>4. 0 \in 0..MaxTime
    BY RiskEngineAssumption
  <2> QED
    BY <2>1, <2>2, <2>3, <2>4 DEF Init, TypeOK
<1>2. ASSUME TypeOK, [Next]_vars
      PROVE  TypeOK'
  <2> USE <1>2
  <2>1. CASE EndBoot
    BY <2>1 DEF EndBoot, TypeOK
  <2>2. ASSUME NEW id \in OrderIds, NEW b \in RestoredBookings,
               NoteOrderRestored(id, b)
        PROVE  TypeOK'
    <3>1. b \in Bookings
      BY RiskEngineAssumption
    <3>2. risk' \in RiskStates
      BY <2>2, <3>1, BookedType
         DEF NoteOrderRestored, TypeOK, Bookings, AfterRestored
    <3>3. << id, "restored" >> \in Keys
      BY DEF Keys
    <3> QED
      BY <2>2, <3>1, <3>2, <3>3 DEF NoteOrderRestored, TypeOK, LiveWith
  <2>3. ASSUME NEW id \in OrderIds, NEW i \in Intents, NEW m \in MarketFacts,
               Approve(id, i, m)
        PROVE  TypeOK'
    <3>1. now \in Nat
      BY RiskEngineAssumption DEF TypeOK
    <3>2. risk' \in RiskStates
      BY <2>3, <3>1, AfterCheckType DEF Approve, TypeOK
    <3>3. approved' \in Seq(0..MaxTime)
      BY <2>3, AppendProperties DEF Approve, TypeOK
    <3>4. [ strategy |-> i.strategy, account |-> i.account,
            notional |-> Notional(i, m) ] \in Bookings
      BY RiskEngineAssumption, NotionalType DEF Bookings
    <3>5. << id, "approved" >> \in Keys
      BY DEF Keys
    <3>6. live' \in [DOMAIN live' -> Bookings] /\ DOMAIN live' \subseteq Keys
      BY <2>3, <3>4, <3>5 DEF Approve, TypeOK, LiveWith
    <3> QED
      BY <2>3, <3>2, <3>3, <3>6 DEF Approve, TypeOK
  <2>4. ASSUME NEW i \in Intents, NEW m \in MarketFacts, Reject(i, m)
        PROVE  TypeOK'
    <3>1. now \in Nat
      BY RiskEngineAssumption DEF TypeOK
    <3>2. risk' \in RiskStates
      BY <2>4, <3>1, AfterCheckType DEF Reject, TypeOK
    <3> QED
      BY <2>4, <3>2 DEF Reject, TypeOK
  <2>5. ASSUME NEW key \in Keys, NoteOrderTerminal(key)
        PROVE  TypeOK'
    <3>1. live[key] \in Bookings
      BY <2>5 DEF NoteOrderTerminal, TypeOK
    <3>2. risk' \in RiskStates
      BY <2>5, <3>1, BookedType DEF NoteOrderTerminal, TypeOK, Bookings
    <3> QED
      BY <2>5, <3>2 DEF NoteOrderTerminal, TypeOK, Restrict
  <2>6. ASSUME NEW f \in LossFacts, UpdatePnlFacts(f)
        PROVE  TypeOK'
    <3>1. f.equity \in Nat /\ f.daily \in Int
      BY RiskEngineAssumption
    <3>2. risk' \in RiskStates
      BY <2>6, <3>1 DEF UpdatePnlFacts, TypeOK, AfterFacts, RiskStates
    <3> QED
      BY <2>6, <3>2 DEF UpdatePnlFacts, TypeOK
  <2>7. ASSUME NEW c \in BOOLEAN, SetFeedsConnected(c)
        PROVE  TypeOK'
    BY <2>7 DEF SetFeedsConnected, TypeOK, RiskStates
  <2>8. CASE EngageKillSwitch
    BY <2>8 DEF EngageKillSwitch, TypeOK, Engaged, RiskStates
  <2>9. CASE ReleaseKillSwitch
    BY <2>9 DEF ReleaseKillSwitch, TypeOK, Released, RiskStates
  <2>10. CASE Elapse
    BY <2>10, RiskEngineAssumption DEF Elapse, TypeOK
  <2>11. CASE UNCHANGED vars
    BY <2>11 DEF vars, TypeOK
  <2> QED
    BY <2>1, <2>2, <2>3, <2>4, <2>5, <2>6, <2>7, <2>8, <2>9, <2>10, <2>11
       DEF Next
<1> QED
  BY <1>1, <1>2, PTL DEF Spec

(***************************************************************************)
(* What the calls do, field by field                                       *)
(***************************************************************************)

\* Booking an order adds its notional to its strategy and its account, and one
\* to the strategy's count.
LEMMA BookedFields ==
  ASSUME NEW r \in RiskStates, NEW s \in Strategies, NEW a \in Accounts,
         NEW n \in Nat
  PROVE  /\ Booked(r, s, a, n).by_strategy = [r.by_strategy EXCEPT ![s] = @ + n]
         /\ Booked(r, s, a, n).by_account = [r.by_account EXCEPT ![a] = @ + n]
         /\ Booked(r, s, a, n).active = [r.active EXCEPT ![s] = @ + 1]
  BY DEF Booked, RiskStates

\* A terminal report takes the notional off both maps; the count stops at zero.
LEMMA AfterTerminalFields ==
  ASSUME NEW r \in RiskStates, NEW s \in Strategies, NEW a \in Accounts,
         NEW n \in Nat
  PROVE  /\ AfterTerminal(r, s, a, n).by_strategy
              = [r.by_strategy EXCEPT ![s] = @ - n]
         /\ AfterTerminal(r, s, a, n).by_account
              = [r.by_account EXCEPT ![a] = @ - n]
         /\ AfterTerminal(r, s, a, n).active
              = [r.active EXCEPT ![s] = IF @ = 0 THEN 0 ELSE @ - 1]
  BY DEF AfterTerminal, RiskStates

\* Booking and releasing leave the switch, the row of rejections and the queue.
LEMMA BookingTouchesNothingElse ==
  ASSUME NEW r \in RiskStates, NEW s, NEW a, NEW n
  PROVE  /\ Booked(r, s, a, n).engaged = r.engaged
         /\ Booked(r, s, a, n).rejects = r.rejects
         /\ Booked(r, s, a, n).times = r.times
         /\ AfterTerminal(r, s, a, n).engaged = r.engaged
         /\ AfterTerminal(r, s, a, n).rejects = r.rejects
         /\ AfterTerminal(r, s, a, n).times = r.times
  BY DEF Booked, AfterTerminal, RiskStates

\* A rejection books nothing, lengthens the row and never clears the switch.
LEMMA AfterRejectionFields ==
  ASSUME NEW r \in RiskStates, NEW i, NEW m, NEW t
  PROVE  /\ AfterRejection(r, i, m, t).by_strategy = r.by_strategy
         /\ AfterRejection(r, i, m, t).by_account = r.by_account
         /\ AfterRejection(r, i, m, t).active = r.active
         /\ AfterRejection(r, i, m, t).rejects = r.rejects + 1
         /\ AfterRejection(r, i, m, t).engaged
              = (r.engaged \/ ( /\ Limits.consecutive_reject_limit # NoLimit
                               /\ r.rejects + 1 >= Limits.consecutive_reject_limit ))
         /\ AfterRejection(r, i, m, t).times
              = IF BeforeRateCheck(r, i, m) /\ Limits.max_order_rate # NoLimit
                  THEN Pruned(r.times, t) ELSE r.times
  BY DEF AfterRejection, RiskStates

\* An approval books the intent, starts a new row of rejections, and adds to
\* the queue.
LEMMA AfterApprovalFields ==
  ASSUME NEW r \in RiskStates, NEW i \in Intents, NEW m \in MarketFacts, NEW t
  PROVE  LET b == Booked(r, i.strategy, i.account, Notional(i, m))
         IN /\ AfterApproval(r, i, m, t).by_strategy = b.by_strategy
            /\ AfterApproval(r, i, m, t).by_account = b.by_account
            /\ AfterApproval(r, i, m, t).active = b.active
            /\ AfterApproval(r, i, m, t).engaged = r.engaged
            /\ AfterApproval(r, i, m, t).rejects = 0
            /\ AfterApproval(r, i, m, t).times
                 = Append(IF Limits.max_order_rate = NoLimit
                            THEN r.times ELSE Pruned(r.times, t), t)
<1> DEFINE b == Booked(r, i.strategy, i.account, Notional(i, m))
           queue == Append(IF Limits.max_order_rate = NoLimit
                             THEN r.times ELSE Pruned(r.times, t), t)
<1>1. i.strategy \in Strategies /\ i.account \in Accounts /\ Notional(i, m) \in Nat
  BY RiskEngineAssumption, NotionalType
<1>2. b \in RiskStates
  BY <1>1, BookedType
<1>3. b.engaged = r.engaged
  BY BookingTouchesNothingElse
<1>4. AfterApproval(r, i, m, t) = [b EXCEPT !.rejects = 0, !.times = queue]
  BY DEF AfterApproval
<1>5. ASSUME NEW c \in RiskStates, NEW q
      PROVE  LET u == [c EXCEPT !.rejects = 0, !.times = q]
             IN /\ u.by_strategy = c.by_strategy /\ u.by_account = c.by_account
                /\ u.active = c.active /\ u.engaged = c.engaged
                /\ u.rejects = 0 /\ u.times = q
  BY DEF RiskStates
<1> HIDE DEF b, queue
<1>6. /\ AfterApproval(r, i, m, t).by_strategy = b.by_strategy
      /\ AfterApproval(r, i, m, t).by_account = b.by_account
      /\ AfterApproval(r, i, m, t).active = b.active
      /\ AfterApproval(r, i, m, t).engaged = r.engaged
      /\ AfterApproval(r, i, m, t).rejects = 0
      /\ AfterApproval(r, i, m, t).times = queue
  BY <1>2, <1>3, <1>4, <1>5
<1> QED
  BY <1>6 DEF b, queue

(***************************************************************************)
(* Kill switch                                                             *)
(***************************************************************************)

\* No call but the operator's release clears the switch, and while it is set
\* no intent is approved.
THEOREM KillSwitchAlwaysHolds == Spec => KillSwitchHolds
<1> DEFINE Held == risk.engaged => /\ \/ risk'.engaged
                                      \/ risk' = Released(risk) /\ released'
                                   /\ Approved' \subseteq Approved
<1>1. ASSUME TypeOK, Next
      PROVE  Held
  <2>0. risk \in RiskStates
    BY <1>1 DEF TypeOK
  <2>1. ASSUME risk'.engaged = risk.engaged, live' = live
        PROVE  Held
    BY <2>1 DEF Approved
  <2>2. ASSUME NEW id \in OrderIds, NEW b \in RestoredBookings,
               NoteOrderRestored(id, b)
        PROVE  Held
    <3>1. risk' = Booked(risk, b.strategy, b.account, b.notional)
      BY <2>2 DEF NoteOrderRestored, AfterRestored
    <3>2. risk'.engaged = risk.engaged
      BY <2>0, <3>1, BookingTouchesNothingElse
    <3>3. Approved' \subseteq Approved
      BY <2>2 DEF NoteOrderRestored, Approved, LiveWith
    <3> QED
      BY <3>2, <3>3
  <2>3. ASSUME NEW id \in OrderIds, NEW i \in Intents, NEW m \in MarketFacts,
               Approve(id, i, m)
        PROVE  Held
    BY <2>3 DEF Approve, Approves, BeforeRateCheck, TradingEnabled
  <2>4. ASSUME NEW i \in Intents, NEW m \in MarketFacts, Reject(i, m)
        PROVE  Held
    <3>1. risk' = AfterRejection(risk, i, m, now) /\ live' = live
      BY <2>4 DEF Reject, AfterCheck
    <3> QED
      BY <2>0, <3>1, AfterRejectionFields DEF Approved
  <2>5. ASSUME NEW key \in Keys, NoteOrderTerminal(key)
        PROVE  Held
    <3>1. risk' = AfterTerminal(risk, live[key].strategy, live[key].account,
                                live[key].notional)
      BY <2>5 DEF NoteOrderTerminal
    <3>2. risk'.engaged = risk.engaged
      BY <2>0, <3>1, BookingTouchesNothingElse
    <3>3. Approved' \subseteq Approved
      BY <2>5 DEF NoteOrderTerminal, Restrict, Approved
    <3> QED
      BY <3>2, <3>3
  <2>6. ASSUME NEW f \in LossFacts, UpdatePnlFacts(f)
        PROVE  Held
    BY <2>0, <2>1, <2>6 DEF UpdatePnlFacts, AfterFacts, RiskStates
  <2>7. ASSUME NEW c \in BOOLEAN, SetFeedsConnected(c)
        PROVE  Held
    BY <2>0, <2>1, <2>7 DEF SetFeedsConnected, RiskStates
  <2>8. CASE EngageKillSwitch
    BY <2>0, <2>8 DEF EngageKillSwitch, Engaged, RiskStates, Approved
  <2>9. CASE ReleaseKillSwitch
    BY <2>9 DEF ReleaseKillSwitch, Approved
  <2>10. CASE EndBoot \/ Elapse
    BY <2>1, <2>10 DEF EndBoot, Elapse
  <2> QED
    BY <1>1, <2>2, <2>3, <2>4, <2>5, <2>6, <2>7, <2>8, <2>9, <2>10 DEF Next
<1>2. TypeOK /\ [Next]_vars => [Held]_vars
  BY <1>1
<1> QED
  BY <1>2, TypeCorrect, PTL DEF Spec, KillSwitchHolds

(***************************************************************************)
(* Circuit breaker                                                         *)
(***************************************************************************)

Tripped(r, rel) ==
  /\ Limits.consecutive_reject_limit # NoLimit
  /\ r.rejects >= Limits.consecutive_reject_limit
  /\ r.rejects > 0
  => r.engaged \/ rel

\* After consecutive_reject_limit rejections in a row nothing but the operator
\* lets orders through again: an approval in between would have set the count
\* back, and the rejection that completes the row engages the switch.
THEOREM BreakerAlwaysTrips == Spec => []BreakerTrips
<1>0. BreakerTrips <=> Tripped(risk, released)
  BY DEF BreakerTrips, Tripped
<1>1. Init => Tripped(risk, released)
  BY DEF Init, FreshRisk, Tripped
<1>2. ASSUME TypeOK, Tripped(risk, released), [Next]_vars
      PROVE  Tripped(risk', released')
  <2>0. risk \in RiskStates
    BY <1>2 DEF TypeOK
  <2>1. ASSUME /\ risk'.rejects = risk.rejects
               /\ risk'.engaged = risk.engaged
               /\ released' = released
        PROVE  Tripped(risk', released')
    BY <1>2, <2>1 DEF Tripped
  <2>2. ASSUME NEW id \in OrderIds, NEW b \in RestoredBookings,
               NoteOrderRestored(id, b)
        PROVE  Tripped(risk', released')
    BY <2>0, <2>1, <2>2, BookingTouchesNothingElse
       DEF NoteOrderRestored, AfterRestored
  <2>3. ASSUME NEW id \in OrderIds, NEW i \in Intents, NEW m \in MarketFacts,
               Approve(id, i, m)
        PROVE  Tripped(risk', released')
    <3>1. risk' = AfterApproval(risk, i, m, now)
      BY <2>3 DEF Approve, AfterCheck
    <3>2. risk'.rejects = 0
      BY <2>0, <3>1, AfterApprovalFields
    <3> QED
      BY <3>2 DEF Tripped
  <2>4. ASSUME NEW i \in Intents, NEW m \in MarketFacts, Reject(i, m)
        PROVE  Tripped(risk', released')
    <3>1. risk' = AfterRejection(risk, i, m, now)
      BY <2>4 DEF Reject, AfterCheck
    <3>2. /\ risk'.rejects = risk.rejects + 1
          /\ risk'.engaged
               = (risk.engaged \/ ( /\ Limits.consecutive_reject_limit # NoLimit
                                   /\ risk.rejects + 1 >= Limits.consecutive_reject_limit ))
      BY <2>0, <3>1, AfterRejectionFields
    <3> QED
      BY <3>2, Zenon DEF Tripped
  <2>5. ASSUME NEW key \in Keys, NoteOrderTerminal(key)
        PROVE  Tripped(risk', released')
    BY <2>0, <2>1, <2>5, BookingTouchesNothingElse DEF NoteOrderTerminal
  <2>6. ASSUME NEW f \in LossFacts, UpdatePnlFacts(f)
        PROVE  Tripped(risk', released')
    BY <2>0, <2>1, <2>6 DEF UpdatePnlFacts, AfterFacts, RiskStates
  <2>7. ASSUME NEW c \in BOOLEAN, SetFeedsConnected(c)
        PROVE  Tripped(risk', released')
    BY <2>0, <2>1, <2>7 DEF SetFeedsConnected, RiskStates
  <2>8. CASE EngageKillSwitch
    BY <2>0, <2>8 DEF EngageKillSwitch, Engaged, Tripped, RiskStates
  <2>9. CASE ReleaseKillSwitch
    BY <2>9 DEF ReleaseKillSwitch, Tripped
  <2>10. CASE EndBoot \/ Elapse \/ UNCHANGED vars
    BY <2>1, <2>10 DEF EndBoot, Elapse, vars
  <2> QED
    BY <1>2, <2>2, <2>3, <2>4, <2>5, <2>6, <2>7, <2>8, <2>9, <2>10 DEF Next
<1>3. Tripped(risk', released') <=> Tripped(risk, released)'
  BY DEF Tripped
<1> QED
  BY <1>0, <1>1, <1>2, <1>3, TypeCorrect, PTL DEF Spec

(***************************************************************************)
(* Order rate                                                              *)
(***************************************************************************)

\* The queue is the end of the history of approvals, and what is missing from
\* it is older than the window.
WindowKept(queue, history, t) ==
  LET dropped == Len(history) - Len(queue)
  IN /\ dropped \in Nat
     /\ \A n \in 1..Len(history) : history[n] <= t
     /\ \A n \in 1..Len(queue) : queue[n] = history[dropped + n]
     /\ Limits.max_order_rate # NoLimit =>
          \A n \in 1..dropped : history[n] < t - RateWindow

RateKept(history) ==
  Limits.max_order_rate # NoLimit =>
    \A n, k \in 1..Len(history) :
      k = n + Limits.max_order_rate => history[k] > history[n] + RateWindow

\* Pruning drops only what is older than the window.
LEMMA PruningKeepsWindow ==
  ASSUME NEW queue \in Seq(Nat), NEW history \in Seq(Nat), NEW t \in Nat,
         WindowKept(queue, history, t)
  PROVE  WindowKept(Pruned(queue, t), history, t)
<1> DEFINE dropped == Len(history) - Len(queue)
<1>1. PICK d \in 0..Len(queue) :
        /\ Pruned(queue, t) \in Seq(Nat)
        /\ Len(Pruned(queue, t)) = Len(queue) - d
        /\ \A n \in 1..(Len(queue) - d) : Pruned(queue, t)[n] = queue[d + n]
        /\ \A n \in 1..d : queue[n] < t - RateWindow
  BY PrunedDropsOld
<1>2. Len(queue) \in Nat /\ Len(history) \in Nat /\ dropped \in Nat
  BY LenProperties DEF WindowKept
<1>3. \A n \in 1..Len(queue) : queue[n] = history[dropped + n]
  BY DEF WindowKept
<1>4. Len(history) - Len(Pruned(queue, t)) = dropped + d
  BY <1>1, <1>2
<1>5. \A n \in 1..Len(Pruned(queue, t)) :
        Pruned(queue, t)[n] = history[dropped + d + n]
  <2> SUFFICES ASSUME NEW n \in 1..(Len(queue) - d)
               PROVE  Pruned(queue, t)[n] = history[dropped + d + n]
    BY <1>1
  <2>1. d + n \in 1..Len(queue) /\ dropped + (d + n) = dropped + d + n
    BY <1>2
  <2>2. Pruned(queue, t)[n] = queue[d + n]
    BY <1>1
  <2> QED
    BY <1>3, <2>1, <2>2
<1>6. ASSUME Limits.max_order_rate # NoLimit, NEW n \in 1..(dropped + d)
      PROVE  history[n] < t - RateWindow
  <2>1. CASE n <= dropped
    BY <1>2, <1>6, <2>1 DEF WindowKept
  <2>2. CASE n > dropped
    <3>1. n - dropped \in 1..d /\ n - dropped \in 1..Len(queue)
      BY <1>1, <1>2, <2>2
    <3>2. queue[n - dropped] = history[n]
      BY <1>2, <1>3, <3>1
    <3> QED
      BY <1>1, <3>1, <3>2
  <2> QED
    BY <1>2, <2>1, <2>2
<1> QED
  BY <1>1, <1>2, <1>4, <1>5, <1>6 DEF WindowKept

\* An approval at t goes to both ends.
LEMMA AppendKeepsWindow ==
  ASSUME NEW queue \in Seq(Nat), NEW history \in Seq(Nat), NEW t \in Nat,
         WindowKept(queue, history, t)
  PROVE  WindowKept(Append(queue, t), Append(history, t), t)
<1> DEFINE dropped == Len(history) - Len(queue)
<1>1. /\ Len(queue) \in Nat /\ Len(history) \in Nat /\ dropped \in Nat
      /\ Len(Append(queue, t)) = Len(queue) + 1
      /\ Len(Append(history, t)) = Len(history) + 1
  BY LenProperties, AppendProperties DEF WindowKept
<1>2. /\ \A n \in 1..Len(queue) : Append(queue, t)[n] = queue[n]
      /\ Append(queue, t)[Len(queue) + 1] = t
      /\ \A n \in 1..Len(history) : Append(history, t)[n] = history[n]
      /\ Append(history, t)[Len(history) + 1] = t
  BY AppendProperties
<1>3. Len(Append(history, t)) - Len(Append(queue, t)) = dropped
  BY <1>1
<1>4. \A n \in 1..(Len(history) + 1) : Append(history, t)[n] <= t
  BY <1>1, <1>2 DEF WindowKept
<1>5. ASSUME NEW n \in 1..(Len(queue) + 1)
      PROVE  Append(queue, t)[n] = Append(history, t)[dropped + n]
  <2>1. CASE n \in 1..Len(queue)
    <3>1. dropped + n \in 1..Len(history)
      BY <1>1, <2>1
    <3> QED
      BY <1>2, <2>1, <3>1 DEF WindowKept
  <2>2. CASE n = Len(queue) + 1
    BY <1>1, <1>2, <2>2
  <2> QED
    BY <1>1, <2>1, <2>2
<1>6. ASSUME Limits.max_order_rate # NoLimit, NEW n \in 1..dropped
      PROVE  Append(history, t)[n] < t - RateWindow
  BY <1>1, <1>2, <1>6 DEF WindowKept
<1> QED
  BY <1>1, <1>3, <1>4, <1>5, <1>6 DEF WindowKept

\* What is old stays old.
LEMMA WaitingKeepsWindow ==
  ASSUME NEW queue \in Seq(Nat), NEW history \in Seq(Nat), NEW t \in Nat,
         WindowKept(queue, history, t)
  PROVE  WindowKept(queue, history, t + 1)
<1> DEFINE dropped == Len(history) - Len(queue)
<1>1. /\ Len(queue) \in Nat /\ Len(history) \in Nat /\ dropped \in Nat
      /\ RateWindow \in Nat
      /\ \A n \in 1..Len(history) : history[n] \in Nat
  BY LenProperties, ElementOfSeq, RiskAssumption DEF WindowKept
<1>2. \A n \in 1..Len(history) : history[n] <= t + 1
  BY <1>1 DEF WindowKept
<1>3. ASSUME Limits.max_order_rate # NoLimit, NEW n \in 1..dropped
      PROVE  history[n] < t + 1 - RateWindow
  BY <1>1, <1>3 DEF WindowKept
<1> QED
  BY <1>1, <1>2, <1>3 DEF WindowKept

\* No call makes the history of approvals denser than the limit: when an
\* approval goes through, the queue is shorter than the limit, so the approval
\* that lies max_order_rate back has been pruned from it, and is old.
THEOREM RateAlwaysHolds == Spec => []RateHolds
<1> DEFINE Kept == WindowKept(risk.times, approved, now) /\ RateKept(approved)
<1>0. Kept /\ TypeOK => RateHolds
  BY LenProperties DEF RateKept, RateHolds, TypeOK
<1>1. Init => Kept
  BY DEF Init, FreshRisk, WindowKept, RateKept
<1>2. ASSUME TypeOK, Kept, [Next]_vars
      PROVE  Kept'
  <2>0. /\ risk \in RiskStates /\ risk.times \in Seq(Nat)
        /\ approved \in Seq(Nat) /\ now \in Nat /\ Len(approved) \in Nat
    BY <1>2, RiskEngineAssumption, SeqMonotonic, LenProperties DEF TypeOK, RiskStates
  <2>1. ASSUME risk'.times = risk.times, approved' = approved, now' = now
        PROVE  Kept'
    BY <1>2, <2>1 DEF WindowKept, RateKept
  <2>2. ASSUME NEW id \in OrderIds, NEW b \in RestoredBookings,
               NoteOrderRestored(id, b)
        PROVE  Kept'
    BY <2>0, <2>1, <2>2, BookingTouchesNothingElse
       DEF NoteOrderRestored, AfterRestored
  <2>3. ASSUME NEW id \in OrderIds, NEW i \in Intents, NEW m \in MarketFacts,
               Approve(id, i, m)
        PROVE  Kept'
    <3> DEFINE queue == IF Limits.max_order_rate = NoLimit
                          THEN risk.times ELSE Pruned(risk.times, now)
    <3>1. risk' = AfterApproval(risk, i, m, now) /\ approved' = Append(approved, now)
          /\ now' = now /\ RateAllows(risk, now)
      BY <2>3 DEF Approve, Approves, AfterCheck
    <3>2. risk'.times = Append(queue, now)
      BY <2>0, <3>1, AfterApprovalFields
    <3>3. queue \in Seq(Nat) /\ WindowKept(queue, approved, now)
      BY <1>2, <2>0, PruningKeepsWindow, PrunedDropsOld
    <3>4. Limits.max_order_rate # NoLimit => Len(queue) < Limits.max_order_rate
      BY <3>1 DEF RateAllows
    <3> HIDE DEF queue
    <3>5. WindowKept(risk'.times, approved', now')
      BY <2>0, <3>1, <3>2, <3>3, AppendKeepsWindow
    <3>6. RateKept(approved')
      <4>1. SUFFICES ASSUME Limits.max_order_rate # NoLimit,
                            NEW n \in 1..Len(approved'), NEW k \in 1..Len(approved'),
                            k = n + Limits.max_order_rate
                     PROVE  approved'[k] > approved'[n] + RateWindow
        BY DEF RateKept
      <4>2. /\ Len(approved') = Len(approved) + 1
            /\ \A x \in 1..Len(approved) : approved'[x] = approved[x]
            /\ approved'[Len(approved) + 1] = now
        BY <2>0, <3>1, AppendProperties
      <4>3. Limits.max_order_rate \in Nat /\ RateWindow \in Nat
        BY <4>1, RiskAssumption
      <4>4. CASE k <= Len(approved)
        <5>1. n \in 1..Len(approved) /\ k \in 1..Len(approved)
          BY <2>0, <4>1, <4>3, <4>4
        <5> QED
          BY <1>2, <4>1, <4>2, <5>1 DEF RateKept
      <4>5. CASE k = Len(approved) + 1
        <5>1. Len(queue) \in Nat
          BY <3>3, LenProperties
        <5>2. n \in 1..(Len(approved) - Len(queue))
          BY <2>0, <3>4, <4>1, <4>3, <4>5, <5>1
        <5>3. approved[n] < now - RateWindow
          BY <3>3, <4>1, <5>2 DEF WindowKept
        <5>4. n \in 1..Len(approved)
          BY <2>0, <5>1, <5>2
        <5>5. approved[n] \in Nat
          BY <2>0, <5>4, ElementOfSeq
        <5> QED
          BY <2>0, <4>2, <4>3, <4>5, <5>3, <5>4, <5>5
      <4> QED
        BY <2>0, <4>1, <4>2, <4>4, <4>5
    <3> QED
      BY <3>5, <3>6
  <2>4. ASSUME NEW i \in Intents, NEW m \in MarketFacts, Reject(i, m)
        PROVE  Kept'
    <3>1. risk' = AfterRejection(risk, i, m, now) /\ approved' = approved /\ now' = now
      BY <2>4 DEF Reject, AfterCheck
    <3>2. risk'.times = risk.times \/ risk'.times = Pruned(risk.times, now)
      BY <2>0, <3>1, AfterRejectionFields
    <3>3. WindowKept(risk'.times, approved, now)
      BY <1>2, <2>0, <3>2, PruningKeepsWindow
    <3> QED
      BY <1>2, <3>1, <3>3
  <2>5. ASSUME NEW key \in Keys, NoteOrderTerminal(key)
        PROVE  Kept'
    BY <2>0, <2>1, <2>5, BookingTouchesNothingElse DEF NoteOrderTerminal
  <2>6. ASSUME NEW f \in LossFacts, UpdatePnlFacts(f)
        PROVE  Kept'
    BY <2>0, <2>1, <2>6 DEF UpdatePnlFacts, AfterFacts, RiskStates
  <2>7. ASSUME NEW c \in BOOLEAN, SetFeedsConnected(c)
        PROVE  Kept'
    BY <2>0, <2>1, <2>7 DEF SetFeedsConnected, RiskStates
  <2>8. CASE EngageKillSwitch
    BY <2>0, <2>1, <2>8 DEF EngageKillSwitch, Engaged, RiskStates
  <2>9. CASE ReleaseKillSwitch
    BY <2>0, <2>1, <2>9 DEF ReleaseKillSwitch, Released, RiskStates
  <2>10. CASE Elapse
    <3>1. now' = now + 1 /\ risk' = risk /\ approved' = approved
      BY <2>10 DEF Elapse
    <3>2. WindowKept(risk.times, approved, now + 1)
      BY <1>2, <2>0, WaitingKeepsWindow
    <3> QED
      BY <1>2, <3>1, <3>2
  <2>11. CASE EndBoot \/ UNCHANGED vars
    BY <2>1, <2>11 DEF EndBoot, vars
  <2> QED
    BY <1>2, <2>2, <2>3, <2>4, <2>5, <2>6, <2>7, <2>8, <2>9, <2>10, <2>11 DEF Next
<1> QED
  BY <1>0, <1>1, <1>2, TypeCorrect, PTL DEF Spec

(***************************************************************************)
(* Bookings                                                                *)
(***************************************************************************)

Notionals(l) == [id \in DOMAIN l |-> l[id].notional]

OfStrategy(l, s) == { id \in DOMAIN l : l[id].strategy = s }
OfAccount(l, a)  == { id \in DOMAIN l : l[id].account = a }

\* BookingsExact of any state of the engine and any live orders, which have to be
\* finitely many for a sum of them to mean anything.
Exact(r, l) ==
  /\ IsFiniteSet(DOMAIN l)
  /\ \A s \in Strategies :
       /\ r.by_strategy[s] = SumFunctionOnSet(Notionals(l), OfStrategy(l, s))
       /\ r.active[s] = Cardinality(OfStrategy(l, s))
  /\ \A a \in Accounts :
       r.by_account[a] = SumFunctionOnSet(Notionals(l), OfAccount(l, a))

\* l has all the orders of k, and one more that is booked with b.
OneMore(k, l, id, b) ==
  /\ IsFiniteSet(DOMAIN k)
  /\ id \notin DOMAIN k /\ DOMAIN l = DOMAIN k \cup {id}
  /\ \A x \in DOMAIN k : k[x] \in Bookings /\ l[x] = k[x]
  /\ l[id] = b /\ b \in Bookings

\* A set of the old orders holds the same in l and k; with the new order it
\* holds as much more as the order was booked with.
LEMMA OneMoreHolds ==
  ASSUME NEW k, NEW l, NEW id, NEW b, OneMore(k, l, id, b)
  PROVE  \A S \in SUBSET DOMAIN k :
           /\ SumFunctionOnSet(Notionals(k), S) \in Int
           /\ SumFunctionOnSet(Notionals(l), S) = SumFunctionOnSet(Notionals(k), S)
           /\ SumFunctionOnSet(Notionals(l), S \cup {id})
                = SumFunctionOnSet(Notionals(k), S) + b.notional
           /\ Cardinality(S) \in Nat /\ Cardinality(S \cup {id}) = Cardinality(S) + 1
<1> TAKE S \in SUBSET DOMAIN k
<1>1. IsFiniteSet(S) /\ id \notin S
  BY FS_Subset DEF OneMore
<1>2. /\ \A x \in S : Notionals(k)[x] \in Int /\ Notionals(l)[x] = Notionals(k)[x]
      /\ \A x \in S \cup {id} : Notionals(l)[x] \in Int
      /\ Notionals(l)[id] = b.notional /\ b.notional \in Int
  BY DEF OneMore, Notionals, Bookings
<1>3. SumFunctionOnSet(Notionals(l), S) = SumFunctionOnSet(Notionals(k), S)
  BY <1>1, <1>2, SumEqual
<1>4. SumFunctionOnSet(Notionals(k), S) \in Int
  BY <1>1, <1>2, SumChosen
<1>5. /\ IsFiniteSet(S \cup {id}) /\ (S \cup {id}) \ {id} = S
      /\ Cardinality(S) \in Nat /\ Cardinality(S \cup {id}) = Cardinality(S) + 1
  BY <1>1, FS_AddElement, FS_CardinalityType
<1>6. SumFunctionOnSet(Notionals(l), S \cup {id})
        = b.notional + SumFunctionOnSet(Notionals(l), S)
  BY <1>2, <1>5, SumRemove
<1> QED
  BY <1>2, <1>3, <1>4, <1>5, <1>6

\* So of every strategy and account, the new order's and the others.
LEMMA OneMoreOf ==
  ASSUME NEW k, NEW l, NEW id, NEW b, OneMore(k, l, id, b)
  PROVE  /\ \A s : OfStrategy(l, s) = IF s = b.strategy THEN OfStrategy(k, s) \cup {id}
                                                      ELSE OfStrategy(k, s)
         /\ \A a : OfAccount(l, a) = IF a = b.account THEN OfAccount(k, a) \cup {id}
                                                    ELSE OfAccount(k, a)
         /\ \A s : OfStrategy(k, s) \in SUBSET DOMAIN k
         /\ \A a : OfAccount(k, a) \in SUBSET DOMAIN k
  BY DEF OneMore, OfStrategy, OfAccount

\* Booking an order keeps the maps exact.
LEMMA BookedExact ==
  ASSUME NEW r \in RiskStates, NEW k, NEW l, NEW id, NEW b,
         OneMore(k, l, id, b), Exact(r, k)
  PROVE  Exact(Booked(r, b.strategy, b.account, b.notional), l)
<1> DEFINE q == Booked(r, b.strategy, b.account, b.notional)
<1>0. b.strategy \in Strategies /\ b.account \in Accounts /\ b.notional \in Nat
  BY DEF OneMore, Bookings
<1>1. /\ q.by_strategy = [r.by_strategy EXCEPT ![b.strategy] = @ + b.notional]
      /\ q.by_account = [r.by_account EXCEPT ![b.account] = @ + b.notional]
      /\ q.active = [r.active EXCEPT ![b.strategy] = @ + 1]
  BY <1>0, BookedFields
<1>2. /\ r.by_strategy \in [Strategies -> Int] /\ r.by_account \in [Accounts -> Int]
      /\ r.active \in [Strategies -> Nat]
  BY DEF RiskStates
<1>3. IsFiniteSet(DOMAIN l)
  BY FS_AddElement DEF OneMore
<1> HIDE DEF q
<1>6. \A S \in SUBSET DOMAIN k :
        /\ SumFunctionOnSet(Notionals(k), S) \in Int
        /\ SumFunctionOnSet(Notionals(l), S) = SumFunctionOnSet(Notionals(k), S)
        /\ SumFunctionOnSet(Notionals(l), S \cup {id})
             = SumFunctionOnSet(Notionals(k), S) + b.notional
        /\ Cardinality(S) \in Nat /\ Cardinality(S \cup {id}) = Cardinality(S) + 1
  BY OneMoreHolds
<1>4. ASSUME NEW s \in Strategies
      PROVE  /\ q.by_strategy[s] = SumFunctionOnSet(Notionals(l), OfStrategy(l, s))
             /\ q.active[s] = Cardinality(OfStrategy(l, s))
  <2>1. /\ r.by_strategy[s] = SumFunctionOnSet(Notionals(k), OfStrategy(k, s))
        /\ r.active[s] = Cardinality(OfStrategy(k, s))
    BY DEF Exact
  <2>2. CASE s = b.strategy
    <3>1. q.by_strategy[s] = r.by_strategy[s] + b.notional /\ q.active[s] = r.active[s] + 1
      BY <1>1, <1>2, <2>2
    <3>2. OfStrategy(l, s) = OfStrategy(k, s) \cup {id} /\ OfStrategy(k, s) \in SUBSET DOMAIN k
      BY <2>2, OneMoreOf
    <3>3. /\ SumFunctionOnSet(Notionals(l), OfStrategy(k, s) \cup {id})
               = SumFunctionOnSet(Notionals(k), OfStrategy(k, s)) + b.notional
          /\ SumFunctionOnSet(Notionals(k), OfStrategy(k, s)) \in Int
          /\ Cardinality(OfStrategy(k, s)) \in Nat
          /\ Cardinality(OfStrategy(k, s) \cup {id}) = Cardinality(OfStrategy(k, s)) + 1
      BY <1>6, <3>2
    <3> QED
      BY <1>0, <2>1, <3>1, <3>2, <3>3
  <2>3. CASE s # b.strategy
    <3>1. q.by_strategy[s] = r.by_strategy[s] /\ q.active[s] = r.active[s]
      BY <1>1, <1>2, <2>3
    <3>2. OfStrategy(l, s) = OfStrategy(k, s) /\ OfStrategy(k, s) \in SUBSET DOMAIN k
      BY <2>3, OneMoreOf
    <3>3. SumFunctionOnSet(Notionals(l), OfStrategy(k, s))
            = SumFunctionOnSet(Notionals(k), OfStrategy(k, s))
      BY <1>6, <3>2
    <3> QED
      BY <1>0, <2>1, <3>1, <3>2, <3>3
  <2> QED
    BY <2>2, <2>3
<1>5. ASSUME NEW a \in Accounts
      PROVE  q.by_account[a] = SumFunctionOnSet(Notionals(l), OfAccount(l, a))
  <2>1. r.by_account[a] = SumFunctionOnSet(Notionals(k), OfAccount(k, a))
    BY DEF Exact
  <2>2. CASE a = b.account
    <3>1. q.by_account[a] = r.by_account[a] + b.notional
      BY <1>1, <1>2, <2>2
    <3>2. OfAccount(l, a) = OfAccount(k, a) \cup {id} /\ OfAccount(k, a) \in SUBSET DOMAIN k
      BY <2>2, OneMoreOf
    <3>3. /\ SumFunctionOnSet(Notionals(l), OfAccount(k, a) \cup {id})
               = SumFunctionOnSet(Notionals(k), OfAccount(k, a)) + b.notional
          /\ SumFunctionOnSet(Notionals(k), OfAccount(k, a)) \in Int
      BY <1>6, <3>2
    <3> QED
      BY <1>0, <2>1, <3>1, <3>2, <3>3
  <2>3. CASE a # b.account
    <3>1. q.by_account[a] = r.by_account[a]
      BY <1>1, <1>2, <2>3
    <3>2. OfAccount(l, a) = OfAccount(k, a) /\ OfAccount(k, a) \in SUBSET DOMAIN k
      BY <2>3, OneMoreOf
    <3>3. SumFunctionOnSet(Notionals(l), OfAccount(k, a))
            = SumFunctionOnSet(Notionals(k), OfAccount(k, a))
      BY <1>6, <3>2
    <3> QED
      BY <1>0, <2>1, <3>1, <3>2, <3>3
  <2> QED
    BY <2>2, <2>3
<1> QED
  BY <1>3, <1>4, <1>5 DEF Exact, q

\* Releasing a live order with what it was booked with keeps them exact; the
\* count does not saturate, because the order is counted.
LEMMA ReleasedExact ==
  ASSUME NEW r \in RiskStates, NEW k, NEW l, NEW id, NEW b,
         OneMore(k, l, id, b), Exact(r, l)
  PROVE  Exact(AfterTerminal(r, b.strategy, b.account, b.notional), k)
<1> DEFINE q == AfterTerminal(r, b.strategy, b.account, b.notional)
<1>0. b.strategy \in Strategies /\ b.account \in Accounts /\ b.notional \in Nat
  BY DEF OneMore, Bookings
<1>1. /\ q.by_strategy = [r.by_strategy EXCEPT ![b.strategy] = @ - b.notional]
      /\ q.by_account = [r.by_account EXCEPT ![b.account] = @ - b.notional]
      /\ q.active = [r.active EXCEPT ![b.strategy] = IF @ = 0 THEN 0 ELSE @ - 1]
  BY <1>0, AfterTerminalFields
<1>2. /\ r.by_strategy \in [Strategies -> Int] /\ r.by_account \in [Accounts -> Int]
      /\ r.active \in [Strategies -> Nat]
  BY DEF RiskStates
<1>3. IsFiniteSet(DOMAIN k)
  BY DEF OneMore
<1> HIDE DEF q
<1>6. \A S \in SUBSET DOMAIN k :
        /\ SumFunctionOnSet(Notionals(k), S) \in Int
        /\ SumFunctionOnSet(Notionals(l), S) = SumFunctionOnSet(Notionals(k), S)
        /\ SumFunctionOnSet(Notionals(l), S \cup {id})
             = SumFunctionOnSet(Notionals(k), S) + b.notional
        /\ Cardinality(S) \in Nat /\ Cardinality(S \cup {id}) = Cardinality(S) + 1
  BY OneMoreHolds
<1>4. ASSUME NEW s \in Strategies
      PROVE  /\ q.by_strategy[s] = SumFunctionOnSet(Notionals(k), OfStrategy(k, s))
             /\ q.active[s] = Cardinality(OfStrategy(k, s))
  <2>1. /\ r.by_strategy[s] = SumFunctionOnSet(Notionals(l), OfStrategy(l, s))
        /\ r.active[s] = Cardinality(OfStrategy(l, s))
    BY DEF Exact
  <2>2. CASE s = b.strategy
    <3>1. /\ q.by_strategy[s] = r.by_strategy[s] - b.notional
          /\ q.active[s] = IF r.active[s] = 0 THEN 0 ELSE r.active[s] - 1
      BY <1>1, <1>2, <2>2
    <3>2. OfStrategy(l, s) = OfStrategy(k, s) \cup {id} /\ OfStrategy(k, s) \in SUBSET DOMAIN k
      BY <2>2, OneMoreOf
    <3>3. /\ SumFunctionOnSet(Notionals(l), OfStrategy(k, s) \cup {id})
               = SumFunctionOnSet(Notionals(k), OfStrategy(k, s)) + b.notional
          /\ SumFunctionOnSet(Notionals(k), OfStrategy(k, s)) \in Int
          /\ Cardinality(OfStrategy(k, s)) \in Nat
          /\ Cardinality(OfStrategy(k, s) \cup {id}) = Cardinality(OfStrategy(k, s)) + 1
      BY <1>6, <3>2
    <3> QED
      BY <1>0, <2>1, <3>1, <3>2, <3>3
  <2>3. CASE s # b.strategy
    <3>1. q.by_strategy[s] = r.by_strategy[s] /\ q.active[s] = r.active[s]
      BY <1>1, <1>2, <2>3
    <3>2. OfStrategy(l, s) = OfStrategy(k, s) /\ OfStrategy(k, s) \in SUBSET DOMAIN k
      BY <2>3, OneMoreOf
    <3>3. SumFunctionOnSet(Notionals(l), OfStrategy(k, s))
            = SumFunctionOnSet(Notionals(k), OfStrategy(k, s))
      BY <1>6, <3>2
    <3> QED
      BY <1>0, <2>1, <3>1, <3>2, <3>3
  <2> QED
    BY <2>2, <2>3
<1>5. ASSUME NEW a \in Accounts
      PROVE  q.by_account[a] = SumFunctionOnSet(Notionals(k), OfAccount(k, a))
  <2>1. r.by_account[a] = SumFunctionOnSet(Notionals(l), OfAccount(l, a))
    BY DEF Exact
  <2>2. CASE a = b.account
    <3>1. q.by_account[a] = r.by_account[a] - b.notional
      BY <1>1, <1>2, <2>2
    <3>2. OfAccount(l, a) = OfAccount(k, a) \cup {id} /\ OfAccount(k, a) \in SUBSET DOMAIN k
      BY <2>2, OneMoreOf
    <3>3. /\ SumFunctionOnSet(Notionals(l), OfAccount(k, a) \cup {id})
               = SumFunctionOnSet(Notionals(k), OfAccount(k, a)) + b.notional
          /\ SumFunctionOnSet(Notionals(k), OfAccount(k, a)) \in Int
      BY <1>6, <3>2
    <3> QED
      BY <1>0, <2>1, <3>1, <3>2, <3>3
  <2>3. CASE a # b.account
    <3>1. q.by_account[a] = r.by_account[a]
      BY <1>1, <1>2, <2>3
    <3>2. OfAccount(l, a) = OfAccount(k, a) /\ OfAccount(k, a) \in SUBSET DOMAIN k
      BY <2>3, OneMoreOf
    <3>3. SumFunctionOnSet(Notionals(l), OfAccount(k, a))
            = SumFunctionOnSet(Notionals(k), OfAccount(k, a))
      BY <1>6, <3>2
    <3> QED
      BY <1>0, <2>1, <3>1, <3>2, <3>3
  <2> QED
    BY <2>2, <2>3
<1> QED
  BY <1>3, <1>4, <1>5 DEF Exact, q

LEMMA ExactHolds == Spec => []Exact(risk, live)
<1>1. Init => Exact(risk, live)
  <2> SUFFICES ASSUME Init
               PROVE  Exact(risk, live)
    OBVIOUS
  <2>1. DOMAIN live = {} /\ risk = FreshRisk
    BY DEF Init
  <2>2. SumFunctionOnSet(Notionals(live), {}) = 0 /\ IsFiniteSet({}) /\ Cardinality({}) = 0
    BY FS_EmptySet, SumChosen
  <2>3. \A x : OfStrategy(live, x) = {} /\ OfAccount(live, x) = {}
    BY <2>1 DEF OfStrategy, OfAccount
  <2> QED
    BY <2>1, <2>2, <2>3 DEF FreshRisk, Exact
<1>2. ASSUME TypeOK, Exact(risk, live), [Next]_vars
      PROVE  Exact(risk', live')
  <2>0. risk \in RiskStates /\ live \in [DOMAIN live -> Bookings] /\ IsFiniteSet(DOMAIN live)
    BY <1>2 DEF TypeOK, Exact
  <2>1. ASSUME /\ risk'.by_strategy = risk.by_strategy
               /\ risk'.by_account = risk.by_account
               /\ risk'.active = risk.active
               /\ live' = live
        PROVE  Exact(risk', live')
    BY <1>2, <2>1 DEF Exact
  <2>2. ASSUME NEW id, id \notin DOMAIN live, NEW b \in Bookings, live' = LiveWith(id, b)
        PROVE  OneMore(live, live', id, b)
    BY <2>0, <2>2 DEF OneMore, LiveWith
  <2>3. ASSUME NEW id \in OrderIds, NEW b \in RestoredBookings,
               NoteOrderRestored(id, b)
        PROVE  Exact(risk', live')
    <3>1. /\ b \in Bookings /\ << id, "restored" >> \notin DOMAIN live
          /\ live' = LiveWith(<< id, "restored" >>, b)
      BY <2>3, RiskEngineAssumption DEF NoteOrderRestored
    <3>2. risk' = Booked(risk, b.strategy, b.account, b.notional)
      BY <2>3 DEF NoteOrderRestored, AfterRestored
    <3> QED
      BY <1>2, <2>0, <2>2, <3>1, <3>2, BookedExact
  <2>4. ASSUME NEW id \in OrderIds, NEW i \in Intents, NEW m \in MarketFacts,
               Approve(id, i, m)
        PROVE  Exact(risk', live')
    <3> DEFINE b == [ strategy |-> i.strategy, account |-> i.account,
                      notional |-> Notional(i, m) ]
               q == Booked(risk, b.strategy, b.account, b.notional)
    <3>1. b \in Bookings
      BY RiskEngineAssumption, NotionalType DEF Bookings
    <3>2. << id, "approved" >> \notin DOMAIN live /\ live' = LiveWith(<< id, "approved" >>, b)
      BY <2>4 DEF Approve
    <3>3. risk' = AfterApproval(risk, i, m, now)
      BY <2>4 DEF Approve, AfterCheck
    <3>4. /\ risk'.by_strategy = q.by_strategy
          /\ risk'.by_account = q.by_account
          /\ risk'.active = q.active
      BY <2>0, <3>3, AfterApprovalFields
    <3> HIDE DEF b
    <3>5. Exact(q, live')
      BY <1>2, <2>0, <2>2, <3>1, <3>2, BookedExact
    <3> HIDE DEF q
    <3> QED
      BY <3>4, <3>5 DEF Exact
  <2>5. ASSUME NEW i \in Intents, NEW m \in MarketFacts, Reject(i, m)
        PROVE  Exact(risk', live')
    <3>1. risk' = AfterRejection(risk, i, m, now) /\ live' = live
      BY <2>5 DEF Reject, AfterCheck
    <3> QED
      BY <2>0, <2>1, <3>1, AfterRejectionFields
  <2>6. ASSUME NEW key \in Keys, NoteOrderTerminal(key)
        PROVE  Exact(risk', live')
    <3>1. /\ key \in DOMAIN live /\ live' = Restrict(live, DOMAIN live \ {key})
          /\ risk' = AfterTerminal(risk, live[key].strategy, live[key].account,
                                   live[key].notional)
      BY <2>6 DEF NoteOrderTerminal
    <3>2. IsFiniteSet(DOMAIN live \ {key}) /\ DOMAIN live' = DOMAIN live \ {key}
      BY <2>0, <3>1, FS_RemoveElement DEF Restrict
    <3>3. OneMore(live', live, key, live[key])
      BY <2>0, <3>1, <3>2 DEF OneMore, Restrict
    <3> QED
      BY <1>2, <2>0, <3>1, <3>3, ReleasedExact
  <2>7. ASSUME NEW f \in LossFacts, UpdatePnlFacts(f)
        PROVE  Exact(risk', live')
    BY <2>0, <2>1, <2>7 DEF UpdatePnlFacts, AfterFacts, RiskStates
  <2>8. ASSUME NEW c \in BOOLEAN, SetFeedsConnected(c)
        PROVE  Exact(risk', live')
    BY <2>0, <2>1, <2>8 DEF SetFeedsConnected, RiskStates
  <2>9. CASE EngageKillSwitch
    BY <2>0, <2>1, <2>9 DEF EngageKillSwitch, Engaged, RiskStates
  <2>10. CASE ReleaseKillSwitch
    BY <2>0, <2>1, <2>10 DEF ReleaseKillSwitch, Released, RiskStates
  <2>11. CASE EndBoot \/ Elapse \/ UNCHANGED vars
    BY <2>1, <2>11 DEF EndBoot, Elapse, vars
  <2> QED
    BY <1>2, <2>3, <2>4, <2>5, <2>6, <2>7, <2>8, <2>9, <2>10, <2>11 DEF Next
<1>3. Exact(risk', live') <=> Exact(risk, live)'
  BY DEF Exact, Notionals, OfStrategy, OfAccount
<1> QED
  BY <1>1, <1>2, <1>3, TypeCorrect, PTL DEF Spec

\* The maps hold exactly what is booked, for ever: approvals, restores and terminal
\* reports book and release the same, and nothing else touches them.
THEOREM BookingsAlwaysExact == Spec => []BookingsExact
<1>1. Exact(risk, live) => BookingsExact
  BY DEF Exact, BookingsExact, BookedTo, Notionals, OfStrategy, OfAccount
<1> QED
  BY <1>1, ExactHolds, PTL

(***************************************************************************)
(* Caps                                                                    *)
(***************************************************************************)

\* CapsHold of any bookings.
Agreed(l)          == { x \in DOMAIN l : x[2] = "approved" }
AgreedWith(l, s)   == { x \in Agreed(l) : l[x].strategy = s }
AgreedFor(l, a)    == { x \in Agreed(l) : l[x].account = a }

Capped(l) ==
  /\ \A s \in Strategies :
       /\ Within(SumFunctionOnSet(Notionals(l), AgreedWith(l, s)),
                 Limits.max_strategy_notional)
       /\ Within(Cardinality(AgreedWith(l, s)), Limits.max_active_orders)
  /\ \A a \in Accounts :
       Within(SumFunctionOnSet(Notionals(l), AgreedFor(l, a)),
              Limits.max_account_notional)

\* A part of some bookings adds up to no more than all of them.
LEMMA PartOfSum ==
  ASSUME NEW S, IsFiniteSet(S), NEW T \in SUBSET S, NEW f, \A x \in S : f[x] \in Nat
  PROVE  /\ SumFunctionOnSet(f, T) \in Int /\ SumFunctionOnSet(f, S) \in Int
         /\ SumFunctionOnSet(f, T) <= SumFunctionOnSet(f, S)
         /\ Cardinality(T) \in Nat /\ Cardinality(S) \in Nat
         /\ Cardinality(T) <= Cardinality(S)
<1> DEFINE g == [x \in S |-> IF x \in T THEN f[x] ELSE 0]
<1>1. IsFiniteSet(T) /\ Cardinality(T) <= Cardinality(S)
  BY FS_Subset
<1>2. /\ \A x \in S : f[x] \in Int /\ g[x] \in Int /\ g[x] <= f[x]
      /\ \A x \in S \ T : g[x] = 0
      /\ \A x \in T : f[x] \in Int /\ g[x] = f[x]
  OBVIOUS
<1> HIDE DEF g
<1>3. SumFunctionOnSet(g, S) <= SumFunctionOnSet(f, S)
  BY <1>2, SumMonotone
<1>4. SumFunctionOnSet(g, S) = SumFunctionOnSet(g, T)
  BY <1>2, SumZeros
<1>5. SumFunctionOnSet(g, T) = SumFunctionOnSet(f, T)
  BY <1>1, <1>2, SumEqual
<1>6. SumFunctionOnSet(f, T) \in Int /\ SumFunctionOnSet(f, S) \in Int
  BY <1>1, <1>2, SumChosen
<1> QED
  BY <1>1, <1>3, <1>4, <1>5, <1>6, FS_CardinalityType

\* The approved part of the bookings, when there is one more of them.
LEMMA OneMoreAgreed ==
  ASSUME NEW k, NEW l, NEW key, NEW b, OneMore(k, l, key, b)
  PROVE  /\ \A s : /\ AgreedWith(k, s) \in SUBSET OfStrategy(k, s)
                   /\ AgreedWith(l, s) = IF key[2] = "approved" /\ s = b.strategy
                                           THEN AgreedWith(k, s) \cup {key}
                                           ELSE AgreedWith(k, s)
         /\ \A a : /\ AgreedFor(k, a) \in SUBSET OfAccount(k, a)
                   /\ AgreedFor(l, a) = IF key[2] = "approved" /\ a = b.account
                                          THEN AgreedFor(k, a) \cup {key}
                                          ELSE AgreedFor(k, a)
         /\ \A s : OfStrategy(k, s) \in SUBSET DOMAIN k
         /\ \A a : OfAccount(k, a) \in SUBSET DOMAIN k
  BY DEF OneMore, Agreed, AgreedWith, AgreedFor, OfStrategy, OfAccount

\* What is restored adds to nobody's approved bookings.
LEMMA RestoredKeepsCaps ==
  ASSUME NEW k, NEW l, NEW key, NEW b, OneMore(k, l, key, b), key[2] = "restored", Capped(k)
  PROVE  Capped(l)
<1>1. /\ \A s : AgreedWith(l, s) = AgreedWith(k, s) /\ AgreedWith(k, s) \in SUBSET DOMAIN k
      /\ \A a : AgreedFor(l, a) = AgreedFor(k, a) /\ AgreedFor(k, a) \in SUBSET DOMAIN k
  BY OneMoreAgreed
<1>2. \A S \in SUBSET DOMAIN k :
        /\ SumFunctionOnSet(Notionals(k), S) \in Int
        /\ SumFunctionOnSet(Notionals(l), S) = SumFunctionOnSet(Notionals(k), S)
        /\ SumFunctionOnSet(Notionals(l), S \cup {key})
             = SumFunctionOnSet(Notionals(k), S) + b.notional
        /\ Cardinality(S) \in Nat /\ Cardinality(S \cup {key}) = Cardinality(S) + 1
  <2>1. OneMore(k, l, key, b)
    OBVIOUS
  <2> QED
    BY ONLY <2>1, OneMoreHolds
<1> QED
  BY <1>1, <1>2 DEF Capped

\* A release only takes away.
LEMMA ReleaseKeepsCaps ==
  ASSUME NEW k, NEW l, NEW key, NEW b, OneMore(k, l, key, b), Capped(l)
  PROVE  Capped(k)
<1>1. \A S \in SUBSET DOMAIN k :
        /\ SumFunctionOnSet(Notionals(k), S) \in Int
        /\ SumFunctionOnSet(Notionals(l), S) = SumFunctionOnSet(Notionals(k), S)
        /\ SumFunctionOnSet(Notionals(l), S \cup {key})
             = SumFunctionOnSet(Notionals(k), S) + b.notional
        /\ Cardinality(S) \in Nat /\ Cardinality(S \cup {key}) = Cardinality(S) + 1
  <2>1. OneMore(k, l, key, b)
    OBVIOUS
  <2> QED
    BY ONLY <2>1, OneMoreHolds
<1>2. /\ b.notional \in Nat
      /\ Limits.max_strategy_notional \in Nat \cup {NoLimit}
      /\ Limits.max_account_notional \in Nat \cup {NoLimit}
      /\ Limits.max_active_orders \in Nat \cup {NoLimit}
  BY RiskAssumption DEF OneMore, Bookings
<1>3. ASSUME NEW T, NEW S \in SUBSET DOMAIN k, T = S \/ T = S \cup {key},
             NEW limit \in Nat \cup {NoLimit}
      PROVE  /\ Within(SumFunctionOnSet(Notionals(l), T), limit)
                  => Within(SumFunctionOnSet(Notionals(k), S), limit)
             /\ Within(Cardinality(T), limit) => Within(Cardinality(S), limit)
  <2>1. /\ SumFunctionOnSet(Notionals(k), S) \in Int /\ Cardinality(S) \in Nat
        /\ \/ /\ SumFunctionOnSet(Notionals(l), T) = SumFunctionOnSet(Notionals(k), S)
              /\ Cardinality(T) = Cardinality(S)
           \/ /\ SumFunctionOnSet(Notionals(l), T)
                   = SumFunctionOnSet(Notionals(k), S) + b.notional
              /\ Cardinality(T) = Cardinality(S) + 1
    BY <1>1, <1>3
  <2> QED
    BY <1>2, <2>1 DEF Within, NoLimit
<1>4. /\ \A s : /\ AgreedWith(k, s) \in SUBSET DOMAIN k
                /\ \/ AgreedWith(l, s) = AgreedWith(k, s)
                   \/ AgreedWith(l, s) = AgreedWith(k, s) \cup {key}
      /\ \A a : /\ AgreedFor(k, a) \in SUBSET DOMAIN k
                /\ \/ AgreedFor(l, a) = AgreedFor(k, a)
                   \/ AgreedFor(l, a) = AgreedFor(k, a) \cup {key}
  BY OneMoreAgreed
<1>5. ASSUME NEW s \in Strategies
      PROVE  /\ Within(SumFunctionOnSet(Notionals(k), AgreedWith(k, s)),
                       Limits.max_strategy_notional)
             /\ Within(Cardinality(AgreedWith(k, s)), Limits.max_active_orders)
  BY <1>2, <1>3, <1>4 DEF Capped
<1>6. ASSUME NEW a \in Accounts
      PROVE  Within(SumFunctionOnSet(Notionals(k), AgreedFor(k, a)),
                    Limits.max_account_notional)
  BY <1>2, <1>3, <1>4 DEF Capped
<1> QED
  BY <1>5, <1>6 DEF Capped

\* An approval is checked with all that is booked, so with what was approved.
LEMMA ApprovalKeepsCaps ==
  ASSUME NEW r \in RiskStates, NEW k, NEW l, NEW key, NEW b, OneMore(k, l, key, b),
         Exact(r, k), Capped(k),
         Within(r.by_strategy[b.strategy] + b.notional, Limits.max_strategy_notional),
         Within(r.by_account[b.account] + b.notional, Limits.max_account_notional),
         \/ Limits.max_active_orders = NoLimit
         \/ r.active[b.strategy] < Limits.max_active_orders
  PROVE  Capped(l)
<1> DEFINE f == Notionals(k)
           g == Notionals(l)
<1>1. \A S \in SUBSET DOMAIN k :
        /\ SumFunctionOnSet(f, S) \in Int
        /\ SumFunctionOnSet(g, S) = SumFunctionOnSet(f, S)
        /\ SumFunctionOnSet(g, S \cup {key}) = SumFunctionOnSet(f, S) + b.notional
        /\ Cardinality(S) \in Nat /\ Cardinality(S \cup {key}) = Cardinality(S) + 1
  BY OneMoreHolds
<1>2. /\ b.notional \in Nat /\ b.strategy \in Strategies /\ b.account \in Accounts
      /\ Limits.max_strategy_notional \in Nat \cup {NoLimit}
      /\ Limits.max_account_notional \in Nat \cup {NoLimit}
      /\ Limits.max_active_orders \in Nat \cup {NoLimit}
  BY RiskAssumption DEF OneMore, Bookings
<1>3. \A S \in SUBSET DOMAIN k : \A T \in SUBSET S :
        /\ SumFunctionOnSet(f, T) <= SumFunctionOnSet(f, S)
        /\ Cardinality(T) <= Cardinality(S)
  <2>1. \A x \in DOMAIN k : f[x] \in Nat
    BY DEF OneMore, Notionals, Bookings
  <2>2. \A S \in SUBSET DOMAIN k : IsFiniteSet(S)
    BY FS_Subset DEF OneMore
  <2> HIDE DEF f
  <2> QED
    BY <2>1, <2>2, PartOfSum
<1> HIDE DEF f, g
<1>4. ASSUME NEW s \in Strategies
      PROVE  /\ Within(SumFunctionOnSet(g, AgreedWith(l, s)), Limits.max_strategy_notional)
             /\ Within(Cardinality(AgreedWith(l, s)), Limits.max_active_orders)
  <2>1. /\ AgreedWith(k, s) \in SUBSET OfStrategy(k, s) /\ OfStrategy(k, s) \in SUBSET DOMAIN k
        /\ \/ AgreedWith(l, s) = AgreedWith(k, s)
           \/ s = b.strategy /\ AgreedWith(l, s) = AgreedWith(k, s) \cup {key}
    BY OneMoreAgreed
  <2>2. CASE AgreedWith(l, s) = AgreedWith(k, s)
    BY <1>1, <2>1, <2>2 DEF Capped, f
  <2>3. CASE s = b.strategy /\ AgreedWith(l, s) = AgreedWith(k, s) \cup {key}
    <3>1. /\ SumFunctionOnSet(g, AgreedWith(l, s))
               = SumFunctionOnSet(f, AgreedWith(k, s)) + b.notional
          /\ Cardinality(AgreedWith(l, s)) = Cardinality(AgreedWith(k, s)) + 1
          /\ SumFunctionOnSet(f, AgreedWith(k, s)) \in Int
          /\ SumFunctionOnSet(f, OfStrategy(k, s)) \in Int
          /\ Cardinality(AgreedWith(k, s)) \in Nat /\ Cardinality(OfStrategy(k, s)) \in Nat
      BY <1>1, <2>1, <2>3
    <3>2. /\ SumFunctionOnSet(f, AgreedWith(k, s)) <= SumFunctionOnSet(f, OfStrategy(k, s))
          /\ Cardinality(AgreedWith(k, s)) <= Cardinality(OfStrategy(k, s))
      BY <1>3, <2>1
    <3>3. /\ r.by_strategy[s] = SumFunctionOnSet(f, OfStrategy(k, s))
          /\ r.active[s] = Cardinality(OfStrategy(k, s))
      BY DEF Exact, f
    <3> QED
      BY <1>2, <2>3, <3>1, <3>2, <3>3 DEF Within, NoLimit
  <2> QED
    BY <2>1, <2>2, <2>3
<1>5. ASSUME NEW a \in Accounts
      PROVE  Within(SumFunctionOnSet(g, AgreedFor(l, a)), Limits.max_account_notional)
  <2>1. /\ AgreedFor(k, a) \in SUBSET OfAccount(k, a) /\ OfAccount(k, a) \in SUBSET DOMAIN k
        /\ \/ AgreedFor(l, a) = AgreedFor(k, a)
           \/ a = b.account /\ AgreedFor(l, a) = AgreedFor(k, a) \cup {key}
    BY OneMoreAgreed
  <2>2. CASE AgreedFor(l, a) = AgreedFor(k, a)
    BY <1>1, <2>1, <2>2 DEF Capped, f
  <2>3. CASE a = b.account /\ AgreedFor(l, a) = AgreedFor(k, a) \cup {key}
    <3>1. /\ SumFunctionOnSet(g, AgreedFor(l, a))
               = SumFunctionOnSet(f, AgreedFor(k, a)) + b.notional
          /\ SumFunctionOnSet(f, AgreedFor(k, a)) \in Int
          /\ SumFunctionOnSet(f, OfAccount(k, a)) \in Int
      BY <1>1, <2>1, <2>3
    <3>2. SumFunctionOnSet(f, AgreedFor(k, a)) <= SumFunctionOnSet(f, OfAccount(k, a))
      BY <1>3, <2>1
    <3>3. r.by_account[a] = SumFunctionOnSet(f, OfAccount(k, a))
      BY DEF Exact, f
    <3> QED
      BY <1>2, <2>3, <3>1, <3>2, <3>3 DEF Within, NoLimit
  <2> QED
    BY <2>1, <2>2, <2>3
<1> QED
  BY <1>4, <1>5 DEF Capped, g

\* Whatever the calls and their order, what is approved of a strategy or an account
\* and not yet released stays under its caps, in notional and in number, however
\* much a restore books besides, before, between or after the approvals.
THEOREM CapsAlwaysHold == Spec => []CapsHold
<1>1. Capped(live) => CapsHold
  BY DEF CapsHold, Capped, BookedTo, Approved, Agreed, AgreedWith, AgreedFor, Notionals
<1>2. Init => Capped(live)
  <2> SUFFICES ASSUME Init
               PROVE  Capped(live)
    OBVIOUS
  <2>1. \A x : AgreedWith(live, x) = {} /\ AgreedFor(live, x) = {}
    BY DEF Init, Agreed, AgreedWith, AgreedFor
  <2>2. SumFunctionOnSet(Notionals(live), {}) = 0 /\ Cardinality({}) = 0
    BY FS_EmptySet, SumChosen
  <2> QED
    BY <2>1, <2>2, RiskAssumption DEF Capped, Within, NoLimit
<1>3. ASSUME TypeOK, Exact(risk, live), Capped(live), [Next]_vars
      PROVE  Capped(live')
  <2>1. /\ risk \in RiskStates /\ live \in [DOMAIN live -> Bookings]
        /\ IsFiniteSet(DOMAIN live)
    BY <1>3 DEF TypeOK, Exact
  <2>2. ASSUME NEW key, key \notin DOMAIN live, NEW b \in Bookings, live' = LiveWith(key, b)
        PROVE  OneMore(live, live', key, b)
    BY <2>1, <2>2 DEF OneMore, LiveWith
  <2>3. ASSUME NEW id \in OrderIds, NEW b \in RestoredBookings,
               NoteOrderRestored(id, b)
        PROVE  Capped(live')
    <3>1. PICK key : key = << id, "restored" >>
      OBVIOUS
    <3>2. b \in Bookings /\ key \notin DOMAIN live /\ live' = LiveWith(key, b)
      BY <2>3, <3>1, RiskEngineAssumption DEF NoteOrderRestored
    <3> QED
      BY <1>3, <2>2, <3>1, <3>2, RestoredKeepsCaps
  <2>4. ASSUME NEW id \in OrderIds, NEW i \in Intents, NEW m \in MarketFacts,
               Approve(id, i, m)
        PROVE  Capped(live')
    <3>1. PICK b : b = [ strategy |-> i.strategy, account |-> i.account,
                         notional |-> Notional(i, m) ]
      OBVIOUS
    <3>2. b \in Bookings
      BY <3>1, RiskEngineAssumption, NotionalType DEF Bookings
    <3>3. PICK key : key = << id, "approved" >>
      OBVIOUS
    <3>4. key \notin DOMAIN live /\ live' = LiveWith(key, b)
      BY <2>4, <3>1, <3>3 DEF Approve
    <3>5. CapsAllow(risk, i, m) /\ ActiveOrdersAllow(risk, i)
      BY <2>4 DEF Approve, Approves, BeforeRateCheck
    <3>6. OneMore(live, live', key, b)
      BY <2>2, <3>2, <3>4
    <3>7. /\ Within(risk.by_strategy[b.strategy] + b.notional, Limits.max_strategy_notional)
          /\ Within(risk.by_account[b.account] + b.notional, Limits.max_account_notional)
          /\ \/ Limits.max_active_orders = NoLimit
             \/ risk.active[b.strategy] < Limits.max_active_orders
      BY <3>1, <3>5 DEF CapsAllow, ActiveOrdersAllow
    <3> QED
      BY <1>3, <2>1, <3>6, <3>7, ApprovalKeepsCaps
  <2>5. ASSUME NEW key \in Keys, NoteOrderTerminal(key)
        PROVE  Capped(live')
    <3>1. key \in DOMAIN live /\ live' = Restrict(live, DOMAIN live \ {key})
      BY <2>5 DEF NoteOrderTerminal
    <3>2. IsFiniteSet(DOMAIN live \ {key}) /\ DOMAIN live' = DOMAIN live \ {key}
      BY <2>1, <3>1, FS_RemoveElement DEF Restrict
    <3>3. OneMore(live', live, key, live[key])
      BY <2>1, <3>1, <3>2 DEF OneMore, Restrict
    <3> QED
      BY <1>3, <3>3, ReleaseKeepsCaps
  <2>6. ASSUME live' = live
        PROVE  Capped(live')
    BY <1>3, <2>6
  <2>7. ASSUME \/ EndBoot \/ Elapse \/ EngageKillSwitch \/ ReleaseKillSwitch
               \/ (\E i \in Intents, m \in MarketFacts : Reject(i, m))
               \/ (\E f \in LossFacts : UpdatePnlFacts(f))
               \/ (\E c \in BOOLEAN : SetFeedsConnected(c))
               \/ UNCHANGED vars
        PROVE  live' = live
    BY <2>7 DEF EndBoot, Elapse, EngageKillSwitch, ReleaseKillSwitch, Reject,
                UpdatePnlFacts, SetFeedsConnected, vars
  <2> QED
    BY <1>3, <2>3, <2>4, <2>5, <2>6, <2>7 DEF Next
<1>4. Capped(live') <=> Capped(live)'
  BY DEF Capped, Agreed, AgreedWith, AgreedFor, Notionals
<1> QED
  BY <1>1, <1>2, <1>3, <1>4, ExactHolds, TypeCorrect, PTL DEF Spec

=============================================================================
