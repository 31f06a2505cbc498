------------------------- MODULE RateLimiter_proofs -------------------------
(***************************************************************************)
(* Theorems about RateLimiter, for any number of callers, any limit and    *)
(* window, and any bounds on how wrong a call's time may be.               *)
(***************************************************************************)
EXTENDS RateLimiter, FoldTheorems, SequenceTheorems, TLAPS

(***************************************************************************)
(* The window                                                              *)
(***************************************************************************)

\* Pruning keeps an end of the queue: what it drops is older than the window,
\* and what is then in front, if anything, is not.
LEMMA PrunedDropsOld ==
  ASSUME NEW times \in Seq(Int), NEW t \in Int
  PROVE  \E d \in 0..Len(times) :
           /\ Pruned(times, t) \in Seq(Int)
           /\ Len(Pruned(times, t)) = Len(times) - d
           /\ \A n \in 1..(Len(times) - d) : Pruned(times, t)[n] = times[d + n]
           /\ \A n \in 1..d : times[n] < t - Window
           /\ d < Len(times) => times[d + 1] >= t - Window
<1> DEFINE recent == { n \in DOMAIN times : times[n] >= t - Window }
<1>0. /\ Len(times) \in Nat /\ DOMAIN times = 1..Len(times)
      /\ \A n \in 1..Len(times) : times[n] \in Int
      /\ Window \in Nat
  BY LenProperties, ElementOfSeq, LimiterAssumption
<1>1. CASE recent = {}
  <2>1. Pruned(times, t) = << >>
    BY <1>1 DEF Pruned
  <2>2. \A n \in 1..Len(times) : times[n] < t - Window
    BY <1>0, <1>1
  <2>3. Len(<< >>) = 0 /\ << >> \in Seq(Int)
    BY EmptySeq
  <2> WITNESS Len(times) \in 0..Len(times)
  <2> QED
    BY <1>0, <2>1, <2>2, <2>3
<1>2. CASE recent # {}
  <2> DEFINE first == CHOOSE n \in recent : \A k \in recent : n <= k
  <2>1. first \in recent /\ \A k \in recent : first <= k
    <3>1. recent \in SUBSET Nat
      BY <1>0
    <3> QED
      BY <3>1, <1>2, LeastElement
  <2>2. Pruned(times, t) = SubSeq(times, first, Len(times))
    BY <1>2 DEF Pruned
  <2>3. first \in 1..Len(times) /\ times[first] >= t - Window
    BY <2>1, <1>0
  <2>4. \A n \in 1..(first - 1) : times[n] < t - Window
    <3> HIDE DEF first
    <3>1. ASSUME NEW n \in 1..(first - 1)
          PROVE  times[n] < t - Window
      <4>1. n \in 1..Len(times) /\ ~ (first <= n)
        BY <1>0, <2>3
      <4>2. n \notin recent
        BY <2>1, <4>1
      <4> QED
        BY <1>0, <4>1, <4>2
    <3> QED
      BY <3>1
  <2> HIDE DEF first
  <2>5. PICK d \in 0..Len(times) : first = d + 1
    <3>1. first - 1 \in 0..Len(times) /\ first = (first - 1) + 1
      BY <1>0, <2>3
    <3> QED
      BY <3>1
  <2>6. /\ SubSeq(times, first, Len(times)) \in Seq(Int)
        /\ Len(SubSeq(times, first, Len(times))) = Len(times) - first + 1
    <3>1. \A n \in first..Len(times) : times[n] \in Int
      BY <1>0, <2>3
    <3> QED
      BY <1>0, <2>3, <3>1, SubSeqProperties
  <2>7. Len(Pruned(times, t)) = Len(times) - d
    <3>1. Len(Pruned(times, t)) = Len(times) - (d + 1) + 1
      BY <2>2, <2>5, <2>6
    <3> QED
      BY <1>0, <3>1
  <2>8. \A n \in 1..(Len(times) - d) : Pruned(times, t)[n] = times[d + n]
    BY <1>0, <2>2, <2>5
  <2>9. \A n \in 1..d : times[n] < t - Window
    BY <2>4, <2>5
  <2> QED
    BY <2>2, <2>3, <2>5, <2>6, <2>7, <2>8, <2>9
<1> QED
  BY <1>1, <1>2

(***************************************************************************)
(* Type correctness                                                        *)
(***************************************************************************)

\* The queue never grows past the limit, and every other variable keeps its
\* type.
THEOREM LimiterTypeCorrect == Spec => []TypeOK
<1>1. Init => TypeOK
  BY EmptySeq, LimiterAssumption DEF Init, TypeOK
<1>2. ASSUME TypeOK, [Next]_vars
      PROVE  TypeOK'
  <2>0. /\ Limit \in Nat /\ Window \in Nat /\ Late \in Nat /\ Early \in Nat
        /\ MaxTime \in Nat /\ now \in Nat /\ Len(hits) \in Nat
    BY <1>2, LimiterAssumption, LenProperties DEF TypeOK
  <2>1. ASSUME NEW c \in Callers, ReadClock(c)
        PROVE  TypeOK'
    <3>1. PICK t \in (now - Late)..(now + Early) : stamp' = [stamp EXCEPT ![c] = t]
      BY <2>1 DEF ReadClock
    <3>2. t \in Int
      BY <2>0, <3>1
    <3> QED
      BY <1>2, <2>1, <3>1, <3>2 DEF TypeOK, ReadClock
  <2>2. ASSUME NEW c \in Callers, pc[c] = "waiting",
               pc' = [pc EXCEPT ![c] = "idle"]
        PROVE  /\ pc' \in [Callers -> {"idle", "waiting"}]
               /\ stamp[c] \in Int
               /\ Pruned(hits, stamp[c]) \in Seq(Int)
               /\ Len(Pruned(hits, stamp[c])) \in Nat
               /\ Len(Pruned(hits, stamp[c])) <= Limit
    <3>1. pc' \in [Callers -> {"idle", "waiting"}] /\ stamp[c] \in Int
      BY <1>2, <2>2 DEF TypeOK
    <3>2. PICK d \in 0..Len(hits) :
            /\ Pruned(hits, stamp[c]) \in Seq(Int)
            /\ Len(Pruned(hits, stamp[c])) = Len(hits) - d
      BY <1>2, <3>1, PrunedDropsOld DEF TypeOK
    <3>3. Len(hits) <= Limit
      BY <1>2 DEF TypeOK
    <3> QED
      BY <2>0, <3>1, <3>2, <3>3
  <2>3. ASSUME NEW c \in Callers, Grant(c)
        PROVE  TypeOK'
    <3> DEFINE fresh == Pruned(hits, stamp[c])
    <3>1. /\ pc' \in [Callers -> {"idle", "waiting"}]
          /\ stamp[c] \in Int /\ fresh \in Seq(Int) /\ Len(fresh) \in Nat
      BY <2>2, <2>3 DEF Grant
    <3>2. hits' = Append(fresh, stamp[c]) /\ Len(fresh) < Limit
      BY <2>3 DEF Grant, HasRoom
    <3>3. hits' \in Seq(Int) /\ Len(hits') <= Limit
      <4> HIDE DEF fresh
      <4> QED
        BY <2>0, <3>1, <3>2, AppendProperties
    <3>4. granted' \in Seq([stamp : Int, at : 0..MaxTime])
      BY <1>2, <2>3, <3>1, AppendProperties DEF Grant, TypeOK
    <3> QED
      BY <1>2, <2>3, <3>1, <3>3, <3>4 DEF Grant, TypeOK
  <2>4. ASSUME NEW c \in Callers, Refuse(c)
        PROVE  TypeOK'
    BY <1>2, <2>2, <2>4 DEF Refuse, TypeOK
  <2>5. CASE Elapse
    <3>1. now' \in 0..MaxTime
      BY <2>0, <2>5 DEF Elapse
    <3> QED
      BY <1>2, <2>5, <3>1 DEF Elapse, TypeOK
  <2>6. CASE UNCHANGED vars
    BY <1>2, <2>6 DEF vars, TypeOK
  <2> QED
    BY <1>2, <2>1, <2>3, <2>4, <2>5, <2>6 DEF Next
<1> QED
  BY <1>1, <1>2, PTL DEF Spec

(***************************************************************************)
(* The bound on grants, and on refusals                                    *)
(***************************************************************************)

\* What the queue still says of the history of grants at time t: it is an end of
\* it, and everything in front of that end is older than the window for any
\* call that may come.
WindowKept(queue, history, t) ==
  LET dropped == Len(history) - Len(queue)
  IN /\ dropped \in Nat
     /\ \A n \in 1..Len(queue) : queue[n] = history[dropped + n].stamp
     /\ \A n \in 1..dropped : history[n].stamp < t + Early - Window

\* Every time is as wrong as Late and Early say, at most, and grants are in the
\* order of the true time.
TimesKept(history, t) ==
  /\ \A n \in 1..Len(history) :
       /\ history[n].at - Late <= history[n].stamp
       /\ history[n].stamp <= history[n].at + Early
       /\ history[n].at <= t
  /\ \A n, k \in 1..Len(history) : n <= k => history[n].at <= history[k].at

CallsKept ==
  \A c \in Callers :
    pc[c] = "waiting" => now - Late <= stamp[c] /\ stamp[c] <= now + Early

Histories == Seq([stamp : Int, at : Nat])

\* A call with time s at t prunes what is older than the window for every call.
LEMMA PruningKeepsWindow ==
  ASSUME NEW queue \in Seq(Int), NEW history \in Histories,
         NEW t \in Nat, NEW s \in Int, s <= t + Early,
         WindowKept(queue, history, t)
  PROVE  WindowKept(Pruned(queue, s), history, t)
<1> DEFINE dropped == Len(history) - Len(queue)
<1>1. PICK d \in 0..Len(queue) :
        /\ Len(Pruned(queue, s)) = Len(queue) - d
        /\ \A n \in 1..(Len(queue) - d) : Pruned(queue, s)[n] = queue[d + n]
        /\ \A n \in 1..d : queue[n] < s - Window
  BY PrunedDropsOld
<1>2. /\ Len(queue) \in Nat /\ Len(history) \in Nat /\ dropped \in Nat
      /\ Early \in Nat /\ Window \in Nat
  BY LenProperties, LimiterAssumption DEF WindowKept, Histories
<1>3. \A n \in 1..Len(queue) : queue[n] = history[dropped + n].stamp
  BY DEF WindowKept
<1>4. Len(history) - Len(Pruned(queue, s)) = dropped + d
  BY <1>1, <1>2
<1>5. \A n \in 1..Len(Pruned(queue, s)) :
        Pruned(queue, s)[n] = history[dropped + d + n].stamp
  BY <1>1, <1>2, <1>3
<1>6. ASSUME NEW n \in 1..(dropped + d)
      PROVE  history[n].stamp < t + Early - Window
  <2>1. CASE n <= dropped
    BY <1>2, <1>6, <2>1 DEF WindowKept
  <2>2. CASE n > dropped
    <3>1. n - dropped \in 1..d /\ n - dropped \in 1..Len(queue)
      BY <1>1, <1>2, <2>2
    <3>2. queue[n - dropped] = history[n].stamp
      BY <1>2, <1>3, <3>1
    <3>3. queue[n - dropped] < s - Window /\ queue[n - dropped] \in Int
      BY <1>1, <3>1, ElementOfSeq
    <3> QED
      BY <1>2, <3>2, <3>3
  <2> QED
    BY <1>2, <2>1, <2>2
<1> QED
  BY <1>1, <1>2, <1>4, <1>5, <1>6 DEF WindowKept

\* A grant goes to the end of both.
LEMMA GrantKeepsWindow ==
  ASSUME NEW queue \in Seq(Int), NEW history \in Histories,
         NEW t \in Nat, NEW s \in Int,
         WindowKept(queue, history, t)
  PROVE  WindowKept(Append(queue, s), Append(history, [stamp |-> s, at |-> t]), t)
<1> DEFINE dropped == Len(history) - Len(queue)
           entry   == [stamp |-> s, at |-> t]
           longer  == Append(history, entry)
<1>1. /\ Len(queue) \in Nat /\ Len(history) \in Nat /\ dropped \in Nat
      /\ Len(Append(queue, s)) = Len(queue) + 1
      /\ Len(longer) = Len(history) + 1
  BY LenProperties, AppendProperties DEF WindowKept, Histories
<1>2. /\ \A n \in 1..Len(queue) : Append(queue, s)[n] = queue[n]
      /\ Append(queue, s)[Len(queue) + 1] = s
      /\ \A n \in 1..Len(history) : longer[n] = history[n]
      /\ longer[Len(history) + 1] = entry
  BY AppendProperties DEF Histories
<1> HIDE DEF longer
<1>3. Len(longer) - Len(Append(queue, s)) = dropped
  BY <1>1
<1>4. ASSUME NEW n \in 1..(Len(queue) + 1)
      PROVE  Append(queue, s)[n] = longer[dropped + n].stamp
  <2>1. CASE n \in 1..Len(queue)
    <3>1. dropped + n \in 1..Len(history)
      BY <1>1, <2>1
    <3> QED
      BY <1>2, <2>1, <3>1 DEF WindowKept
  <2>2. CASE n = Len(queue) + 1
    BY <1>1, <1>2, <2>2
  <2> QED
    BY <1>1, <2>1, <2>2
<1>5. ASSUME NEW n \in 1..dropped
      PROVE  longer[n].stamp < t + Early - Window
  <2>1. history[n].stamp < t + Early - Window
    BY <1>5 DEF WindowKept
  <2>2. n \in 1..Len(history)
    BY <1>1, <1>5
  <2> QED
    BY <1>2, <2>1, <2>2
<1>6. WindowKept(Append(queue, s), longer, t)
  BY <1>1, <1>3, <1>4, <1>5 DEF WindowKept
<1> QED
  BY <1>6 DEF longer

\* The inductive invariant.
Kept ==
  /\ WindowKept(hits, granted, now)
  /\ TimesKept(granted, now)
  /\ CallsKept

\* The types in the form the lemmas take them.
LEMMA Types ==
  ASSUME TypeOK
  PROVE  /\ now \in Nat /\ hits \in Seq(Int) /\ granted \in Histories
         /\ Len(hits) \in Nat /\ Len(granted) \in Nat
         /\ stamp \in [Callers -> Int]
         /\ \A n \in 1..Len(granted) : granted[n].stamp \in Int /\ granted[n].at \in Nat
         /\ Limit \in Nat /\ Window \in Nat /\ Late \in Nat /\ Early \in Nat
<1>1. [stamp : Int, at : 0..MaxTime] \subseteq [stamp : Int, at : Nat]
  OBVIOUS
<1>2. granted \in Histories
  <2> DEFINE short == [stamp : Int, at : 0..MaxTime]
             long  == [stamp : Int, at : Nat]
  <2>1. granted \in Seq(short) /\ short \subseteq long
    BY <1>1 DEF TypeOK
  <2> HIDE DEF short, long
  <2>2. granted \in Seq(long)
    BY <2>1, SeqMonotonic
  <2> QED
    BY <2>2 DEF long, Histories
<1>3. \A n \in 1..Len(granted) : granted[n] \in [stamp : Int, at : Nat]
  BY <1>2, ElementOfSeq DEF Histories
<1> QED
  BY <1>2, <1>3, LenProperties, LimiterAssumption DEF TypeOK, Histories

\* A call that gets in works with a time that is not too wrong, on a queue that
\* still says of the history what the window needs.
LEMMA CallSeesWindow ==
  ASSUME TypeOK, Kept, NEW c \in Callers, pc[c] = "waiting"
  PROVE  /\ stamp[c] \in Int
         /\ now - Late <= stamp[c] /\ stamp[c] <= now + Early
         /\ Pruned(hits, stamp[c]) \in Seq(Int)
         /\ WindowKept(Pruned(hits, stamp[c]), granted, now)
<1>1. /\ stamp[c] \in Int
      /\ now - Late <= stamp[c] /\ stamp[c] <= now + Early
  BY Types DEF Kept, CallsKept
<1> QED
  BY <1>1, Types, PruningKeepsWindow, PrunedDropsOld DEF Kept

\* A step that leaves time, queue and history alone needs to look at calls only.
LEMMA KeptInv == Spec => []Kept
<1>1. Init => Kept
  BY LimiterAssumption DEF Init, Kept, WindowKept, TimesKept, CallsKept
<1>2. ASSUME TypeOK, Kept, [Next]_vars
      PROVE  Kept'
  <2>0. /\ now \in Nat /\ hits \in Seq(Int) /\ granted \in Histories
        /\ Len(granted) \in Nat /\ Len(hits) \in Nat /\ Late \in Nat /\ Early \in Nat
        /\ \A n \in 1..Len(granted) :
             granted[n].stamp \in Int /\ granted[n].at \in Nat
    BY <1>2, Types
  <2>1. ASSUME NEW c \in Callers, pc' = [pc EXCEPT ![c] = "idle"], UNCHANGED << now, stamp >>
        PROVE  CallsKept'
    BY <1>2, <2>1 DEF TypeOK, Kept, CallsKept
  <2>2. ASSUME NEW c \in Callers, ReadClock(c)
        PROVE  Kept'
    <3>1. PICK t \in (now - Late)..(now + Early) : stamp' = [stamp EXCEPT ![c] = t]
      BY <2>2 DEF ReadClock
    <3>2. now - Late <= t /\ t <= now + Early
      BY <2>0, <3>1
    <3>3. CallsKept'
      BY <1>2, <2>2, <3>1, <3>2 DEF ReadClock, TypeOK, Kept, CallsKept
    <3>4. WindowKept(hits, granted, now)' /\ TimesKept(granted, now)'
      BY <1>2, <2>2 DEF ReadClock, Kept, WindowKept, TimesKept
    <3> QED
      BY <3>3, <3>4 DEF Kept
  <2>3. ASSUME NEW c \in Callers, Grant(c)
        PROVE  Kept'
    <3> DEFINE entry == [stamp |-> stamp[c], at |-> now]
    <3>1. /\ stamp[c] \in Int
          /\ now - Late <= stamp[c] /\ stamp[c] <= now + Early
          /\ Pruned(hits, stamp[c]) \in Seq(Int)
          /\ WindowKept(Pruned(hits, stamp[c]), granted, now)
      BY <1>2, <2>3, CallSeesWindow DEF Grant
    <3>2. /\ hits' = Append(Pruned(hits, stamp[c]), stamp[c])
          /\ granted' = Append(granted, entry) /\ now' = now
      BY <2>3 DEF Grant
    <3>3. WindowKept(hits', granted', now')
      BY <2>0, <3>1, <3>2, GrantKeepsWindow
    <3>4. /\ Len(granted') = Len(granted) + 1
          /\ \A n \in 1..Len(granted) : granted'[n] = granted[n]
          /\ granted'[Len(granted) + 1].stamp = stamp[c]
          /\ granted'[Len(granted) + 1].at = now
      BY <2>0, <3>2, AppendProperties DEF Histories
    <3>5. TimesKept(granted', now')
      <4> DEFINE last == Len(granted) + 1
      <4>1. TimesKept(granted, now)
        BY <1>2 DEF Kept
      <4>2. Len(granted') = last /\ Len(granted) \in Nat /\ now' = now
        BY <2>0, <3>2, <3>4
      <4>3. \A n \in 1..Len(granted) : granted[n].at \in Nat /\ granted[n].stamp \in Int
        BY <2>0
      <4>4. ASSUME NEW n \in 1..last
            PROVE  /\ granted'[n].at - Late <= granted'[n].stamp
                   /\ granted'[n].stamp <= granted'[n].at + Early
                   /\ granted'[n].at <= now
        <5>1. CASE n \in 1..Len(granted)
          BY <3>4, <4>1, <5>1 DEF TimesKept
        <5>2. CASE n = last
          BY <2>0, <3>1, <3>4, <5>2
        <5> QED
          BY <4>2, <5>1, <5>2
      <4>5. ASSUME NEW n \in 1..last, NEW k \in 1..last, n <= k
            PROVE  granted'[n].at <= granted'[k].at
        <5>1. CASE k \in 1..Len(granted)
          <6>1. n \in 1..Len(granted)
            BY <4>2, <4>5, <5>1
          <6> QED
            BY <3>4, <4>1, <4>5, <5>1, <6>1 DEF TimesKept
        <5>2. CASE k = last
          BY <3>4, <4>4, <5>2
        <5> QED
          BY <4>2, <5>1, <5>2
      <4> QED
        BY <4>2, <4>4, <4>5 DEF TimesKept
    <3> QED
      BY <2>1, <2>3, <3>3, <3>5 DEF Grant, Kept
  <2>4. ASSUME NEW c \in Callers, Refuse(c)
        PROVE  Kept'
    <3>1. WindowKept(Pruned(hits, stamp[c]), granted, now)
      BY <1>2, <2>4, CallSeesWindow DEF Refuse
    <3> QED
      BY <1>2, <2>1, <2>4, <3>1 DEF Refuse, Kept
  <2>5. CASE Elapse
    <3>1. now' = now + 1 /\ hits' = hits /\ granted' = granted
      BY <2>5 DEF Elapse
    <3>2. CallsKept'
      BY <1>2, <2>0, <2>5, Types DEF Elapse, TypeOK, Kept, CallsKept
    <3>3. WindowKept(hits, granted, now + 1)
      <4>1. Window \in Nat
        BY LimiterAssumption
      <4>2. \A n \in 1..(Len(granted) - Len(hits)) : n \in 1..Len(granted)
        BY <2>0
      <4> QED
        BY <1>2, <2>0, <4>1, <4>2 DEF Kept, WindowKept
    <3>4. TimesKept(granted, now + 1)
      BY <1>2, <2>0 DEF Kept, TimesKept
    <3> QED
      BY <3>1, <3>2, <3>3, <3>4 DEF Kept
  <2>6. CASE UNCHANGED vars
    BY <1>2, <2>6 DEF vars, Kept, WindowKept, TimesKept, CallsKept
  <2> QED
    BY <1>2, <2>2, <2>3, <2>4, <2>5, <2>6 DEF Next
<1> QED
  BY <1>1, <1>2, LimiterTypeCorrect, PTL DEF Spec

\* In no stretch shorter than the window, less what the times may be wrong, more
\* than Limit calls are granted.  When a call is granted, the grant that lies
\* Limit back has left the queue, and what has left it is old.
THEOREM RateAlwaysBounded == Spec => []RateBounded
<1>1. Init => RateBounded
  BY DEF Init, RateBounded
<1>2. ASSUME TypeOK, Kept, RateBounded, [Next]_vars
      PROVE  RateBounded'
  <2>1. CASE granted' = granted
    BY <1>2, <2>1 DEF RateBounded
  <2>2. ASSUME NEW c \in Callers, Grant(c)
        PROVE  RateBounded'
    <3> DEFINE queue == Pruned(hits, stamp[c])
    <3>0. /\ now \in Nat /\ Len(granted) \in Nat /\ granted \in Histories
          /\ Limit \in Nat /\ Window \in Nat /\ Late \in Nat /\ Early \in Nat
          /\ \A n \in 1..Len(granted) :
               granted[n].stamp \in Int /\ granted[n].at \in Nat
      BY <1>2, Types
    <3>1. /\ queue \in Seq(Int) /\ Len(queue) \in Nat
          /\ WindowKept(queue, granted, now) /\ Len(queue) < Limit
      BY <1>2, <2>2, CallSeesWindow, LenProperties DEF Grant, HasRoom
    <3>2. /\ Len(granted') = Len(granted) + 1
          /\ \A n \in 1..Len(granted) : granted'[n] = granted[n]
          /\ granted'[Len(granted) + 1].at = now
      BY <2>2, <3>0, AppendProperties DEF Grant, Histories
    <3> HIDE DEF queue
    <3>3. SUFFICES ASSUME NEW n \in 1..Len(granted'), NEW k \in 1..Len(granted'),
                          k = n + Limit
                   PROVE  granted'[k].at > granted'[n].at + Window - Late - Early
      BY DEF RateBounded
    <3>4. CASE k <= Len(granted)
      <4>1. n \in 1..Len(granted) /\ k \in 1..Len(granted)
        BY <3>0, <3>3, <3>4
      <4> QED
        BY <1>2, <3>2, <3>3, <4>1 DEF RateBounded
    <3>5. CASE k = Len(granted) + 1
      <4>1. n \in 1..(Len(granted) - Len(queue)) /\ n \in 1..Len(granted)
        BY <3>0, <3>1, <3>3, <3>5
      <4>2. granted[n].stamp < now + Early - Window
        BY <3>1, <4>1 DEF WindowKept
      <4>3. granted[n].at - Late <= granted[n].stamp
        BY <1>2, <4>1 DEF Kept, TimesKept
      <4>4. granted[n].at \in Nat /\ granted[n].stamp \in Int
        BY <3>0, <4>1
      <4>5. granted'[n].at = granted[n].at /\ granted'[k].at = now
        BY <3>2, <3>5, <4>1
      <4>6. now > granted[n].at + Window - Late - Early
        BY <3>0, <4>2, <4>3, <4>4
      <4> QED
        BY <4>5, <4>6
    <3> QED
      <4>1. Len(granted) \in Nat /\ Len(granted') = Len(granted) + 1
        BY <3>0, <3>2
      <4>2. k \in 1..(Len(granted) + 1)
        BY <3>3, <4>1
      <4>3. k <= Len(granted) \/ k = Len(granted) + 1
        BY <4>1, <4>2
      <4> QED
        BY <3>4, <3>5, <4>3
  <2> QED
    BY <1>2, <2>1, <2>2 DEF Next, ReadClock, Refuse, Elapse, vars
<1> QED
  BY <1>1, <1>2, LimiterTypeCorrect, KeptInv, PTL DEF Spec

\* A refused call finds the last Limit grants in the queue: what stands in front
\* of it is in the window, and the others were granted later.
THEOREM RefusalsAlwaysDue == Spec => RefusedOnlyWhenFull
<1> DEFINE Due(c) ==
      pc[c] = "waiting" /\ pc'[c] = "idle" /\ granted' = granted /\ Limit > 0 =>
        /\ Len(granted) >= Limit
        /\ granted[Len(granted) - Limit + 1].at >= now - Window - Late - Early
<1>1. ASSUME TypeOK, Kept, [Next]_vars
      PROVE  \A c \in Callers : Due(c)
  <2>1. SUFFICES ASSUME NEW c \in Callers, pc[c] = "waiting", pc'[c] = "idle",
                        granted' = granted, Limit > 0
                 PROVE  /\ Len(granted) >= Limit
                        /\ granted[Len(granted) - Limit + 1].at
                             >= now - Window - Late - Early
    OBVIOUS
  <2>0. /\ now \in Nat /\ Len(granted) \in Nat /\ Len(hits) \in Nat
        /\ hits \in Seq(Int) /\ granted \in Histories
        /\ Limit \in Nat /\ Window \in Nat /\ Late \in Nat /\ Early \in Nat
        /\ \A n \in 1..Len(granted) :
             granted[n].stamp \in Int /\ granted[n].at \in Nat
    BY <1>1, Types
  <2>2. Refuse(c)
    <3>1. ASSUME NEW x \in Callers, Grant(x)
          PROVE  FALSE
      <4>1. Len(granted') = Len(granted) + 1
        BY <2>0, <3>1, <1>1, AppendProperties, CallSeesWindow DEF Grant, Histories
      <4> QED
        BY <2>0, <2>1, <4>1
    <3>2. ASSUME NEW x \in Callers, Refuse(x)
          PROVE  x = c
      BY <1>1, <2>1, <3>2 DEF Refuse, TypeOK
    <3>3. ASSUME NEW x \in Callers, ReadClock(x)
          PROVE  FALSE
      BY <1>1, <2>1, <3>3 DEF ReadClock, TypeOK
    <3> QED
      BY <1>1, <2>1, <3>1, <3>2, <3>3 DEF Next, Elapse, vars
  <2> DEFINE queue   == Pruned(hits, stamp[c])
             dropped == Len(granted) - Len(queue)
  <2>3. /\ stamp[c] \in Int /\ now - Late <= stamp[c]
        /\ queue \in Seq(Int) /\ Len(queue) \in Nat
        /\ WindowKept(queue, granted, now)
    BY <1>1, <2>1, CallSeesWindow, LenProperties
  <2>4. Len(queue) >= Limit
    BY <2>0, <2>2, <2>3 DEF Refuse, HasRoom
  <2>5. queue[1] >= stamp[c] - Window
    <3>1. PICK d \in 0..Len(hits) :
            /\ Len(queue) = Len(hits) - d
            /\ \A n \in 1..(Len(hits) - d) : queue[n] = hits[d + n]
            /\ d < Len(hits) => hits[d + 1] >= stamp[c] - Window
      BY <2>0, <2>3, PrunedDropsOld
    <3> HIDE DEF queue
    <3>2. Len(queue) \in Nat /\ Len(queue) > 0 /\ Len(hits) \in Nat
      BY <2>0, <2>1, <2>3, <2>4
    <3>3. 1 \in 1..(Len(hits) - d) /\ d < Len(hits)
      BY <3>1, <3>2
    <3> QED
      BY <3>1, <3>3
  <2> HIDE DEF queue
  <2>6. /\ dropped \in Nat /\ dropped + 1 \in 1..Len(granted)
        /\ queue[1] = granted[dropped + 1].stamp
    BY <2>0, <2>1, <2>3, <2>4 DEF WindowKept
  <2>7. /\ Len(granted) - Limit + 1 \in 1..Len(granted)
        /\ dropped + 1 <= Len(granted) - Limit + 1
    BY <2>0, <2>1, <2>3, <2>4, <2>6
  <2>8. /\ granted[dropped + 1].stamp <= granted[dropped + 1].at + Early
        /\ granted[dropped + 1].at <= granted[Len(granted) - Limit + 1].at
    BY <1>1, <2>6, <2>7 DEF Kept, TimesKept
  <2>9. /\ granted[dropped + 1].stamp \in Int /\ granted[dropped + 1].at \in Nat
        /\ granted[Len(granted) - Limit + 1].at \in Nat
    BY <2>0, <2>6, <2>7
  <2>10. Len(granted) >= Limit
    BY <2>0, <2>7
  <2>11. granted[Len(granted) - Limit + 1].at >= now - Window - Late - Early
    <3> DEFINE oldest == granted[Len(granted) - Limit + 1].at
               front  == granted[dropped + 1]
    <3>1. /\ oldest \in Nat /\ front.stamp \in Int /\ front.at \in Nat
          /\ front.stamp <= front.at + Early /\ front.at <= oldest
          /\ front.stamp >= stamp[c] - Window
      BY <2>5, <2>6, <2>8, <2>9
    <3> HIDE DEF oldest, front
    <3>2. oldest >= now - Window - Late - Early
      BY <2>0, <2>3, <3>1
    <3> QED
      BY <3>2 DEF oldest
  <2> QED
    BY <2>10, <2>11
<1> QED
  BY <1>1, LimiterTypeCorrect, KeptInv, PTL DEF Spec, RefusedOnlyWhenFull

=============================================================================
