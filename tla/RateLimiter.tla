---------------------------- MODULE RateLimiter ----------------------------
(***************************************************************************)
(* The request limiter of crates/tux-exchange/src/ratelimit.rs: a queue of *)
(* the times at which calls were granted, behind a mutex.  A call reads    *)
(* the wall clock before it asks for the mutex, so the time it works with  *)
(* may be old when it gets in, the calls of two threads may get in in the  *)
(* opposite order of their times, and the clock itself may be off.         *)
(***************************************************************************)
EXTENDS Integers, Sequences

CONSTANTS Callers,
          Limit,     \* limit_per_minute
          Window,    \* the minute, in units of the model
          Late,      \* how far behind the true time a call's time may be
          Early,     \* how far ahead of it
          MaxTime    \* bound on the true time

ASSUME LimiterAssumption ==
  /\ Limit \in Nat /\ Window \in Nat
  /\ Late \in Nat /\ Early \in Nat
  /\ MaxTime \in Nat

VARIABLES
  now,      \* the true time
  hits,     \* RateLimiter.hits
  pc,       \* caller -> whether its call waits for the mutex
  stamp,    \* caller -> the time its call has read
  granted   \* history: every call that was granted, its time and the true one

vars == << now, hits, pc, stamp, granted >>

TypeOK ==
  /\ now \in 0..MaxTime
  /\ hits \in Seq(Int) /\ Len(hits) <= Limit
  /\ pc \in [Callers -> {"idle", "waiting"}]
  /\ stamp \in [Callers -> Int]
  /\ granted \in Seq([stamp : Int, at : 0..MaxTime])

Init ==
  /\ now = 0
  /\ hits = << >>
  /\ pc = [c \in Callers |-> "idle"]
  /\ stamp = [c \in Callers |-> 0]
  /\ granted = << >>

\* Mutations: nothing leaves the window; the edge of the window leaves it.
Pruned_Never(times, t) == times

Pruned_Exclusive(times, t) ==
  LET recent == { n \in DOMAIN times : times[n] > t - Window }
  IN IF recent = {} THEN << >>
     ELSE SubSeq(times, CHOOSE n \in recent : \A k \in recent : n <= k, Len(times))

\* Times leave the front of the queue up to the first that is in the window;
\* what stands behind it stays, in the window or not.
Pruned(times, t) ==
  LET recent == { n \in DOMAIN times : times[n] >= t - Window }
  IN IF recent = {} THEN << >>
     ELSE SubSeq(times, CHOOSE n \in recent : \A k \in recent : n <= k, Len(times))

\* Mutation: one call too many.
HasRoom_Inclusive(times) == Len(times) <= Limit

HasRoom(times) == Len(times) < Limit

\* The clock is read.
ReadClock(c) ==
  /\ pc[c] = "idle"
  /\ pc' = [pc EXCEPT ![c] = "waiting"]
  /\ \E t \in (now - Late)..(now + Early) : stamp' = [stamp EXCEPT ![c] = t]
  /\ UNCHANGED << now, hits, granted >>

\* The mutex is held: a call is granted,
Grant(c) ==
  /\ pc[c] = "waiting"
  /\ HasRoom(Pruned(hits, stamp[c]))
  /\ hits' = Append(Pruned(hits, stamp[c]), stamp[c])
  /\ granted' = Append(granted, [stamp |-> stamp[c], at |-> now])
  /\ pc' = [pc EXCEPT ![c] = "idle"]
  /\ UNCHANGED << now, stamp >>

\* or refused.
Refuse(c) ==
  /\ pc[c] = "waiting"
  /\ ~ HasRoom(Pruned(hits, stamp[c]))
  /\ hits' = Pruned(hits, stamp[c])
  /\ pc' = [pc EXCEPT ![c] = "idle"]
  /\ UNCHANGED << now, stamp, granted >>

\* Time passes, but no call waits so long that its time gets older than Late.
Elapse ==
  /\ now < MaxTime
  /\ \A c \in Callers : pc[c] = "waiting" => now + 1 - Late <= stamp[c]
  /\ now' = now + 1
  /\ UNCHANGED << hits, pc, stamp, granted >>

Next ==
  \/ \E c \in Callers : ReadClock(c) \/ Grant(c) \/ Refuse(c)
  \/ Elapse

Spec == Init /\ [][Next]_vars

-----------------------------------------------------------------------------
(* Properties *)

\* In no stretch of true time shorter than the window, less what the times may
\* be wrong, more than Limit calls are granted, however the callers interleave:
\* the queue is pruned by times that arrive out of order, and still nothing that
\* counts is forgotten.
RateBounded ==
  \A n, k \in 1..Len(granted) :
    k = n + Limit => granted[k].at > granted[n].at + Window - Late - Early

\* A call is refused only if Limit calls were granted within the window, plus
\* what the times may be wrong: times from the future, or kept out of order behind
\* a later one, hold the window full no longer than that.
RefusedOnlyWhenFull ==
  [][ \A c \in Callers :
        pc[c] = "waiting" /\ pc'[c] = "idle" /\ granted' = granted /\ Limit > 0 =>
          /\ Len(granted) >= Limit
          /\ granted[Len(granted) - Limit + 1].at >= now - Window - Late - Early ]_vars

=============================================================================
