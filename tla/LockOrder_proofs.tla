-------------------------- MODULE LockOrder_proofs --------------------------
(***************************************************************************)
(* Theorems about LockOrder, for any number of threads.                    *)
(***************************************************************************)
EXTENDS LockOrder, SequenceTheorems, TLAPS

\* An order of the mutexes in which every nested section takes them.
Rank ==
  [ oms |-> 1, risk |-> 2, market |-> 3, portfolio |-> 3, inner |-> 3,
    pending |-> 3, strategy |-> 3, store |-> 4 ]

Steps == [op : { "lock", "unlock" }, mutex : Mutexes]

(***************************************************************************)
(* Calls are sequences of sections                                         *)
(***************************************************************************)

\* A section of a call is one of Sections, whichever call it is of.
LEMMA CallSections ==
  /\ Calls \subseteq Seq(Sections)
  /\ RestoreFromStore \in Seq(Sections)
<1>1. \A m \in Mutexes : Only(m) \in Sections
  BY DEF Sections
<1>2. /\ CheckSection \in Sections /\ RefusedSection \in Sections
      /\ LedgerSection \in Sections /\ RestoreSection \in Sections
  BY DEF Sections
<1> DEFINE Scripts == Seq(Sections)
<1>3. /\ Only("market") \in Sections /\ Only("portfolio") \in Sections
      /\ Only("oms") \in Sections /\ Only("risk") \in Sections
      /\ Only("strategy") \in Sections /\ Only("inner") \in Sections
      /\ Only("pending") \in Sections /\ Only("store") \in Sections
  BY <1>1 DEF Mutexes
<1>4. ASSUME NEW a \in Scripts, NEW b \in Scripts
      PROVE  a \o b \in Scripts
  BY <1>4, ConcatProperties
<1>5. ASSUME NEW a \in Sections
      PROVE  << a >> \in Scripts
  OBVIOUS
<1>6. ASSUME NEW a \in Sections, NEW b \in Sections
      PROVE  << a, b >> \in Scripts
  OBVIOUS
<1>7. ASSUME NEW a \in Sections, NEW b \in Sections, NEW c \in Sections
      PROVE  << a, b, c >> \in Scripts
  OBVIOUS
<1>8. ASSUME NEW a \in Sections, NEW b \in Sections, NEW c \in Sections, NEW d \in Sections
      PROVE  << a, b, c, d >> \in Scripts
  OBVIOUS
<1>9. << >> \in Scripts
  OBVIOUS
<1> HIDE DEF Scripts
<1>10. Equity \in Scripts /\ SaveStrategy \in Scripts
  BY <1>3, <1>6 DEF Equity, SaveStrategy
<1>11. PersistEquity \in Scripts
  <2>1. << Only("portfolio"), Only("risk"), Only("store"), Only("store") >> \in Scripts
    BY <1>3, <1>8
  <2> QED
    BY <1>4, <1>10, <2>1 DEF PersistEquity
<1>12. ApplyFill \subseteq Scripts
  <2>1. << LedgerSection, Only("store"), Only("inner"), Only("oms") >> \in Scripts
    BY <1>2, <1>3, <1>8
  <2>2. << Only("risk") >> \in Scripts /\ << Only("store") >> \in Scripts
    BY <1>3, <1>5
  <2>3. ASSUME NEW release \in Scripts
        PROVE  << LedgerSection, Only("store"), Only("inner"), Only("oms") >> \o release
                 \o << Only("store") >> \o SaveStrategy \in Scripts
    BY <1>4, <1>10, <2>1, <2>2
  <2> QED
    BY <1>9, <2>2, <2>3 DEF ApplyFill
<1>13. DrainFills \subseteq Scripts
  <2>1. << Only("pending") >> \in Scripts
    BY <1>3, <1>5
  <2> QED
    BY <1>4, <1>12, <2>1 DEF DrainFills
<1>14. PlaceOrder \in Scripts
  <2>1. PlaceOrder = << Only("inner"), Only("inner"), Only("inner"), Only("inner") >>
                       \o << Only("pending") >>
    BY DEF PlaceOrder
  <2> QED
    BY <1>3, <1>4, <1>5, <1>8, <2>1
<1>15. CheckIntent \in Scripts
  BY <1>2, <1>3, <1>4, <1>5, <1>10 DEF CheckIntent
<1>16. ExecuteIntent \subseteq Scripts
  <2>1. CheckIntent \o << RefusedSection >> \in Scripts
    BY <1>2, <1>4, <1>5, <1>15
  <2>2. CheckIntent \o << Only("oms"), Only("inner"), Only("risk") >> \in Scripts
    BY <1>3, <1>4, <1>7, <1>15
  <2>3. ASSUME NEW drain \in Scripts, NEW release \in Scripts
        PROVE  PlacedIntent(drain, release) \in Scripts
    <3>1. << Only("oms") >> \in Scripts /\ << Only("oms"), Only("store") >> \in Scripts
      BY <1>3, <1>5, <1>6
    <3> QED
      BY <1>4, <1>14, <1>15, <2>3, <3>1 DEF PlacedIntent
  <2>4. << Only("risk") >> \in Scripts
    BY <1>3, <1>5
  <2>5. \A drain \in DrainFills, release \in { << Only("risk") >>, << >> } :
          PlacedIntent(drain, release) \in Scripts
    BY <1>9, <1>13, <2>3, <2>4
  <2> DEFINE placed == { PlacedIntent(drain, release) :
                drain \in DrainFills, release \in { << Only("risk") >>, << >> } }
             refused == { CheckIntent \o << RefusedSection >>,
                          CheckIntent \o << Only("oms"), Only("inner"), Only("risk") >> }
  <2>6. ExecuteIntent = refused \cup placed
    BY DEF ExecuteIntent
  <2>7. placed \subseteq Scripts
    BY <2>5, SMT
  <2>8. refused \subseteq Scripts
    BY <2>1, <2>2
  <2> HIDE DEF placed, refused
  <2> QED
    BY <2>6, <2>7, <2>8
<1>17. StrategyIntent \in Scripts
  BY <1>3, <1>4, <1>6, <1>10 DEF StrategyIntent
<1>18. ASSUME NEW drain \in Scripts
       PROVE  Tick(drain) \in Scripts
  BY <1>3, <1>4, <1>5, <1>8 DEF Tick
<1>19. AfterOrder \in Scripts /\ SaveStrategy \o << Only("store") >> \in Scripts
  BY <1>3, <1>4, <1>5, <1>10, <1>11 DEF AfterOrder
<1>20. Overview \in Scripts
  <2>1. StoreOverview \in Scripts
    BY <1>3, <1>6 DEF StoreOverview
  <2> QED
    BY <1>3, <1>4, <1>6, <1>10, <2>1 DEF Overview
<1>21. Reads \subseteq Scripts
  BY <1>3, <1>5 DEF Reads
<1>22. Calls \subseteq Scripts
  <2>1. ASSUME NEW drain \in Scripts, NEW intent \in Scripts
        PROVE  /\ intent \o AfterOrder \in Scripts
               /\ StrategyIntent \o intent \o AfterOrder \in Scripts
               /\ Tick(drain) \o PersistEquity \in Scripts
               /\ DemoTurn(drain, intent) \in Scripts
    BY <1>3, <1>4, <1>5, <1>10, <1>11, <1>17, <1>18, <1>19, <2>1 DEF DemoTurn
  <2>2. \A drain \in DrainFills, intent \in ExecuteIntent :
          DemoTurn(drain, intent) \in Scripts
    BY <1>13, <1>16, <2>1
  <2> DEFINE orders   == { intent \o AfterOrder : intent \in ExecuteIntent }
             triggers == { StrategyIntent \o intent \o AfterOrder : intent \in ExecuteIntent }
             ticks    == { Tick(drain) \o PersistEquity : drain \in DrainFills }
             turns    == { DemoTurn(drain, intent) :
                             drain \in DrainFills, intent \in ExecuteIntent }
  <2>3. Calls = Reads \cup { Overview, SaveStrategy \o << Only("store") >> }
                  \cup orders \cup triggers \cup ticks \cup turns
    BY DEF Calls
  <2>4. turns \subseteq Scripts
    BY <2>2, SMT
  <2>5. orders \subseteq Scripts /\ triggers \subseteq Scripts /\ ticks \subseteq Scripts
    <3>1. DrainFills # {}
      BY DEF DrainFills
    <3> QED
      BY <1>13, <1>16, <2>1, <3>1
  <2> HIDE DEF orders, triggers, ticks, turns
  <2> QED
    BY <1>19, <1>20, <1>21, <2>3, <2>4, <2>5
<1>23. RestoreFromStore \in Scripts
  BY <1>2, <1>3, <1>8 DEF RestoreFromStore
<1> QED
  BY <1>22, <1>23 DEF Scripts

(***************************************************************************)
(* What a section holds                                                    *)
(***************************************************************************)

\* A step adds the mutex it locks, or takes away the one it unlocks.
LEMMA HeldStep ==
  ASSUME NEW s, NEW n \in Nat, NEW m \in Mutexes
  PROVE  /\ HeldIn(s, 0) = {}
         /\ s[n + 1] = Lock(m) => HeldIn(s, n + 1) = HeldIn(s, n) \cup {m}
         /\ s[n + 1] = Unlock(m) => HeldIn(s, n + 1) = HeldIn(s, n) \ {m}
<1>1. \A x : x \in HeldIn(s, 0) => FALSE
  BY DEF HeldIn
<1>2. \A x, y \in Mutexes : Lock(x) # Unlock(y) /\ (Lock(x) = Lock(y) => x = y)
                            /\ (Unlock(x) = Unlock(y) => x = y)
  BY DEF Lock, Unlock
<1>3. ASSUME s[n + 1] = Lock(m), NEW x \in Mutexes
      PROVE  x \in HeldIn(s, n + 1) <=> x \in HeldIn(s, n) \cup {m}
  <2>1. ASSUME x \in HeldIn(s, n + 1), x # m
        PROVE  x \in HeldIn(s, n)
    <3>1. PICK j \in 1..(n + 1) : s[j] = Lock(x) /\ \A k \in j..(n + 1) : s[k] # Unlock(x)
      BY <2>1 DEF HeldIn
    <3>2. j \in 1..n /\ \A k \in j..n : k \in j..(n + 1)
      BY <1>2, <1>3, <2>1, <3>1
    <3> QED
      BY <3>1, <3>2 DEF HeldIn
  <2>2. ASSUME x \in HeldIn(s, n)
        PROVE  x \in HeldIn(s, n + 1)
    <3>1. PICK j \in 1..n : s[j] = Lock(x) /\ \A k \in j..n : s[k] # Unlock(x)
      BY <2>2 DEF HeldIn
    <3>2. s[n + 1] # Unlock(x)
      BY <1>2, <1>3
    <3>3. j \in 1..(n + 1) /\ \A k \in j..(n + 1) : k \in j..n \/ k = n + 1
      OBVIOUS
    <3>4. \A k \in j..(n + 1) : s[k] # Unlock(x)
      BY <3>1, <3>2, <3>3
    <3> QED
      BY <3>1, <3>3, <3>4 DEF HeldIn
  <2>3. m \in HeldIn(s, n + 1)
    <3>1. n + 1 \in 1..(n + 1) /\ \A k \in (n + 1)..(n + 1) : k = n + 1
      OBVIOUS
    <3>2. \A k \in (n + 1)..(n + 1) : s[k] # Unlock(m)
      BY <1>2, <1>3, <3>1
    <3> QED
      BY <1>3, <3>1, <3>2 DEF HeldIn
  <2> QED
    BY <2>1, <2>2, <2>3
<1>4. ASSUME s[n + 1] = Unlock(m), NEW x \in Mutexes
      PROVE  x \in HeldIn(s, n + 1) <=> x \in HeldIn(s, n) \ {m}
  <2>1. ASSUME x \in HeldIn(s, n + 1)
        PROVE  x \in HeldIn(s, n) /\ x # m
    <3>1. PICK j \in 1..(n + 1) : s[j] = Lock(x) /\ \A k \in j..(n + 1) : s[k] # Unlock(x)
      BY <2>1 DEF HeldIn
    <3>2. j # n + 1
      BY <1>2, <1>4, <3>1
    <3>3. j \in 1..n /\ n + 1 \in j..(n + 1) /\ \A k \in j..n : k \in j..(n + 1)
      BY <3>2
    <3>4. x # m
      BY <1>4, <3>1, <3>3
    <3> QED
      BY <3>1, <3>3, <3>4 DEF HeldIn
  <2>2. ASSUME x \in HeldIn(s, n), x # m
        PROVE  x \in HeldIn(s, n + 1)
    <3>1. PICK j \in 1..n : s[j] = Lock(x) /\ \A k \in j..n : s[k] # Unlock(x)
      BY <2>2 DEF HeldIn
    <3>2. s[n + 1] # Unlock(x)
      BY <1>2, <1>4, <2>2
    <3>3. j \in 1..(n + 1) /\ \A k \in j..(n + 1) : k \in j..n \/ k = n + 1
      OBVIOUS
    <3>4. \A k \in j..(n + 1) : s[k] # Unlock(x)
      BY <3>1, <3>2, <3>3
    <3> QED
      BY <3>1, <3>3, <3>4 DEF HeldIn
  <2> QED
    BY <2>1, <2>2
<1>5. \A k \in Nat : HeldIn(s, k) \subseteq Mutexes
  BY DEF HeldIn
<1>6. HeldIn(s, n) \subseteq Mutexes /\ HeldIn(s, n + 1) \subseteq Mutexes
  BY <1>5
<1> QED
  BY <1>1, <1>3, <1>4, <1>6

\* Nothing is held before the first step.
LEMMA NothingHeld == \A s : HeldIn(s, 0) = {}
<1>1. \A s, x : x \in HeldIn(s, 0) => FALSE
  BY DEF HeldIn
<1> QED
  BY <1>1

\* A thread that has not moved holds what it held.
LEMMA HeldFrame ==
  ASSUME NEW u \in Threads, todo'[u] = todo[u], at'[u] = at[u]
  PROVE  Held(u)' = Held(u)
BY DEF Held

\* A section is a sequence of steps, gives back what it has taken and all of
\* it, and takes only what outranks what it holds.
Ranked(s) ==
  /\ s \in Seq(Steps) /\ Len(s) \in Nat \ {0}
  /\ HeldIn(s, Len(s)) = {}
  /\ \A n \in 0..(Len(s) - 1) :
       s[n + 1].op = "lock" =>
         \A m \in HeldIn(s, n) : Rank[m] < Rank[s[n + 1].mutex]
  /\ \A n \in 0..(Len(s) - 1) :
       s[n + 1].op = "unlock" => s[n + 1].mutex \in HeldIn(s, n)

LEMMA StepTypes ==
  ASSUME NEW m \in Mutexes
  PROVE  /\ Lock(m) \in Steps /\ Lock(m).op = "lock" /\ Lock(m).mutex = m
         /\ Unlock(m) \in Steps /\ Unlock(m).op = "unlock" /\ Unlock(m).mutex = m
BY DEF Lock, Unlock, Steps

LEMMA OnlyRanked ==
  ASSUME NEW m \in Mutexes
  PROVE  Ranked(Only(m))
<1> DEFINE s == Only(m)
<1>1. s = << Lock(m), Unlock(m) >>
  BY DEF Only
<1> HIDE DEF s
<1>2. /\ s \in Seq(Steps) /\ Len(s) = 2 /\ s[1] = Lock(m) /\ s[2] = Unlock(m)
  BY <1>1, StepTypes
<1>3. HeldIn(s, 0) = {} /\ HeldIn(s, 1) = {m} /\ HeldIn(s, 2) = {}
  <2>1. HeldIn(s, 0) = {} /\ HeldIn(s, 0 + 1) = {} \cup {m}
    <3>1. s[0 + 1] = Lock(m)
      BY <1>2
    <3> QED
      BY <3>1, HeldStep
  <2>2. HeldIn(s, 1 + 1) = HeldIn(s, 1) \ {m}
    <3>1. s[1 + 1] = Unlock(m)
      BY <1>2
    <3> QED
      BY <3>1, HeldStep
  <2>3. HeldIn(s, 1) = {m}
    BY <2>1
  <2>4. HeldIn(s, 2) = {}
    BY <2>2, <2>3
  <2> QED
    BY <2>1, <2>3, <2>4
<1>4. \A n \in 0..(Len(s) - 1) : n = 0 \/ n = 1
  BY <1>2
<1>5. Ranked(s)
  BY <1>2, <1>3, <1>4, StepTypes DEF Ranked
<1> QED
  BY <1>5 DEF s

LEMMA NestedRanked ==
  ASSUME NEW m \in Mutexes, NEW n \in Mutexes, Rank[m] < Rank[n]
  PROVE  Ranked(Nested(m, n))
<1> DEFINE s == Nested(m, n)
<1>1. s = << Lock(m), Lock(n), Unlock(n), Unlock(m) >>
  BY DEF Nested
<1> HIDE DEF s
<1>2. /\ s \in Seq(Steps) /\ Len(s) = 4
      /\ s[1] = Lock(m) /\ s[2] = Lock(n) /\ s[3] = Unlock(n) /\ s[4] = Unlock(m)
  BY <1>1, StepTypes
<1>3. m # n
  BY DEF Rank, Mutexes
<1>4. /\ HeldIn(s, 0) = {} /\ HeldIn(s, 1) = {m} /\ HeldIn(s, 2) = {m, n}
      /\ HeldIn(s, 3) = {m} /\ HeldIn(s, 4) = {}
  <2>1. HeldIn(s, 0) = {} /\ HeldIn(s, 0 + 1) = HeldIn(s, 0) \cup {m}
    BY <1>2, HeldStep
  <2>2. HeldIn(s, 1 + 1) = HeldIn(s, 1) \cup {n}
    BY <1>2, HeldStep
  <2>3. HeldIn(s, 2 + 1) = HeldIn(s, 2) \ {n}
    BY <1>2, HeldStep
  <2>4. HeldIn(s, 3 + 1) = HeldIn(s, 3) \ {m}
    BY <1>2, HeldStep
  <2> QED
    BY <1>3, <2>1, <2>2, <2>3, <2>4
<1>5. \A k \in 0..(Len(s) - 1) : k = 0 \/ k = 1 \/ k = 2 \/ k = 3
  BY <1>2
<1>6. Ranked(s)
  BY <1>2, <1>4, <1>5, StepTypes DEF Ranked
<1> QED
  BY <1>6 DEF s

LEMMA RestoreRanked == Ranked(RestoreSection)
<1> DEFINE s == RestoreSection
<1>1. s = << Lock("oms"), Lock("risk"), Lock("market"), Unlock("market"),
             Lock("inner"), Unlock("inner"), Unlock("risk"), Unlock("oms") >>
  BY DEF RestoreSection
<1> HIDE DEF s
<1>2. /\ "oms" \in Mutexes /\ "risk" \in Mutexes
      /\ "market" \in Mutexes /\ "inner" \in Mutexes
  BY DEF Mutexes
<1>3. /\ s \in Seq(Steps) /\ Len(s) = 8
      /\ s[1] = Lock("oms") /\ s[2] = Lock("risk")
      /\ s[3] = Lock("market") /\ s[4] = Unlock("market")
      /\ s[5] = Lock("inner") /\ s[6] = Unlock("inner")
      /\ s[7] = Unlock("risk") /\ s[8] = Unlock("oms")
  BY <1>1, <1>2, StepTypes
<1>4. /\ HeldIn(s, 0) = {} /\ HeldIn(s, 1) = {"oms"} /\ HeldIn(s, 2) = {"oms", "risk"}
      /\ HeldIn(s, 3) = {"oms", "risk", "market"} /\ HeldIn(s, 4) = {"oms", "risk"}
      /\ HeldIn(s, 5) = {"oms", "risk", "inner"} /\ HeldIn(s, 6) = {"oms", "risk"}
      /\ HeldIn(s, 7) = {"oms"} /\ HeldIn(s, 8) = {}
  <2>1. /\ HeldIn(s, 0) = {} /\ HeldIn(s, 0 + 1) = HeldIn(s, 0) \cup {"oms"}
        /\ HeldIn(s, 1 + 1) = HeldIn(s, 1) \cup {"risk"}
    BY <1>2, <1>3, HeldStep
  <2>2. /\ HeldIn(s, 2 + 1) = HeldIn(s, 2) \cup {"market"}
        /\ HeldIn(s, 3 + 1) = HeldIn(s, 3) \ {"market"}
    BY <1>2, <1>3, HeldStep
  <2>3. /\ HeldIn(s, 4 + 1) = HeldIn(s, 4) \cup {"inner"}
        /\ HeldIn(s, 5 + 1) = HeldIn(s, 5) \ {"inner"}
    BY <1>2, <1>3, HeldStep
  <2>4. /\ HeldIn(s, 6 + 1) = HeldIn(s, 6) \ {"risk"}
        /\ HeldIn(s, 7 + 1) = HeldIn(s, 7) \ {"oms"}
    BY <1>2, <1>3, HeldStep
  <2> QED
    BY <2>1, <2>2, <2>3, <2>4
<1>5. \A k \in 0..(Len(s) - 1) :
        k = 0 \/ k = 1 \/ k = 2 \/ k = 3 \/ k = 4 \/ k = 5 \/ k = 6 \/ k = 7
  BY <1>3
<1>6. \A k \in 0..(Len(s) - 1) :
        s[k + 1].op = "lock" =>
          \A m \in HeldIn(s, k) : Rank[m] < Rank[s[k + 1].mutex]
  BY <1>2, <1>3, <1>4, <1>5, StepTypes DEF Rank
<1>7. \A k \in 0..(Len(s) - 1) :
        s[k + 1].op = "unlock" => s[k + 1].mutex \in HeldIn(s, k)
  BY <1>2, <1>3, <1>4, <1>5, StepTypes
<1>8. Ranked(s)
  BY <1>3, <1>4, <1>6, <1>7 DEF Ranked
<1> QED
  BY <1>8 DEF s

\* Every section takes the mutexes in the order of their ranks.
LEMMA SectionsRanked ==
  ASSUME NEW s \in Sections
  PROVE  Ranked(s)
<1>1. Rank["risk"] < Rank["portfolio"] /\ Rank["oms"] < Rank["risk"]
      /\ Rank["portfolio"] < Rank["store"]
  BY DEF Rank
<1>2. Ranked(CheckSection) /\ Ranked(RefusedSection) /\ Ranked(LedgerSection)
  BY <1>1, NestedRanked DEF CheckSection, RefusedSection, LedgerSection, Mutexes
<1> QED
  BY <1>2, OnlyRanked, RestoreRanked DEF Sections

(***************************************************************************)
(* Ownership                                                               *)
(***************************************************************************)

\* Where a thread stands in its section.
LEMMA Standing ==
  ASSUME TypeOK, NEW t \in Threads
  PROVE  /\ todo[t] \in Seq(Sections) /\ at[t] \in Nat
         /\ todo[t] = << >> => at[t] = 0 /\ Held(t) = {}
         /\ todo[t] # << >> =>
              /\ Head(todo[t]) \in Sections /\ Tail(todo[t]) \in Seq(Sections)
              /\ Ranked(Head(todo[t]))
              /\ at[t] \in 0..(Len(Head(todo[t])) - 1)
              /\ Step(t) \in Steps
              /\ Held(t) = HeldIn(Head(todo[t]), at[t])
<1>1. todo[t] \in Seq(Sections) /\ at[t] \in Nat
  BY DEF TypeOK
<1>2. ASSUME todo[t] = << >>
      PROVE  at[t] = 0 /\ Held(t) = {}
  BY <1>1, <1>2 DEF TypeOK, Held
<1>3. ASSUME todo[t] # << >>
      PROVE  /\ Head(todo[t]) \in Sections /\ Tail(todo[t]) \in Seq(Sections)
             /\ Ranked(Head(todo[t]))
             /\ at[t] \in 0..(Len(Head(todo[t])) - 1)
             /\ Step(t) \in Steps
             /\ Held(t) = HeldIn(Head(todo[t]), at[t])
  <2>1. Head(todo[t]) \in Sections /\ Tail(todo[t]) \in Seq(Sections)
    BY <1>1, <1>3, HeadTailProperties
  <2>2. Ranked(Head(todo[t]))
    BY <2>1, SectionsRanked
  <2>3. Head(todo[t]) \in Seq(Steps) /\ Len(Head(todo[t])) \in Nat \ {0}
    BY <2>2 DEF Ranked
  <2>4. at[t] \in 0..(Len(Head(todo[t])) - 1)
    BY <1>1, <2>3 DEF TypeOK
  <2>5. Step(t) \in Steps
    <3>1. at[t] + 1 \in 1..Len(Head(todo[t]))
      BY <2>3, <2>4
    <3> QED
      BY <2>3, <3>1, ElementOfSeq DEF Step
  <2>6. Held(t) = HeldIn(Head(todo[t]), at[t])
    BY <1>3 DEF Held
  <2> QED
    BY <2>1, <2>2, <2>4, <2>5, <2>6
<1> QED
  BY <1>1, <1>2, <1>3

\* A step is a Lock or an Unlock of its mutex.
LEMMA StepForms ==
  ASSUME NEW s \in Steps
  PROVE  /\ s.mutex \in Mutexes
         /\ s.op = "lock" => s = Lock(s.mutex)
         /\ s.op = "unlock" => s = Unlock(s.mutex)
BY DEF Steps, Lock, Unlock

\* A mutex belongs to the one thread whose section has locked it, and every other
\* variable has its type.
THEOREM LockTypeCorrect == Spec => []TypeOK
<1>1. Init => TypeOK
  <2>1. ASSUME Init
        PROVE  TypeOK
    <3>1. \A t \in Threads : todo[t] = << >> /\ at[t] = 0 /\ Held(t) = {}
      BY <2>1 DEF Init, Held
    <3>2. \A m \in Mutexes, t \in Threads : owner[m] # t
      BY <2>1, LockAssumption DEF Init
    <3>3. << >> \in Seq(Sections)
      OBVIOUS
    <3>4. /\ owner \in [Mutexes -> Threads \cup {Nobody}]
          /\ todo \in [Threads -> Seq(Sections)]
          /\ at \in [Threads -> Nat] /\ restored \in BOOLEAN
      BY <2>1, <3>3 DEF Init
    <3>5. \A m \in Mutexes, t \in Threads : owner[m] = t <=> m \in Held(t)
      BY <3>1, <3>2
    <3> QED
      BY <3>1, <3>4, <3>5 DEF TypeOK
  <2> QED
    BY <2>1
<1>2. ASSUME TypeOK, [Next]_vars
      PROVE  TypeOK'
  <2>1. ASSUME NEW t \in Threads, todo[t] = << >>, NEW call \in Seq(Sections),
               todo' = [todo EXCEPT ![t] = call], UNCHANGED << owner, at >>,
               restored' \in BOOLEAN
        PROVE  TypeOK'
    <3>1. at[t] = 0 /\ Held(t) = {}
      BY <1>2, <2>1, Standing
    <3>2. todo' \in [Threads -> Seq(Sections)] /\ todo'[t] = call
      BY <1>2, <2>1 DEF TypeOK
    <3>3. \A u \in Threads : u # t => todo'[u] = todo[u]
      BY <1>2, <2>1 DEF TypeOK
    <3>4. Held(t)' = {}
      BY <2>1, <3>1, NothingHeld DEF Held
    <3>5. ASSUME NEW u \in Threads
          PROVE  Held(u)' = Held(u)
      BY <2>1, <3>1, <3>3, <3>4, HeldFrame
    <3> QED
      BY <1>2, <2>1, <3>1, <3>2, <3>3, <3>5 DEF TypeOK
  <2>2. ASSUME NEW t \in Threads, Begin(t)
        PROVE  TypeOK'
    <3>1. PICK call \in Calls : todo' = [todo EXCEPT ![t] = call]
      BY <2>2 DEF Begin
    <3>2. call \in Seq(Sections)
      BY CallSections
    <3> QED
      BY <1>2, <2>1, <2>2, <3>1, <3>2 DEF Begin, TypeOK
  <2>3. ASSUME NEW t \in Threads, Restore(t)
        PROVE  TypeOK'
    BY <2>1, <2>3, CallSections DEF Restore
  <2>4. ASSUME NEW t \in Threads, todo[t] # << >>, Advance(t)
        PROVE  /\ todo' \in [Threads -> Seq(Sections)]
               /\ at' \in [Threads -> Nat]
               /\ \A u \in Threads :
                    at'[u] > 0 => todo'[u] # << >> /\ at'[u] < Len(Head(todo'[u]))
               /\ Held(t)' = HeldIn(Head(todo[t]), at[t] + 1)
               /\ \A u \in Threads : u # t => Held(u)' = Held(u)
    <3>0. /\ Tail(todo[t]) \in Seq(Sections) /\ at[t] \in Nat
          /\ Len(Head(todo[t])) \in Nat
          /\ at[t] + 1 <= Len(Head(todo[t]))
          /\ HeldIn(Head(todo[t]), Len(Head(todo[t]))) = {}
      <4>1. Ranked(Head(todo[t])) /\ at[t] \in 0..(Len(Head(todo[t])) - 1)
        BY <1>2, <2>4, Standing
      <4>2. Len(Head(todo[t])) \in Nat /\ HeldIn(Head(todo[t]), Len(Head(todo[t]))) = {}
        BY <4>1 DEF Ranked
      <4>3. Tail(todo[t]) \in Seq(Sections) /\ at[t] \in Nat
        BY <1>2, <2>4, Standing
      <4> QED
        BY <4>1, <4>2, <4>3
    <3>1. CASE at[t] + 1 = Len(Head(todo[t]))
      <4>1. todo' = [todo EXCEPT ![t] = Tail(@)] /\ at' = [at EXCEPT ![t] = 0]
        BY <2>4, <3>1 DEF Advance
      <4>2. /\ todo' \in [Threads -> Seq(Sections)] /\ at' \in [Threads -> Nat]
            /\ at'[t] = 0
            /\ \A u \in Threads : u # t => todo'[u] = todo[u] /\ at'[u] = at[u]
        BY <1>2, <3>0, <4>1 DEF TypeOK
      <4>3. Held(t)' = {}
        BY <4>2, NothingHeld DEF Held
      <4>4. ASSUME NEW u \in Threads, u # t
            PROVE  Held(u)' = Held(u)
        BY <4>2, <4>4, HeldFrame
      <4> QED
        BY <1>2, <3>0, <3>1, <4>2, <4>3, <4>4 DEF TypeOK
    <3>2. CASE at[t] + 1 # Len(Head(todo[t]))
      <4>1. at' = [at EXCEPT ![t] = @ + 1] /\ todo' = todo
        BY <2>4, <3>2 DEF Advance
      <4>2. /\ todo' \in [Threads -> Seq(Sections)] /\ at' \in [Threads -> Nat]
            /\ at'[t] = at[t] + 1 /\ at'[t] < Len(Head(todo'[t]))
            /\ \A u \in Threads : u # t => todo'[u] = todo[u] /\ at'[u] = at[u]
        BY <1>2, <3>0, <3>2, <4>1 DEF TypeOK
      <4>3. Held(t)' = HeldIn(Head(todo[t]), at[t] + 1)
        BY <2>4, <4>1, <4>2 DEF Held
      <4>4. ASSUME NEW u \in Threads, u # t
            PROVE  Held(u)' = Held(u)
        BY <4>2, <4>4, HeldFrame
      <4> QED
        BY <1>2, <2>4, <4>1, <4>2, <4>3, <4>4 DEF TypeOK
    <3> QED
      BY <3>1, <3>2
  <2>5. ASSUME NEW t \in Threads, Acquire(t)
        PROVE  TypeOK'
    <3> DEFINE m == Step(t).mutex
               s == Head(todo[t])
    <3>1. /\ todo[t] # << >> /\ Step(t).op = "lock" /\ owner[m] = Nobody
          /\ owner' = [owner EXCEPT ![m] = t] /\ Advance(t) /\ restored' = restored
      BY <2>5 DEF Acquire
    <3>2. m \in Mutexes /\ s[at[t] + 1] = Lock(m) /\ at[t] \in Nat
          /\ Held(t) = HeldIn(s, at[t])
      BY <1>2, <3>1, Standing, StepForms DEF Step
    <3> HIDE DEF m, s
    <3>3. HeldIn(s, at[t] + 1) = Held(t) \cup {m}
      BY <3>2, HeldStep
    <3>4. /\ Held(t)' = Held(t) \cup {m}
          /\ \A u \in Threads : u # t => Held(u)' = Held(u)
      BY <2>4, <3>1, <3>3 DEF s
    <3>5. \A u \in Threads : m \notin Held(u)
      BY <1>2, <3>1, <3>2, LockAssumption DEF TypeOK
    <3>6. /\ owner' \in [Mutexes -> Threads \cup {Nobody}]
          /\ owner'[m] = t
          /\ \A x \in Mutexes : x # m => owner'[x] = owner[x]
      BY <1>2, <3>1, <3>2 DEF TypeOK
    <3>7. ASSUME NEW x \in Mutexes, NEW u \in Threads
          PROVE  owner'[x] = u <=> x \in Held(u)'
      <4>1. owner[x] = u <=> x \in Held(u)
        BY <1>2 DEF TypeOK
      <4>2. CASE x = m
        BY <3>4, <3>5, <3>6, <4>2
      <4>3. CASE x # m
        BY <3>4, <3>6, <4>1, <4>3
      <4> QED
        BY <4>2, <4>3
    <3>8. restored' \in BOOLEAN
      BY <1>2, <3>1 DEF TypeOK
    <3> QED
      BY <2>4, <3>1, <3>6, <3>7, <3>8 DEF TypeOK
  <2>6. ASSUME NEW t \in Threads, Release(t)
        PROVE  TypeOK'
    <3> DEFINE m == Step(t).mutex
               s == Head(todo[t])
    <3>1. /\ todo[t] # << >> /\ Step(t).op = "unlock"
          /\ owner' = [owner EXCEPT ![m] = Nobody] /\ Advance(t) /\ restored' = restored
      BY <2>6 DEF Release
    <3>2. m \in Mutexes /\ s[at[t] + 1] = Unlock(m) /\ at[t] \in Nat
          /\ Held(t) = HeldIn(s, at[t])
      BY <1>2, <3>1, Standing, StepForms DEF Step
    <3> HIDE DEF m, s
    <3>3. HeldIn(s, at[t] + 1) = Held(t) \ {m}
      BY <3>2, HeldStep
    <3>4. /\ Held(t)' = Held(t) \ {m}
          /\ \A u \in Threads : u # t => Held(u)' = Held(u)
      BY <2>4, <3>1, <3>3 DEF s
    <3>5. /\ owner' \in [Mutexes -> Threads \cup {Nobody}]
          /\ owner'[m] = Nobody
          /\ \A x \in Mutexes : x # m => owner'[x] = owner[x]
      BY <1>2, <3>1, <3>2 DEF TypeOK
    <3>6. m \in Held(t)
      BY <1>2, <3>1, <3>2, Standing DEF Ranked, Step, m, s
    <3>7. ASSUME NEW x \in Mutexes, NEW u \in Threads
          PROVE  owner'[x] = u <=> x \in Held(u)'
      <4>1. owner[x] = u <=> x \in Held(u)
        BY <1>2 DEF TypeOK
      <4>2. CASE x = m
        <5>1. u # t => m \notin Held(u)
          BY <1>2, <3>2, <3>6 DEF TypeOK
        <5> QED
          BY <3>4, <3>5, <4>2, <5>1, LockAssumption
      <4>3. CASE x # m
        BY <3>4, <3>5, <4>1, <4>3
      <4> QED
        BY <4>2, <4>3
    <3>8. restored' \in BOOLEAN
      BY <1>2, <3>1 DEF TypeOK
    <3> QED
      BY <2>4, <3>1, <3>5, <3>7, <3>8 DEF TypeOK
  <2>7. ASSUME NEW t \in Threads, Fail(t)
        PROVE  TypeOK'
    <3>1. /\ todo[t] # << >> /\ UNCHANGED << owner, at, restored >>
          /\ todo' = [todo EXCEPT ![t] = IF at[t] = 0 THEN << >> ELSE << Head(@) >>]
      BY <2>7 DEF Fail
    <3>2. Head(todo[t]) \in Sections /\ at[t] \in Nat
      BY <1>2, <3>1, Standing
    <3>3. /\ << Head(todo[t]) >> \in Seq(Sections) /\ << >> \in Seq(Sections)
          /\ Head(<< Head(todo[t]) >>) = Head(todo[t])
          /\ << Head(todo[t]) >> # << >>
      BY <3>2
    <3>4. /\ todo' \in [Threads -> Seq(Sections)]
          /\ todo'[t] = IF at[t] = 0 THEN << >> ELSE << Head(todo[t]) >>
          /\ \A u \in Threads : u # t => todo'[u] = todo[u]
      BY <1>2, <3>1, <3>3 DEF TypeOK
    <3>5. Held(t)' = Held(t)
      <4>1. CASE at[t] = 0
        BY <3>1, <3>4, <4>1, NothingHeld DEF Held
      <4>2. CASE at[t] # 0
        <5>1. todo'[t] = << Head(todo[t]) >> /\ at'[t] = at[t]
          BY <3>1, <3>4, <4>2
        <5>2. Head(todo'[t]) = Head(todo[t]) /\ todo'[t] # << >>
          BY <3>3, <5>1
        <5> QED
          BY <3>1, <5>1, <5>2 DEF Held
      <4> QED
        BY <4>1, <4>2
    <3>6. ASSUME NEW u \in Threads
          PROVE  Held(u)' = Held(u)
      BY <3>1, <3>4, <3>5, HeldFrame
    <3> QED
      BY <1>2, <3>1, <3>3, <3>4, <3>6 DEF TypeOK
  <2>8. CASE UNCHANGED vars
    BY <1>2, <2>8 DEF vars, TypeOK, Held
  <2> QED
    BY <1>2, <2>2, <2>3, <2>5, <2>6, <2>7, <2>8 DEF Next
<1> QED
  BY <1>1, <1>2, PTL DEF Spec

(***************************************************************************)
(* No circular wait                                                        *)
(***************************************************************************)

\* Of any set of threads one does not wait for the others: who waits for the
\* mutex of the highest rank waits for a thread that waits for a higher one.
THEOREM NeverCircular == Spec => []NoCircularWait
<1>1. ASSUME TypeOK, NEW threads \in (SUBSET Threads) \ {{}},
             \A t \in threads : WaitsFor(t, threads)
      PROVE  FALSE
  <2> DEFINE rank(t) == Rank[Step(t).mutex]
  <2>1. ASSUME NEW t \in threads
        PROVE  rank(t) \in 1..4
    <3>1. Step(t).mutex \in Mutexes
      BY <1>1, Standing, StepForms DEF WaitsFor
    <3> QED
      BY <3>1 DEF Rank, Mutexes
  <2>2. ASSUME NEW t \in threads
        PROVE  \E u \in threads : rank(t) < rank(u)
    <3>1. PICK u \in threads : owner[Step(t).mutex] = u
      BY <1>1 DEF WaitsFor
    <3>2. Step(t).mutex \in Held(u)
      <4>1. Step(t).mutex \in Mutexes /\ u \in Threads
        BY <1>1, Standing, StepForms DEF WaitsFor
      <4> QED
        BY <1>1, <3>1, <4>1 DEF TypeOK
    <3>3. /\ Held(u) = HeldIn(Head(todo[u]), at[u]) /\ Ranked(Head(todo[u]))
          /\ at[u] \in 0..(Len(Head(todo[u])) - 1)
          /\ Head(todo[u])[at[u] + 1].op = "lock"
      BY <1>1, Standing DEF WaitsFor, Step
    <3>4. rank(t) < rank(u)
      BY <3>2, <3>3 DEF Ranked, Step
    <3> QED
      BY <3>4
  <2> HIDE DEF rank
  <2>3. PICK t1 \in threads : TRUE
    BY <1>1
  <2>4. PICK t2 \in threads : rank(t1) < rank(t2)
    BY <2>2
  <2>5. PICK t3 \in threads : rank(t2) < rank(t3)
    BY <2>2
  <2>6. PICK t4 \in threads : rank(t3) < rank(t4)
    BY <2>2
  <2>7. PICK t5 \in threads : rank(t4) < rank(t5)
    BY <2>2
  <2> QED
    BY <2>1, <2>4, <2>5, <2>6, <2>7
<1>2. TypeOK => NoCircularWait
  BY <1>1 DEF NoCircularWait
<1> QED
  BY <1>2, LockTypeCorrect, PTL

=============================================================================
