----------------------------- MODULE LockOrder -----------------------------
(***************************************************************************)
(* The mutexes of services/tuxd and the order in which the calls take      *)
(* them: the runtime's market, portfolio, order manager, risk engine and   *)
(* strategy, the paper engine's two, and the store's connection.  They are *)
(* std mutexes: a thread that asks for one it holds waits for ever.        *)
(*                                                                         *)
(* A call is the sequence of critical sections it goes through; only what  *)
(* is nested in the source is one section here.  A guard in the head of a  *)
(* match lives to the end of the match, and the guards of a block are      *)
(* dropped in the opposite order.                                          *)
(***************************************************************************)
EXTENDS Naturals, Sequences

CONSTANTS Threads,
          Nobody   \* the owner of a mutex that is free

ASSUME LockAssumption == Nobody \notin Threads

Mutexes == { "market", "portfolio", "oms", "risk", "strategy",
             "inner", "pending", "store" }

VARIABLES
  owner,    \* mutex -> the thread that holds it
  todo,     \* thread -> the sections its call still has to go through
  at,       \* thread -> how many steps of the first of them are done
  restored  \* whether restore_from_store has been called

vars == << owner, todo, at, restored >>

-----------------------------------------------------------------------------
(* Critical sections *)

Lock(m)   == [op |-> "lock",   mutex |-> m]
Unlock(m) == [op |-> "unlock", mutex |-> m]

Only(m) == << Lock(m), Unlock(m) >>

Nested(m, n) == << Lock(m), Lock(n), Unlock(n), Unlock(m) >>

\* The risk engine decides on the portfolio as it is.
CheckSection == Nested("risk", "portfolio")

\* The order manager is held while the booking of a refused order is released.
RefusedSection == Nested("oms", "risk")

\* The fill's ledger entries are stored before anyone sees its balances.
LedgerSection == Nested("portfolio", "store")

\* Mutation: the risk engine is locked before the order manager.
RestoreSection_RiskFirst ==
  << Lock("risk"), Lock("oms"), Lock("market"), Unlock("market"),
     Lock("inner"), Unlock("inner"), Unlock("oms"), Unlock("risk") >>

\* The restore keeps order manager and risk engine to itself.
RestoreSection ==
  << Lock("oms"), Lock("risk"), Lock("market"), Unlock("market"),
     Lock("inner"), Unlock("inner"), Unlock("risk"), Unlock("oms") >>

Sections ==
  { Only(m) : m \in Mutexes }
    \cup { CheckSection, RefusedSection, LedgerSection, RestoreSection }

-----------------------------------------------------------------------------
(* Calls *)

Equity == << Only("market"), Only("portfolio") >>

PersistEquity ==
  Equity \o << Only("portfolio"), Only("risk"), Only("store"), Only("store") >>

SaveStrategy == << Only("strategy"), Only("store") >>

\* A fill that ended its order releases the booking; a partial one does not.
ApplyFill ==
  { << LedgerSection, Only("store"), Only("inner"), Only("oms") >> \o release
      \o << Only("store") >> \o SaveStrategy :
    release \in { << Only("risk") >>, << >> } }

\* No fill, or one: the sections of several only repeat.
DrainFills ==
  { << Only("pending") >> } \cup { << Only("pending") >> \o fill : fill \in ApplyFill }

\* The duplicate check, the book, the fill, the insertion.
PlaceOrder ==
  << Only("inner"), Only("inner"), Only("inner"), Only("inner"), Only("pending") >>

CheckIntent == << Only("market") >> \o Equity \o << CheckSection >>

PlacedIntent(drain, release) ==
  CheckIntent \o << Only("oms") >> \o PlaceOrder
    \o << Only("oms"), Only("store") >> \o drain \o release

\* The order manager or the engine refuses, or the order is placed.
ExecuteIntent ==
  { CheckIntent \o << RefusedSection >>,
    CheckIntent \o << Only("oms"), Only("inner"), Only("risk") >> }
    \cup { PlacedIntent(drain, release) :
             drain \in DrainFills, release \in { << Only("risk") >>, << >> } }

StrategyIntent == << Only("strategy"), Only("market") >> \o SaveStrategy

\* The turn of the sampler, and of the demo loop up to its strategy.
Tick(drain) ==
  << Only("market"), Only("inner"), Only("inner"), Only("pending") >> \o drain
    \o << Only("store") >>

AfterOrder == SaveStrategy \o << Only("store") >> \o PersistEquity

\* The connection is dropped before equity_series locks it again.
StoreOverview == << Only("store"), Only("store") >>

Overview ==
  << Only("portfolio"), Only("risk") >> \o StoreOverview \o Equity

RestoreFromStore ==
  << Only("store"), Only("portfolio"), Only("store"), RestoreSection >>

\* A turn of the demo loop whose strategy trades.
DemoTurn(drain, intent) ==
  Tick(drain) \o << Only("strategy") >> \o SaveStrategy \o intent \o AfterOrder

Reads == { << Only(m) >> : m \in { "portfolio", "store", "market", "strategy" } }

\* The dashboard's reads, overview, changes of the strategy, manual orders and
\* triggers; the turns of the sampler and the demo loop.
Calls ==
  Reads
    \cup { Overview, SaveStrategy \o << Only("store") >> }
    \cup { intent \o AfterOrder : intent \in ExecuteIntent }
    \cup { StrategyIntent \o intent \o AfterOrder : intent \in ExecuteIntent }
    \cup { Tick(drain) \o PersistEquity : drain \in DrainFills }
    \cup { DemoTurn(drain, intent) : drain \in DrainFills, intent \in ExecuteIntent }

-----------------------------------------------------------------------------

Init ==
  /\ owner = [m \in Mutexes |-> Nobody]
  /\ todo = [t \in Threads |-> << >>]
  /\ at = [t \in Threads |-> 0]
  /\ restored = FALSE

Begin(t) ==
  /\ todo[t] = << >>
  /\ \E call \in Calls : todo' = [todo EXCEPT ![t] = call]
  /\ UNCHANGED << owner, at, restored >>

\* The demo restores once, before its loop; handlers and sampler run already.
Restore(t) ==
  /\ todo[t] = << >>
  /\ ~ restored
  /\ restored' = TRUE
  /\ todo' = [todo EXCEPT ![t] = RestoreFromStore]
  /\ UNCHANGED << owner, at >>

Step(t) == Head(todo[t])[at[t] + 1]

Advance(t) ==
  IF at[t] + 1 = Len(Head(todo[t]))
    THEN todo' = [todo EXCEPT ![t] = Tail(@)] /\ at' = [at EXCEPT ![t] = 0]
    ELSE at' = [at EXCEPT ![t] = @ + 1] /\ UNCHANGED todo

Acquire(t) ==
  /\ todo[t] # << >>
  /\ Step(t).op = "lock"
  /\ owner[Step(t).mutex] = Nobody
  /\ owner' = [owner EXCEPT ![Step(t).mutex] = t]
  /\ Advance(t)
  /\ UNCHANGED restored

\* Mutation: only the outer mutex of a section is given back.
Release_OuterOnly(t) ==
  /\ todo[t] # << >>
  /\ Step(t).op = "unlock"
  /\ owner' = IF at[t] + 1 = Len(Head(todo[t]))
                THEN [owner EXCEPT ![Step(t).mutex] = Nobody] ELSE owner
  /\ Advance(t)
  /\ UNCHANGED restored

Release(t) ==
  /\ todo[t] # << >>
  /\ Step(t).op = "unlock"
  /\ owner' = [owner EXCEPT ![Step(t).mutex] = Nobody]
  /\ Advance(t)
  /\ UNCHANGED restored

\* A refusal or an error: the call goes no further than the section it is in.
Fail(t) ==
  /\ todo[t] # << >>
  /\ todo' = [todo EXCEPT ![t] = IF at[t] = 0 THEN << >> ELSE << Head(@) >>]
  /\ UNCHANGED << owner, at, restored >>

Next ==
  \E t \in Threads : Begin(t) \/ Restore(t) \/ Acquire(t) \/ Release(t) \/ Fail(t)

Spec == Init /\ [][Next]_vars

-----------------------------------------------------------------------------
(* Properties *)

\* The mutexes a section has locked and not unlocked after n steps.
HeldIn(s, n) ==
  { m \in Mutexes : \E j \in 1..n : /\ s[j] = Lock(m)
                                    /\ \A k \in j..n : s[k] # Unlock(m) }

Held(t) == IF todo[t] = << >> THEN {} ELSE HeldIn(Head(todo[t]), at[t])

\* A mutex belongs to the one thread whose section has locked it, and every
\* other variable has its type.
TypeOK ==
  /\ owner \in [Mutexes -> Threads \cup {Nobody}]
  /\ \A m \in Mutexes, t \in Threads : owner[m] = t <=> m \in Held(t)
  /\ todo \in [Threads -> Seq(Sections)]
  /\ at \in [Threads -> Nat]
  /\ \A t \in Threads : at[t] > 0 => todo[t] # << >> /\ at[t] < Len(Head(todo[t]))
  /\ restored \in BOOLEAN

\* The thread waits for a mutex that one of these threads holds.
WaitsFor(t, threads) ==
  /\ todo[t] # << >>
  /\ Step(t).op = "lock"
  /\ owner[Step(t).mutex] \in threads

\* No threads wait for each other, nor does one for itself: of any set of them
\* one can go on, whatever calls they are in and however far.
NoCircularWait ==
  \A threads \in (SUBSET Threads) \ {{}} :
    \E t \in threads : ~ WaitsFor(t, threads)

=============================================================================
