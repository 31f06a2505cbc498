--------------------------- MODULE StrategyControl ---------------------------
(***************************************************************************)
(* The strategy snapshot of the trading runtime and those who change it:   *)
(* HTTP handlers that configure, pause, resume, stop and trigger, threads  *)
(* that record orders and fills, and the demo loop, whose strategy host    *)
(* holds a copy of the configuration.  Every change clones the snapshot    *)
(* under its mutex and stores the clone after the mutex is released.       *)
(***************************************************************************)
EXTENDS Integers

CONSTANTS
  Callers,            \* threads of HTTP handlers and of the price sampler
  Loop,               \* the thread of run_paper_demo
  Parameters,         \* what a configuration may be
  DefaultParameters,  \* StrategyParameters::default
  TotalTicks,         \* turns of the demo loop
  MaxRevision, MaxCrashes   \* bounds

ASSUME ControlAssumption ==
  /\ Loop \notin Callers
  /\ DefaultParameters \in Parameters
  /\ TotalTicks \in Nat /\ MaxRevision \in Nat /\ MaxCrashes \in Nat

Threads == Callers \cup {Loop}

Statuses == { "running", "paused", "stopped", "error" }

\* The counters of signals, orders and fills are left out: a step that counts
\* clones and stores the snapshot like any other, which is all that matters.
Snapshots == [status : Statuses, parameters : Parameters, revision : Nat]

FreshSnapshot ==
  [status |-> "running", parameters |-> DefaultParameters, revision |-> 1]

NoSnapshot == [status |-> "none"]

\* A configuration: the parameters and the revision that names them.
VersionOf(r) == [revision |-> r.revision, parameters |-> r.parameters]

VARIABLES
  snap,      \* the snapshot in memory
  stored,    \* the snapshot in the table strategy_state
  pc,        \* thread -> the step its call stands at
  job,       \* thread -> the locals of its call
  host,      \* the one-shot strategy, and the revision applied to it
  tick,      \* turns of the demo loop so far
  crashes,   \* crashes so far
  versions,  \* history: the configurations of this life of the process
  bought,    \* history: automatic intents, over all lives
  begun      \* history: of the loop's turn, the revision it began with, and
             \* whether the strategy has not been running since

vars == << snap, stored, pc, job, host, tick, crashes, versions, bought, begun >>

history == << versions, bought, begun >>
loop    == << host, tick >>

NoJob == [ held |-> FreshSnapshot, then |-> "idle", manual |-> FALSE,
           revision |-> 1, parameters |-> DefaultParameters ]

NoHost == [parameters |-> DefaultParameters, revision |-> 1, sent |-> FALSE]

\* Where a thread goes when its call, or its turn, is over.
Home(t) == IF t = Loop THEN "tick" ELSE "idle"

AtStart == [t \in Threads |-> IF t = Loop THEN "boot" ELSE "idle"]

Goto(t, step) == pc' = [pc EXCEPT ![t] = step]

\* The call goes on with a step, or is over and forgets its locals.
Leave(t, step) ==
  /\ Goto(t, step)
  /\ job' = IF step = Home(t) THEN [job EXCEPT ![t] = NoJob] ELSE job

\* A change under the mutex, with the clone that is to be stored.
Change(t, s, then) ==
  /\ snap' = s
  /\ job' = [job EXCEPT ![t].held = s, ![t].then = then]
  /\ Goto(t, "save")

\* Mutation: a stopped strategy is told from the others, a paused one is not.
CanExecute_Paused(s) == s.status # "stopped"

CanExecute(s) == s.status = "running"

Configured(s, p) == [s EXCEPT !.parameters = p, !.revision = @ + 1]

\* Mutation: one turn too many.
TurnsLeft_Inclusive == tick <= TotalTicks

TurnsLeft == tick < TotalTicks

\* Mutations: a new configuration arms the strategy again; the revision is
\* taken over at once, the parameters only while the strategy runs; only the first
\* change of the configuration is taken over.
Adopted_Rearms(h, s) ==
  IF s.revision = h.revision THEN h
  ELSE [parameters |-> s.parameters, revision |-> s.revision, sent |-> FALSE]

Adopted_WhileRunning(h, s) ==
  [h EXCEPT !.revision = s.revision,
            !.parameters = IF CanExecute(s) THEN s.parameters ELSE @]

Adopted_Once(h, s) ==
  IF h.revision > 1 THEN h
  ELSE [h EXCEPT !.parameters = s.parameters, !.revision = s.revision]

\* The host takes over the snapshot's configuration if its revision is another.
Adopted(h, s) ==
  IF s.revision = h.revision THEN h
  ELSE [h EXCEPT !.parameters = s.parameters, !.revision = s.revision]

-----------------------------------------------------------------------------

Init ==
  /\ snap = FreshSnapshot /\ stored = NoSnapshot
  /\ pc = AtStart /\ job = [t \in Threads |-> NoJob]
  /\ host = NoHost /\ tick = 0 /\ crashes = 0
  /\ versions = { VersionOf(FreshSnapshot) }
  /\ bought = 0
  /\ begun = [revision |-> 1, calm |-> FALSE]

\* The process dies between two steps and starts again with what is stored.
Crash ==
  /\ crashes < MaxCrashes
  /\ crashes' = crashes + 1
  /\ snap' = IF stored = NoSnapshot THEN FreshSnapshot ELSE stored
  /\ versions' = { VersionOf(snap') }
  /\ pc' = AtStart /\ job' = [t \in Threads |-> NoJob]
  /\ host' = NoHost /\ tick' = 0
  /\ begun' = [revision |-> 1, calm |-> FALSE]
  /\ UNCHANGED << stored, bought >>

\* persist_strategy_snapshot: the clone replaces whatever is stored.
Save(t) ==
  /\ pc[t] = "save"
  /\ stored' = job[t].held
  /\ Leave(t, job[t].then)
  /\ UNCHANGED << snap, loop, crashes, history >>

-----------------------------------------------------------------------------
(* Handlers *)

Configure(t, p) ==
  /\ pc[t] = "idle"
  /\ snap.revision < MaxRevision
  /\ Change(t, Configured(snap, p), "idle")
  /\ versions' = versions \cup { VersionOf(snap') }
  /\ UNCHANGED << stored, loop, crashes, bought, begun >>

SetStatus(t, status) ==
  /\ pc[t] = "idle"
  /\ Change(t, [snap EXCEPT !.status = status], "idle")
  /\ begun' = [begun EXCEPT !.calm = @ /\ status # "running"]
  /\ UNCHANGED << stored, loop, crashes, versions, bought >>

\* strategy_intent works on one clone of the snapshot.
Trigger(t) ==
  /\ pc[t] = "idle"
  /\ CanExecute(snap)
  /\ job' = [job EXCEPT ![t].parameters = snap.parameters,
                        ![t].revision = snap.revision, ![t].manual = FALSE]
  /\ Goto(t, "signal")
  /\ UNCHANGED << snap, stored, loop, crashes, history >>

ManualOrder(t) ==
  /\ pc[t] = "idle"
  /\ job' = [job EXCEPT ![t].manual = TRUE]
  /\ Goto(t, "execute")
  /\ UNCHANGED << snap, stored, loop, crashes, history >>

\* The end of apply_fill, on the sampler's thread.
NoteFill(t) ==
  /\ pc[t] = "idle"
  /\ Change(t, snap, "idle")
  /\ UNCHANGED << stored, loop, crashes, history >>

-----------------------------------------------------------------------------
(* Steps of an intent, whoever issued it *)

NoteSignal(t) ==
  /\ pc[t] = "signal"
  /\ Change(t, snap, "execute")
  /\ UNCHANGED << stored, loop, crashes, history >>

\* execute_intent is refused, fails or makes an order, and may apply a fill.
Execute(t) ==
  /\ pc[t] = "execute"
  /\ \/ Leave(t, Home(t)) /\ UNCHANGED snap
     \/ Goto(t, "note_order") /\ UNCHANGED << snap, job >>
     \/ \E step \in { "note_order", Home(t) } : Change(t, snap, step)
  /\ UNCHANGED << stored, loop, crashes, history >>

NoteOrder(t) ==
  /\ pc[t] = "note_order"
  /\ Change(t, snap, Home(t))
  /\ UNCHANGED << stored, loop, crashes, history >>

-----------------------------------------------------------------------------
(* The demo loop *)

StartLoop ==
  /\ pc[Loop] = "boot"
  /\ host' = [parameters |-> snap.parameters, revision |-> snap.revision,
              sent |-> FALSE]
  /\ Goto(Loop, "tick")
  /\ UNCHANGED << snap, stored, job, tick, crashes, history >>

\* A turn begins; it ends at once without a price, and may drain a fill.
BeginTick ==
  /\ pc[Loop] = "tick"
  /\ TurnsLeft
  /\ tick' = tick + 1
  /\ begun' = [revision |-> snap.revision, calm |-> snap.status # "running"]
  /\ \/ UNCHANGED << snap, job, pc >>
     \/ Goto(Loop, "decide") /\ UNCHANGED << snap, job >>
     \/ Change(Loop, snap, "decide")
  /\ UNCHANGED << stored, host, crashes, versions, bought >>

\* One clone of the snapshot decides: the host takes over a new configuration,
\* and is asked for an intent if the strategy may run.
Decide ==
  LET h == Adopted(host, snap)
  IN /\ pc[Loop] = "decide"
     /\ host' = [h EXCEPT !.sent = @ \/ CanExecute(snap)]
     /\ IF CanExecute(snap) /\ ~ h.sent
          THEN /\ job' = [job EXCEPT ![Loop].parameters = h.parameters,
                                     ![Loop].revision = h.revision]
               /\ bought' = bought + 1
               /\ Goto(Loop, "signal")
          ELSE Goto(Loop, "tick") /\ UNCHANGED << job, bought >>
     /\ UNCHANGED << snap, stored, tick, crashes, versions, begun >>

-----------------------------------------------------------------------------

Next ==
  \/ Crash
  \/ StartLoop
  \/ BeginTick
  \/ Decide
  \/ \E t \in Callers :
       \/ \E p \in Parameters : Configure(t, p)
       \/ \E s \in { "paused", "running", "stopped" } : SetStatus(t, s)
       \/ Trigger(t)
       \/ ManualOrder(t)
       \/ NoteFill(t)
  \/ \E t \in Threads :
       \/ Save(t)
       \/ NoteSignal(t)
       \/ Execute(t)
       \/ NoteOrder(t)

Spec == Init /\ [][Next]_vars

-----------------------------------------------------------------------------
(* Properties *)

Versions == [revision : Nat, parameters : Parameters]

\* Every clone of the snapshot, in memory, in the store and in the hands of a
\* call, is a snapshot; the other variables have their types.
TypeOK ==
  /\ snap \in Snapshots
  /\ stored \in Snapshots \cup {NoSnapshot}
  /\ pc \in [Threads -> { "idle", "boot", "tick", "decide", "signal", "execute",
                          "note_order", "save" }]
  /\ job \in [Threads ->
       [ held : Snapshots, manual : BOOLEAN, revision : Nat,
         then : { "idle", "tick", "decide", "execute", "note_order" },
         parameters : Parameters ]]
  /\ host \in [parameters : Parameters, revision : Nat, sent : BOOLEAN]
  /\ tick \in 0..TotalTicks /\ crashes \in 0..MaxCrashes /\ bought \in Nat
  /\ versions \subseteq Versions
  /\ begun \in [revision : Nat, calm : BOOLEAN]

\* An intent of the strategy that is on its way to execute_intent.
Issuing(t) ==
  \/ pc[t] = "signal"
  \/ pc[t] = "execute" /\ ~ job[t].manual
  \/ pc[t] = "save" /\ job[t].then = "execute"

\* Within one life of the process a revision names one configuration, and
\* wherever a revision stands, in memory, in the store, in a clone, in the host
\* or beside an intent, it stands with the parameters it names, whatever is
\* configured meanwhile: "cfg-<revision>" identifies what was traded.
RevisionNamesConfiguration ==
  /\ \A v, w \in versions : v.revision = w.revision => v = w
  /\ VersionOf(snap) \in versions
  /\ stored # NoSnapshot => VersionOf(stored) \in versions
  /\ pc[Loop] # "boot" => VersionOf(host) \in versions
  /\ \A t \in Threads :
       /\ pc[t] = "save" => VersionOf(job[t].held) \in versions
       /\ Issuing(t) => VersionOf(job[t]) \in versions

\* "Demo strategy: buy once on first book tick": in one life of the process the
\* loop issues at most one intent, however often it is paused, resumed and
\* configured in between.
OneShotBuysOnce == bought <= crashes + 1

\* A strategy that is paused or stopped before a turn of the loop begins, and
\* stays so, issues nothing in that turn.
PauseStopsNewIntents == Issuing(Loop) => ~ begun.calm

\* An automatic intent is computed with a configuration at least as new as the
\* one its turn began with.
FreshConfigurationUsed == Issuing(Loop) => job[Loop].revision >= begun.revision

\* When no change is on its way to the store, the store holds the snapshot.
StoredSnapshotCurrent ==
  (\A t \in Threads : pc[t] # "save") /\ stored # NoSnapshot => stored = snap

=============================================================================
