------------------------ MODULE StrategyControl_proofs ------------------------
(***************************************************************************)
(* Theorems about StrategyControl, for any number of handlers, any set of  *)
(* configurations and any bounds, with their proofs.                       *)
(***************************************************************************)
EXTENDS StrategyControl, TLAPS

\* What a call may remember, and where a thread may stand.
Jobs == [ held : Snapshots, manual : BOOLEAN, revision : Nat,
          then : { "idle", "tick", "decide", "execute", "note_order" },
          parameters : Parameters ]

Steps == { "idle", "boot", "tick", "decide", "signal", "execute",
           "note_order", "save" }

Hosts == [parameters : Parameters, revision : Nat, sent : BOOLEAN]

\* The values of the helpers are snapshots, configurations, jobs and hosts.
LEMMA FreshTypes ==
  /\ FreshSnapshot \in Snapshots
  /\ NoJob \in Jobs
  /\ NoHost \in Hosts
  /\ FreshSnapshot # NoSnapshot
BY ControlAssumption
   DEF FreshSnapshot, Snapshots, Statuses, NoJob, Jobs, NoHost, Hosts, NoSnapshot

LEMMA VersionType ==
  ASSUME NEW s \in Snapshots
  PROVE  VersionOf(s) \in Versions
BY DEF VersionOf, Versions, Snapshots

LEMMA ConfiguredType ==
  ASSUME NEW s \in Snapshots, NEW p \in Parameters
  PROVE  /\ Configured(s, p) \in Snapshots
         /\ Configured(s, p).revision = s.revision + 1
         /\ Configured(s, p).status = s.status
<1> DEFINE r == s.revision + 1
<1>1. r \in Nat
  BY DEF Snapshots
<1>2. Configured(s, p) = [s EXCEPT !.parameters = p, !.revision = r]
  BY DEF Configured
<1> HIDE DEF r
<1>3. /\ [s EXCEPT !.parameters = p, !.revision = r] \in Snapshots
      /\ [s EXCEPT !.parameters = p, !.revision = r].revision = r
      /\ [s EXCEPT !.parameters = p, !.revision = r].status = s.status
  BY <1>1 DEF Snapshots
<1> QED
  BY <1>2, <1>3 DEF r

LEMMA AdoptedType ==
  ASSUME NEW h \in Hosts, NEW s \in Snapshots
  PROVE  /\ Adopted(h, s) \in Hosts
         /\ Adopted(h, s).revision = s.revision
         /\ Adopted(h, s).sent = h.sent
         /\ VersionOf(Adopted(h, s)) \in { VersionOf(h), VersionOf(s) }
BY DEF Adopted, Hosts, Snapshots, VersionOf

LEMMA StatusType ==
  ASSUME NEW s \in Snapshots, NEW status \in Statuses
  PROVE  /\ [s EXCEPT !.status = status] \in Snapshots
         /\ VersionOf([s EXCEPT !.status = status]) = VersionOf(s)
         /\ [s EXCEPT !.status = status].status = status
         /\ [s EXCEPT !.status = status].revision = s.revision
BY DEF Snapshots, VersionOf

-----------------------------------------------------------------------------
(* The shapes every step is made of *)

Continuations == { "idle", "tick", "decide", "execute", "note_order" }

Typed == pc \in [Threads -> Steps] /\ job \in [Threads -> Jobs]

\* A step of a thread leaves the others where they are.
OthersStay(t) == \A u \in Threads \ {t} : pc'[u] = pc[u] /\ job'[u] = job[u]

\* A job whose fields change stays a job.
LEMMA JobType ==
  ASSUME NEW j \in Jobs, NEW s \in Snapshots, NEW then \in Continuations,
         NEW p \in Parameters, NEW r \in Nat, NEW b \in BOOLEAN
  PROVE  /\ [j EXCEPT !.held = s, !.then = then] \in Jobs
         /\ [j EXCEPT !.parameters = p, !.revision = r] \in Jobs
         /\ [j EXCEPT !.parameters = p, !.revision = r, !.manual = b] \in Jobs
         /\ [j EXCEPT !.manual = b] \in Jobs
<1>1. [j EXCEPT !.held = s, !.then = then] \in Jobs
  BY DEF Jobs, Continuations
<1>2. [j EXCEPT !.parameters = p, !.revision = r] \in Jobs
  BY DEF Jobs
<1>3. [j EXCEPT !.parameters = p, !.revision = r, !.manual = b] \in Jobs
  BY DEF Jobs
<1>4. [j EXCEPT !.manual = b] \in Jobs
  BY DEF Jobs
<1> QED
  BY <1>1, <1>2, <1>3, <1>4

\* A change keeps the snapshot to be stored and what the call computed with.
LEMMA ChangeKeeps ==
  ASSUME Typed, NEW t \in Threads, NEW s \in Snapshots,
         NEW then \in Continuations, Change(t, s, then)
  PROVE  /\ Typed' /\ OthersStay(t) /\ snap' = s /\ pc'[t] = "save"
         /\ job'[t].held = s /\ job'[t].then = then
         /\ job'[t].manual = job[t].manual
         /\ VersionOf(job'[t]) = VersionOf(job[t])
<1> DEFINE j == [job[t] EXCEPT !.held = s, !.then = then]
<1>1. job[t] \in Jobs
  BY DEF Typed
<1>2. j \in Jobs
  <2>1. DefaultParameters \in Parameters /\ 1 \in Nat /\ TRUE \in BOOLEAN
    BY ControlAssumption
  <2> QED
    BY <1>1, <2>1, JobType
<1>3. job' = [job EXCEPT ![t] = j]
  BY DEF Change, Typed
<1>4. /\ j.held = s /\ j.then = then /\ j.manual = job[t].manual
      /\ j.revision = job[t].revision /\ j.parameters = job[t].parameters
  BY <1>1 DEF Jobs
<1>5. snap' = s /\ pc' = [pc EXCEPT ![t] = "save"]
  BY DEF Change, Goto
<1> HIDE DEF j
<1>6. Typed' /\ job'[t] = j /\ pc'[t] = "save"
  BY <1>2, <1>3, <1>5 DEF Typed, Steps
<1>7. OthersStay(t)
  BY <1>3, <1>5 DEF Typed, OthersStay
<1> QED
  BY <1>4, <1>5, <1>6, <1>7 DEF VersionOf

\* A call that goes on keeps its locals; one that is over forgets them.
LEMMA LeaveKeeps ==
  ASSUME Typed, NEW t \in Threads, NEW step \in Continuations, Leave(t, step)
  PROVE  /\ Typed' /\ OthersStay(t) /\ pc'[t] = step
         /\ step = Home(t) \/ job'[t] = job[t]
<1>1. pc' = [pc EXCEPT ![t] = step]
  BY DEF Leave, Goto
<1>2. CASE step = Home(t)
  <2>1. job' = [job EXCEPT ![t] = NoJob] /\ NoJob \in Jobs
    BY <1>2, FreshTypes DEF Leave
  <2> QED
    BY <1>1, <1>2, <2>1 DEF Typed, OthersStay, Steps, Continuations
<1>3. CASE step # Home(t)
  <2>1. job' = job
    BY <1>3 DEF Leave
  <2> QED
    BY <1>1, <2>1 DEF Typed, OthersStay, Steps, Continuations
<1> QED
  BY <1>2, <1>3

\* A step of a thread that does not touch its locals.
LEMMA GotoKeeps ==
  ASSUME Typed, NEW t \in Threads, NEW step \in Steps, Goto(t, step), job' = job
  PROVE  Typed' /\ OthersStay(t) /\ pc'[t] = step
BY DEF Typed, OthersStay, Goto

\* A call that takes a configuration along computes with it from now on.
LEMMA TakeAlongKeeps ==
  ASSUME Typed, NEW t \in Threads, NEW h \in Hosts, NEW b \in BOOLEAN,
         Goto(t, "signal"),
         \/ job' = [job EXCEPT ![t].parameters = h.parameters,
                               ![t].revision = h.revision]
         \/ job' = [job EXCEPT ![t].parameters = h.parameters,
                               ![t].revision = h.revision, ![t].manual = b]
  PROVE  /\ Typed' /\ OthersStay(t) /\ pc'[t] = "signal"
         /\ VersionOf(job'[t]) = VersionOf(h)
<1>1. /\ h.parameters \in Parameters /\ h.revision \in Nat
      /\ job[t] \in Jobs /\ FreshSnapshot \in Snapshots /\ "idle" \in Continuations
  BY FreshTypes DEF Hosts, Typed, Continuations
<1> DEFINE j == [job[t] EXCEPT !.parameters = h.parameters, !.revision = h.revision]
           k == [job[t] EXCEPT !.parameters = h.parameters, !.revision = h.revision,
                               !.manual = b]
<1>2. j \in Jobs /\ k \in Jobs
  BY <1>1, JobType
<1>3. job' = [job EXCEPT ![t] = j] \/ job' = [job EXCEPT ![t] = k]
  BY DEF Typed
<1>4. /\ j.parameters = h.parameters /\ j.revision = h.revision
      /\ k.parameters = h.parameters /\ k.revision = h.revision
  BY <1>1 DEF Jobs
<1>5. pc' = [pc EXCEPT ![t] = "signal"]
  BY DEF Goto
<1> HIDE DEF j, k
<1>6. /\ Typed' /\ (job'[t] = j \/ job'[t] = k) /\ pc'[t] = "signal"
      /\ OthersStay(t)
  BY <1>2, <1>3, <1>5 DEF Typed, Steps, OthersStay
<1> QED
  BY <1>4, <1>6 DEF VersionOf

-----------------------------------------------------------------------------
(* Type correctness *)

LEMMA TypedByType == TypeOK => Typed
BY DEF TypeOK, Typed, Jobs, Steps

\* A step that changes calls and snapshot, and nothing with a bound.
LEMMA TypeKept ==
  ASSUME TypeOK, Typed', snap' \in Snapshots, stored' \in Snapshots \cup {NoSnapshot},
         host' \in Hosts, tick' \in 0..TotalTicks, crashes' \in 0..MaxCrashes,
         bought' \in Nat, versions' \subseteq Versions,
         begun' \in [revision : Nat, calm : BOOLEAN]
  PROVE  TypeOK'
BY DEF TypeOK, Typed, Jobs, Steps, Hosts

LEMMA StepKeepsType == TypeOK /\ [Next]_vars => TypeOK'
<1> SUFFICES ASSUME TypeOK, [Next]_vars
             PROVE  TypeOK'
  OBVIOUS
<1>t. /\ Typed /\ snap \in Snapshots /\ stored \in Snapshots \cup {NoSnapshot}
      /\ host \in Hosts /\ tick \in 0..TotalTicks /\ crashes \in 0..MaxCrashes
      /\ bought \in Nat /\ versions \subseteq Versions
      /\ begun \in [revision : Nat, calm : BOOLEAN]
  BY TypedByType DEF TypeOK, Hosts
<1>l. Loop \in Threads /\ Callers \subseteq Threads
  BY DEF Threads
<1>c. /\ \A c \in Continuations : c \in Steps
      /\ "idle" \in Continuations /\ "execute" \in Continuations
      /\ "note_order" \in Continuations /\ "decide" \in Continuations
      /\ "tick" \in Continuations /\ \A t \in Threads : Home(t) \in Continuations
  BY DEF Continuations, Steps, Home
<1>1. CASE Crash
  <2>1. snap' \in Snapshots
    BY <1>1, <1>t, FreshTypes DEF Crash
  <2>2. Typed'
    BY <1>1, FreshTypes DEF Crash, Typed, AtStart, Steps
  <2>3. versions' \subseteq Versions
    BY <1>1, <2>1, VersionType DEF Crash
  <2>4. crashes' \in 0..MaxCrashes /\ tick' \in 0..TotalTicks
    BY <1>1, <1>t, ControlAssumption DEF Crash
  <2>5. /\ host' \in Hosts /\ begun' \in [revision : Nat, calm : BOOLEAN]
        /\ UNCHANGED << stored, bought >>
    BY <1>1, FreshTypes DEF Crash
  <2> QED
    BY <1>t, <2>1, <2>2, <2>3, <2>4, <2>5, TypeKept
<1>2. CASE StartLoop
  <2>1. Typed'
    BY <1>2, <1>t, <1>l, <1>c, GotoKeeps DEF StartLoop
  <2>2. host' \in Hosts
    BY <1>2, <1>t DEF StartLoop, Hosts, Snapshots
  <2> QED
    BY <1>2, <1>t, <2>1, <2>2, TypeKept DEF StartLoop, history
<1>3. CASE BeginTick
  <2>1. Typed' /\ snap' \in Snapshots
    <3>1. CASE UNCHANGED << snap, job, pc >>
      BY <1>t, <3>1 DEF Typed
    <3>2. CASE Goto(Loop, "decide") /\ UNCHANGED << snap, job >>
      BY <1>t, <1>l, <1>c, <3>2, GotoKeeps
    <3>3. CASE Change(Loop, snap, "decide")
      BY <1>t, <1>l, <1>c, <3>3, ChangeKeeps
    <3> QED
      BY <1>3, <3>1, <3>2, <3>3 DEF BeginTick
  <2>2. tick' \in 0..TotalTicks
    BY <1>3, <1>t, ControlAssumption DEF BeginTick, TurnsLeft
  <2>3. begun' \in [revision : Nat, calm : BOOLEAN]
    BY <1>3, <1>t DEF BeginTick, Snapshots
  <2> QED
    BY <1>3, <1>t, <2>1, <2>2, <2>3, TypeKept DEF BeginTick
<1>4. CASE Decide
  <2> DEFINE h == Adopted(host, snap)
  <2>1. h \in Hosts
    BY <1>t, AdoptedType
  <2>2. /\ host' = [h EXCEPT !.sent = @ \/ CanExecute(snap)]
        /\ IF CanExecute(snap) /\ ~ h.sent
             THEN /\ job' = [job EXCEPT ![Loop].parameters = h.parameters,
                                        ![Loop].revision = h.revision]
                  /\ bought' = bought + 1
                  /\ Goto(Loop, "signal")
             ELSE Goto(Loop, "tick") /\ UNCHANGED << job, bought >>
        /\ UNCHANGED << snap, stored, tick, crashes, versions, begun >>
    BY <1>4 DEF Decide
  <2> HIDE DEF h
  <2>3. host' \in Hosts
    BY <2>1, <2>2 DEF Hosts, CanExecute
  <2>4. Typed'
    <3>1. CASE CanExecute(snap) /\ ~ h.sent
      BY <1>t, <1>l, <2>1, <2>2, <3>1, TakeAlongKeeps
    <3>2. CASE ~ (CanExecute(snap) /\ ~ h.sent)
      BY <1>t, <1>l, <1>c, <2>2, <3>2, GotoKeeps
    <3> QED
      BY <3>1, <3>2
  <2>5. bought' \in Nat
    BY <1>t, <2>2
  <2> QED
    BY <1>t, <2>2, <2>3, <2>4, <2>5, TypeKept
<1>5. ASSUME NEW t \in Callers, NEW p \in Parameters, Configure(t, p)
      PROVE  TypeOK'
  <2>1. Configured(snap, p) \in Snapshots
    BY <1>t, ConfiguredType
  <2>2. Typed' /\ snap' = Configured(snap, p)
    BY <1>5, <1>t, <1>l, <1>c, <2>1, ChangeKeeps DEF Configure
  <2>3. versions' \subseteq Versions
    BY <1>5, <1>t, <2>1, <2>2, VersionType DEF Configure
  <2> QED
    BY <1>5, <1>t, <2>1, <2>2, <2>3, TypeKept DEF Configure, loop
<1>6. ASSUME NEW t \in Callers, NEW s \in { "paused", "running", "stopped" },
             SetStatus(t, s)
      PROVE  TypeOK'
  <2>1. s \in Statuses
    BY DEF Statuses
  <2>2. [snap EXCEPT !.status = s] \in Snapshots
    BY <1>t, <2>1, StatusType
  <2>3. Typed' /\ snap' = [snap EXCEPT !.status = s]
    BY <1>6, <1>t, <1>l, <1>c, <2>2, ChangeKeeps DEF SetStatus
  <2>4. begun' \in [revision : Nat, calm : BOOLEAN]
    BY <1>6, <1>t DEF SetStatus
  <2> QED
    BY <1>6, <1>t, <2>2, <2>3, <2>4, TypeKept DEF SetStatus, loop
<1>7. ASSUME NEW t \in Callers, Trigger(t)
      PROVE  TypeOK'
  <2> DEFINE h == [parameters |-> snap.parameters, revision |-> snap.revision,
                   sent |-> FALSE]
  <2>1. h \in Hosts /\ h.parameters = snap.parameters /\ h.revision = snap.revision
    BY <1>t DEF Hosts, Snapshots
  <2> HIDE DEF h
  <2>2. Typed'
    BY <1>7, <1>t, <1>l, <2>1, TakeAlongKeeps DEF Trigger
  <2> QED
    BY <1>7, <1>t, <2>2, TypeKept DEF Trigger, loop, history
<1>8. ASSUME NEW t \in Callers, ManualOrder(t)
      PROVE  TypeOK'
  <2>1. [job[t] EXCEPT !.manual = TRUE] \in Jobs
    BY <1>t, <1>l DEF Typed, Jobs
  <2>2. Typed'
    BY <1>8, <1>t, <1>l, <2>1 DEF ManualOrder, Typed, Goto, Steps
  <2> QED
    BY <1>8, <1>t, <2>2, TypeKept DEF ManualOrder, loop, history
<1>9. ASSUME NEW t \in Callers, NoteFill(t)
      PROVE  TypeOK'
  <2>1. Typed' /\ snap' = snap
    BY <1>9, <1>t, <1>l, <1>c, ChangeKeeps DEF NoteFill
  <2> QED
    BY <1>9, <1>t, <2>1, TypeKept DEF NoteFill, loop, history
<1>10. ASSUME NEW t \in Threads, Save(t)
       PROVE  TypeOK'
  <2>1. job[t].then \in Continuations /\ job[t].held \in Snapshots
    BY <1>t DEF Typed, Jobs, Continuations
  <2>2. Typed'
    BY <1>10, <1>t, <2>1, LeaveKeeps DEF Save
  <2> QED
    BY <1>10, <1>t, <2>1, <2>2, TypeKept DEF Save, loop, history
<1>11. ASSUME NEW t \in Threads, NoteSignal(t)
       PROVE  TypeOK'
  <2>1. Typed' /\ snap' = snap
    BY <1>11, <1>t, <1>c, ChangeKeeps DEF NoteSignal
  <2> QED
    BY <1>11, <1>t, <2>1, TypeKept DEF NoteSignal, loop, history
<1>12. ASSUME NEW t \in Threads, Execute(t)
       PROVE  TypeOK'
  <2>1. Typed' /\ snap' = snap
    <3>1. CASE Leave(t, Home(t)) /\ UNCHANGED snap
      BY <1>t, <1>c, <3>1, LeaveKeeps
    <3>2. CASE Goto(t, "note_order") /\ UNCHANGED << snap, job >>
      BY <1>t, <1>c, <3>2, GotoKeeps
    <3>3. ASSUME NEW step \in { "note_order", Home(t) }, Change(t, snap, step)
          PROVE  Typed' /\ snap' = snap
      BY <1>t, <1>c, <3>3, ChangeKeeps
    <3> QED
      BY <1>12, <3>1, <3>2, <3>3 DEF Execute
  <2> QED
    BY <1>12, <1>t, <2>1, TypeKept DEF Execute, loop, history
<1>13. ASSUME NEW t \in Threads, NoteOrder(t)
       PROVE  TypeOK'
  <2>1. Typed' /\ snap' = snap
    BY <1>13, <1>t, <1>c, ChangeKeeps DEF NoteOrder
  <2> QED
    BY <1>13, <1>t, <2>1, TypeKept DEF NoteOrder, loop, history
<1>14. CASE UNCHANGED vars
  <2>1. Typed'
    BY <1>14, <1>t DEF vars, Typed
  <2> QED
    BY <1>14, <1>t, <2>1, TypeKept DEF vars
<1> QED
  BY <1>1, <1>2, <1>3, <1>4, <1>5, <1>6, <1>7, <1>8, <1>9, <1>10, <1>11, <1>12,
     <1>13, <1>14 DEF Next

\* Every clone of the snapshot, wherever it is kept, is a snapshot, and every
\* call's locals and the host have their types, for any number of handlers.
THEOREM ControlTypeCorrect == Spec => []TypeOK
<1>1. Init => TypeOK
  BY FreshTypes, VersionType, ControlAssumption
     DEF Init, TypeOK, AtStart, Jobs, Hosts, history
<1> QED
  BY <1>1, StepKeepsType, PTL DEF Spec

-----------------------------------------------------------------------------
(* Quiet steps: those that neither change the snapshot nor issue an intent *)

Quiet(t) ==
  /\ OthersStay(t)
  /\ pc[t] \notin { "boot", "tick" } /\ pc'[t] # "boot"
  /\ Issuing(t)' => Issuing(t) /\ VersionOf(job'[t]) = VersionOf(job[t])
  /\ pc'[t] = "save" => job'[t].held = snap
  /\ stored' = stored \/ (pc[t] = "save" /\ stored' = job[t].held)
  /\ UNCHANGED << snap, host, crashes, versions, bought, begun >>

LEMMA QuietChange ==
  ASSUME Typed, snap \in Snapshots, NEW t \in Threads, NEW then \in Continuations,
         Change(t, snap, then), then = "execute" => Issuing(t),
         pc[t] \notin { "boot", "tick" },
         UNCHANGED << stored, host, crashes, versions, bought, begun >>
  PROVE  Quiet(t)
<1>1. /\ OthersStay(t) /\ snap' = snap /\ pc'[t] = "save"
      /\ job'[t].held = snap /\ job'[t].then = then
      /\ VersionOf(job'[t]) = VersionOf(job[t])
  BY ChangeKeeps
<1>2. Issuing(t)' => Issuing(t) /\ VersionOf(job'[t]) = VersionOf(job[t])
  BY <1>1 DEF Issuing
<1>3. stored' = stored /\ UNCHANGED << snap, host, crashes, versions, bought, begun >>
  BY <1>1
<1> QED
  BY <1>1, <1>2, <1>3 DEF Quiet

LEMMA QuietLeave ==
  ASSUME Typed, NEW t \in Threads, NEW step \in Continuations, Leave(t, step),
         step = "execute" => Issuing(t),
         pc[t] \notin { "boot", "tick" },
         stored' = stored \/ (pc[t] = "save" /\ stored' = job[t].held),
         UNCHANGED << snap, host, crashes, versions, bought, begun >>
  PROVE  Quiet(t)
<1>1. /\ OthersStay(t) /\ pc'[t] = step
      /\ step = Home(t) \/ job'[t] = job[t]
  BY LeaveKeeps
<1>2. step \notin { "boot", "signal", "save" } /\ Home(t) # "execute"
  BY DEF Continuations, Home
<1>3. Issuing(t)' => Issuing(t) /\ VersionOf(job'[t]) = VersionOf(job[t])
  BY <1>1, <1>2 DEF Issuing
<1> QED
  BY <1>1, <1>2, <1>3 DEF Quiet

LEMMA QuietSteps ==
  ASSUME TypeOK, NEW t \in Threads,
         \/ Save(t) \/ NoteSignal(t) \/ Execute(t) \/ NoteOrder(t)
         \/ ManualOrder(t) \/ NoteFill(t)
  PROVE  Quiet(t)
<1>t. Typed /\ snap \in Snapshots
  BY TypedByType DEF TypeOK
<1>c. /\ "idle" \in Continuations /\ "execute" \in Continuations
      /\ "note_order" \in Continuations /\ Home(t) \in Continuations
      /\ Home(t) # "execute"
  BY DEF Continuations, Home
<1>1. CASE Save(t)
  <2>1. /\ job[t].then \in Continuations /\ pc[t] = "save"
        /\ job[t].then = "execute" => Issuing(t)
    BY <1>1, <1>t DEF Save, Typed, Jobs, Continuations, Issuing
  <2>2. /\ Leave(t, job[t].then) /\ stored' = job[t].held
        /\ UNCHANGED << snap, host, crashes, versions, bought, begun >>
    BY <1>1 DEF Save, loop, history
  <2> QED
    BY <1>t, <2>1, <2>2, QuietLeave
<1>2. CASE NoteSignal(t)
  <2>1. /\ Change(t, snap, "execute") /\ pc[t] = "signal"
        /\ UNCHANGED << stored, host, crashes, versions, bought, begun >>
    BY <1>2 DEF NoteSignal, loop, history
  <2>2. Issuing(t)
    BY <2>1 DEF Issuing
  <2> QED
    BY <1>t, <1>c, <2>1, <2>2, QuietChange
<1>3. CASE Execute(t)
  <2>1. /\ pc[t] = "execute"
        /\ UNCHANGED << stored, host, crashes, versions, bought, begun >>
        /\ \/ Leave(t, Home(t)) /\ UNCHANGED snap
           \/ Goto(t, "note_order") /\ UNCHANGED << snap, job >>
           \/ \E step \in { "note_order", Home(t) } : Change(t, snap, step)
    BY <1>3 DEF Execute, loop, history
  <2>2. CASE Leave(t, Home(t)) /\ UNCHANGED snap
    BY <1>t, <1>c, <2>1, <2>2, QuietLeave
  <2>3. CASE Goto(t, "note_order") /\ UNCHANGED << snap, job >>
    <3>1. OthersStay(t) /\ pc'[t] = "note_order"
      BY <1>t, <2>3, GotoKeeps DEF Steps
    <3>2. ~ Issuing(t)'
      BY <3>1 DEF Issuing
    <3> QED
      BY <2>1, <2>3, <3>1, <3>2 DEF Quiet
  <2>4. ASSUME NEW step \in { "note_order", Home(t) }, Change(t, snap, step)
        PROVE  Quiet(t)
    BY <1>t, <1>c, <2>1, <2>4, QuietChange
  <2> QED
    BY <2>1, <2>2, <2>3, <2>4
<1>4. CASE NoteOrder(t)
  <2>1. /\ Change(t, snap, Home(t)) /\ pc[t] = "note_order"
        /\ UNCHANGED << stored, host, crashes, versions, bought, begun >>
    BY <1>4 DEF NoteOrder, loop, history
  <2> QED
    BY <1>t, <1>c, <2>1, QuietChange
<1>5. CASE ManualOrder(t)
  <2>1. /\ job' = [job EXCEPT ![t].manual = TRUE] /\ pc' = [pc EXCEPT ![t] = "execute"]
        /\ pc[t] = "idle"
        /\ UNCHANGED << snap, stored, host, crashes, versions, bought, begun >>
    BY <1>5 DEF ManualOrder, Goto, loop, history
  <2>2. pc'[t] = "execute" /\ job'[t].manual
    BY <1>t, <2>1 DEF Typed, Jobs
  <2>3. OthersStay(t)
    BY <1>t, <2>1 DEF Typed, OthersStay
  <2>4. ~ Issuing(t)'
    BY <2>2 DEF Issuing
  <2> QED
    BY <2>1, <2>2, <2>3, <2>4 DEF Quiet
<1>6. CASE NoteFill(t)
  <2>1. /\ Change(t, snap, "idle") /\ pc[t] = "idle"
        /\ UNCHANGED << stored, host, crashes, versions, bought, begun >>
    BY <1>6 DEF NoteFill, loop, history
  <2> QED
    BY <1>t, <1>c, <2>1, QuietChange
<1> QED
  BY <1>1, <1>2, <1>3, <1>4, <1>5, <1>6

\* The steps that are not quiet.
LEMMA StepCases ==
  ASSUME TypeOK, Next
  PROVE  \/ Crash \/ StartLoop \/ BeginTick \/ Decide
         \/ \E t \in Callers, p \in Parameters : Configure(t, p)
         \/ \E t \in Callers, s \in { "paused", "running", "stopped" } : SetStatus(t, s)
         \/ \E t \in Callers : Trigger(t)
         \/ \E t \in Threads : Quiet(t)
<1>1. Callers \subseteq Threads
  BY DEF Threads
<1>2. ASSUME NEW t \in Threads,
             \/ Save(t) \/ NoteSignal(t) \/ Execute(t) \/ NoteOrder(t)
             \/ ManualOrder(t) \/ NoteFill(t)
      PROVE  \E u \in Threads : Quiet(u)
  BY <1>2, QuietSteps
<1> QED
  BY <1>1, <1>2 DEF Next

-----------------------------------------------------------------------------
(* A pause stops the next turn, and a turn uses a fresh configuration *)

\* What both properties need: a calm turn's strategy is not running now, and a
\* turn that has begun began with a revision that is not in the future.
TurnInv ==
  /\ PauseStopsNewIntents
  /\ FreshConfigurationUsed
  /\ begun.calm => snap.status # "running"
  /\ pc[Loop] \notin { "boot", "tick" } => begun.revision <= snap.revision

\* A step that leaves the loop where it is, or moves it quietly.
LEMMA TurnKept ==
  ASSUME TypeOK, TurnInv, snap' \in Snapshots,
         begun' \in [revision : Nat, calm : BOOLEAN],
         Issuing(Loop)' => Issuing(Loop) /\ job'[Loop].revision = job[Loop].revision,
         pc'[Loop] \notin { "boot", "tick" } => pc[Loop] \notin { "boot", "tick" },
         begun'.revision = begun.revision, begun'.calm => begun.calm,
         begun'.calm => snap'.status # "running", snap.revision <= snap'.revision
  PROVE  TurnInv'
<1>1. /\ snap.revision \in Nat /\ snap'.revision \in Nat
      /\ begun.revision \in Nat /\ begun'.revision \in Nat
  BY DEF TypeOK, Snapshots
<1>2. PauseStopsNewIntents'
  BY DEF TurnInv, PauseStopsNewIntents
<1>3. FreshConfigurationUsed'
  BY DEF TurnInv, FreshConfigurationUsed
<1>4. pc'[Loop] \notin { "boot", "tick" } => begun'.revision <= snap'.revision
  BY <1>1 DEF TurnInv
<1> QED
  BY <1>2, <1>3, <1>4 DEF TurnInv

LEMMA VersionFields ==
  ASSUME NEW a, NEW b, VersionOf(a) = VersionOf(b)
  PROVE  a.revision = b.revision /\ a.parameters = b.parameters
BY DEF VersionOf

LEMMA StepKeepsTurn == TypeOK /\ TypeOK' /\ TurnInv /\ [Next]_vars => TurnInv'
<1> SUFFICES ASSUME TypeOK, TypeOK', TurnInv, [Next]_vars
             PROVE  TurnInv'
  OBVIOUS
<1>t. /\ Typed /\ snap \in Snapshots /\ snap' \in Snapshots /\ host \in Hosts
      /\ begun \in [revision : Nat, calm : BOOLEAN]
      /\ begun' \in [revision : Nat, calm : BOOLEAN]
      /\ snap.revision \in Nat
  BY TypedByType DEF TypeOK, Hosts, Snapshots
<1>l. Loop \in Threads /\ Callers \subseteq Threads /\ Loop \notin Callers
  BY ControlAssumption DEF Threads
<1>c. \A c \in Continuations : c \in Steps
  BY DEF Continuations, Steps
<1>1. CASE Crash
  <2>1. pc'[Loop] = "boot" /\ ~ begun'.calm
    BY <1>1, <1>l DEF Crash, AtStart
  <2> QED
    BY <2>1 DEF TurnInv, PauseStopsNewIntents, FreshConfigurationUsed, Issuing
<1>2. CASE StartLoop
  <2>1. pc'[Loop] = "tick" /\ begun' = begun /\ snap' = snap
    BY <1>2, <1>t, <1>l DEF StartLoop, Goto, Typed, history
  <2> QED
    BY <2>1 DEF TurnInv, PauseStopsNewIntents, FreshConfigurationUsed, Issuing
<1>3. CASE BeginTick
  <2>1. /\ begun' = [revision |-> snap.revision, calm |-> snap.status # "running"]
        /\ pc[Loop] = "tick"
        /\ \/ UNCHANGED << snap, job, pc >>
           \/ Goto(Loop, "decide") /\ UNCHANGED << snap, job >>
           \/ Change(Loop, snap, "decide")
    BY <1>3 DEF BeginTick
  <2>2. snap' = snap /\ ~ Issuing(Loop)'
    <3>1. CASE UNCHANGED << snap, job, pc >>
      BY <2>1, <3>1 DEF Issuing
    <3>2. CASE Goto(Loop, "decide") /\ UNCHANGED << snap, job >>
      <4>1. pc'[Loop] = "decide"
        BY <1>t, <1>l, <3>2 DEF Goto, Typed
      <4> QED
        BY <3>2, <4>1 DEF Issuing
    <3>3. CASE Change(Loop, snap, "decide")
      <4>1. pc'[Loop] = "save" /\ job'[Loop].then = "decide" /\ snap' = snap
        BY <1>t, <1>l, <3>3, ChangeKeeps DEF Continuations
      <4> QED
        BY <4>1 DEF Issuing
    <3> QED
      BY <2>1, <3>1, <3>2, <3>3
  <2>3. /\ begun'.revision = snap'.revision /\ snap'.revision <= snap'.revision
        /\ begun'.calm => snap'.status # "running"
    <3>1. begun'.revision = snap.revision
      BY <2>1
    <3>2. begun'.calm = (snap.status # "running")
      BY <2>1, Zenon
    <3>3. snap.revision <= snap.revision
      BY <1>t
    <3> QED
      BY <2>2, <3>1, <3>2, <3>3
  <2> QED
    BY <2>2, <2>3 DEF TurnInv, PauseStopsNewIntents, FreshConfigurationUsed
<1>4. CASE Decide
  <2> DEFINE h == Adopted(host, snap)
  <2>1. h \in Hosts /\ h.revision = snap.revision
    BY <1>t, AdoptedType
  <2>2. /\ IF CanExecute(snap) /\ ~ h.sent
             THEN /\ job' = [job EXCEPT ![Loop].parameters = h.parameters,
                                        ![Loop].revision = h.revision]
                  /\ Goto(Loop, "signal")
             ELSE Goto(Loop, "tick") /\ UNCHANGED job
        /\ snap' = snap /\ begun' = begun /\ pc[Loop] = "decide"
    BY <1>4 DEF Decide
  <2> HIDE DEF h
  <2>3. CASE CanExecute(snap) /\ ~ h.sent
    <3>1. pc'[Loop] = "signal" /\ VersionOf(job'[Loop]) = VersionOf(h)
      BY <1>t, <1>l, <2>1, <2>2, <2>3, TakeAlongKeeps
    <3>2. job'[Loop].revision = snap.revision
      BY <2>1, <3>1, VersionFields
    <3>3. ~ begun.calm /\ begun.revision <= snap.revision
      BY <2>2, <2>3 DEF TurnInv, CanExecute
    <3> QED
      BY <1>t, <2>2, <3>1, <3>2, <3>3 DEF TurnInv, PauseStopsNewIntents, FreshConfigurationUsed
  <2>4. CASE ~ (CanExecute(snap) /\ ~ h.sent)
    <3>1. pc'[Loop] = "tick"
      BY <1>t, <1>l, <2>2, <2>4 DEF Goto, Typed
    <3> QED
      BY <2>2, <3>1 DEF TurnInv, PauseStopsNewIntents, FreshConfigurationUsed, Issuing
  <2> QED
    BY <2>3, <2>4
<1>5. ASSUME NEW t \in Callers, OthersStay(t), begun'.revision = begun.revision,
             begun'.calm => begun.calm, begun'.calm => snap'.status # "running",
             snap.revision <= snap'.revision
      PROVE  TurnInv'
  <2>1. pc'[Loop] = pc[Loop] /\ job'[Loop] = job[Loop]
    BY <1>5, <1>l DEF OthersStay
  <2> QED
    BY <1>5, <1>t, <2>1, TurnKept DEF Issuing
<1>6. ASSUME NEW t \in Callers, NEW p \in Parameters, Configure(t, p)
      PROVE  TurnInv'
  <2>1. Configured(snap, p) \in Snapshots
    BY <1>t, ConfiguredType
  <2>2. OthersStay(t) /\ snap' = Configured(snap, p) /\ begun' = begun
    BY <1>6, <1>t, <1>l, <2>1, ChangeKeeps DEF Configure, Continuations
  <2>3. snap.revision <= snap'.revision /\ snap'.status = snap.status
    BY <1>t, <2>2, ConfiguredType
  <2> QED
    BY <1>5, <2>2, <2>3 DEF TurnInv
<1>7. ASSUME NEW t \in Callers, NEW s \in { "paused", "running", "stopped" },
             SetStatus(t, s)
      PROVE  TurnInv'
  <2>1. /\ [snap EXCEPT !.status = s] \in Snapshots
        /\ [snap EXCEPT !.status = s].status = s
        /\ [snap EXCEPT !.status = s].revision = snap.revision
    <3>1. s \in Statuses
      BY DEF Statuses
    <3> QED
      BY <1>t, <3>1, StatusType
  <2>2. OthersStay(t) /\ snap' = [snap EXCEPT !.status = s]
    BY <1>7, <1>t, <1>l, <2>1, ChangeKeeps DEF SetStatus, Continuations
  <2>3. begun'.revision = begun.revision /\ (begun'.calm <=> begun.calm /\ s # "running")
    BY <1>7, <1>t DEF SetStatus
  <2> QED
    BY <1>5, <1>t, <2>1, <2>2, <2>3
<1>8. ASSUME NEW t \in Callers, Trigger(t)
      PROVE  TurnInv'
  <2>1. OthersStay(t)
    BY <1>8, <1>t, <1>l DEF Trigger, Goto, Typed, OthersStay
  <2>2. begun' = begun /\ snap' = snap
    BY <1>8 DEF Trigger, history
  <2> QED
    BY <1>5, <1>t, <2>1, <2>2 DEF TurnInv
<1>9. ASSUME NEW t \in Threads, Quiet(t)
      PROVE  TurnInv'
  <2>1. begun' = begun /\ snap' = snap /\ OthersStay(t)
    BY <1>9 DEF Quiet
  <2>2. CASE t = Loop
    <3>1. /\ Issuing(Loop)' => Issuing(Loop) /\ VersionOf(job'[Loop]) = VersionOf(job[Loop])
          /\ pc[Loop] \notin { "boot", "tick" }
      BY <1>9, <2>2 DEF Quiet
    <3> QED
      BY <1>t, <2>1, <3>1, VersionFields, TurnKept DEF TurnInv
  <2>3. CASE t # Loop
    BY <1>5, <1>t, <1>l, <2>1, <2>3 DEF TurnInv, Threads
  <2> QED
    BY <2>2, <2>3
<1>10. CASE UNCHANGED vars
  BY <1>10 DEF vars, history, TurnInv, PauseStopsNewIntents, FreshConfigurationUsed, Issuing
<1> QED
  BY <1>1, <1>2, <1>3, <1>4, <1>6, <1>7, <1>8, <1>9, <1>10, StepCases

LEMMA TurnInvariant == Spec => []TurnInv
<1>1. Init => TypeOK /\ TurnInv
  BY FreshTypes, VersionType, ControlAssumption
     DEF Init, TypeOK, AtStart, Jobs, Hosts, history, TurnInv, PauseStopsNewIntents,
         FreshConfigurationUsed, Issuing, Threads
<1>2. TypeOK /\ TurnInv /\ [Next]_vars => (TypeOK /\ TurnInv)'
  BY StepKeepsType, StepKeepsTurn
<1> QED
  BY <1>1, <1>2, PTL DEF Spec

\* A strategy that was paused or stopped before a turn began, and stayed so,
\* issues no intent in it, however its handlers interleave with the turn.
THEOREM PauseAlwaysStops == Spec => []PauseStopsNewIntents
<1>1. TurnInv => PauseStopsNewIntents
  BY DEF TurnInv
<1> QED
  BY <1>1, TurnInvariant, PTL

\* No intent is computed with a configuration older than its turn.
THEOREM ConfigurationAlwaysFresh == Spec => []FreshConfigurationUsed
<1>1. TurnInv => FreshConfigurationUsed
  BY DEF TurnInv
<1> QED
  BY <1>1, TurnInvariant, PTL

-----------------------------------------------------------------------------
(* The strategy buys once in a life *)

\* Of the lives there have been, each has bought at most once, and this one
\* only if its host has sent; a host is not asked before the loop starts.
OnceInv ==
  /\ bought <= crashes + (IF host.sent THEN 1 ELSE 0)
  /\ pc[Loop] = "boot" => ~ host.sent

\* A step that neither buys nor touches the host.
LEMMA OnceKept ==
  ASSUME OnceInv, UNCHANGED << host, crashes, bought >>,
         pc'[Loop] = "boot" => pc[Loop] = "boot"
  PROVE  OnceInv'
BY DEF OnceInv

LEMMA StepKeepsOnce == TypeOK /\ OnceInv /\ [Next]_vars => OnceInv'
<1> SUFFICES ASSUME TypeOK, OnceInv, [Next]_vars
             PROVE  OnceInv'
  OBVIOUS
<1>t. /\ Typed /\ snap \in Snapshots /\ host \in Hosts
      /\ bought \in Nat /\ crashes \in Nat
  BY TypedByType, ControlAssumption DEF TypeOK, Hosts
<1>l. Loop \in Threads /\ Callers \subseteq Threads /\ Loop \notin Callers
  BY ControlAssumption DEF Threads
<1>1. CASE Crash
  <2>1. host' = NoHost /\ crashes' = crashes + 1 /\ bought' = bought
    BY <1>1 DEF Crash
  <2>2. bought <= crashes + 1
    BY <1>t DEF OnceInv
  <2> QED
    BY <1>t, <2>1, <2>2 DEF OnceInv, NoHost
<1>2. CASE StartLoop
  <2>1. /\ pc'[Loop] = "tick" /\ bought' = bought /\ crashes' = crashes
        /\ ~ host'.sent /\ pc[Loop] = "boot"
    BY <1>2, <1>t, <1>l DEF StartLoop, Goto, Typed, history
  <2> QED
    BY <1>t, <2>1 DEF OnceInv
<1>3. CASE BeginTick
  <2>1. UNCHANGED << host, crashes, bought >>
    BY <1>3 DEF BeginTick
  <2>2. pc'[Loop] # "boot"
    <3>1. /\ pc[Loop] = "tick"
          /\ \/ UNCHANGED << snap, job, pc >>
             \/ Goto(Loop, "decide") /\ UNCHANGED << snap, job >>
             \/ Change(Loop, snap, "decide")
      BY <1>3 DEF BeginTick
    <3> QED
      BY <1>t, <1>l, <3>1 DEF Change, Goto, Typed
  <2> QED
    BY <2>1, <2>2, OnceKept
<1>4. CASE Decide
  <2> DEFINE h == Adopted(host, snap)
  <2>1. h \in Hosts /\ h.sent = host.sent
    BY <1>t, AdoptedType
  <2>2. /\ host' = [h EXCEPT !.sent = @ \/ CanExecute(snap)]
        /\ IF CanExecute(snap) /\ ~ h.sent
             THEN bought' = bought + 1 /\ Goto(Loop, "signal")
             ELSE Goto(Loop, "tick") /\ bought' = bought
        /\ crashes' = crashes
    BY <1>4 DEF Decide
  <2> HIDE DEF h
  <2>3. host'.sent <=> h.sent \/ CanExecute(snap)
    BY <2>1, <2>2 DEF Hosts
  <2>4. pc'[Loop] # "boot"
    BY <1>t, <1>l, <2>2 DEF Goto, Typed
  <2>5. bought' <= crashes' + (IF host'.sent THEN 1 ELSE 0)
    <3>1. CASE CanExecute(snap) /\ ~ h.sent
      <4>1. bought <= crashes /\ bought' = bought + 1 /\ crashes' = crashes /\ host'.sent
        BY <1>t, <2>1, <2>2, <2>3, <3>1 DEF OnceInv
      <4> QED
        BY <1>t, <4>1
    <3>2. CASE ~ (CanExecute(snap) /\ ~ h.sent)
      <4>1. /\ bought' = bought /\ crashes' = crashes
            /\ host.sent => host'.sent
        BY <2>1, <2>2, <2>3, <3>2
      <4> QED
        BY <1>t, <4>1 DEF OnceInv
    <3> QED
      BY <3>1, <3>2
  <2> QED
    BY <2>4, <2>5 DEF OnceInv
<1>5. ASSUME NEW t \in Callers, NEW p \in Parameters, Configure(t, p)
      PROVE  OnceInv'
  <2>1. UNCHANGED << host, crashes, bought >> /\ pc'[Loop] = pc[Loop]
    BY <1>5, <1>t, <1>l DEF Configure, Change, Goto, loop, Typed
  <2> QED
    BY <2>1, OnceKept
<1>6. ASSUME NEW t \in Callers, NEW s \in { "paused", "running", "stopped" },
             SetStatus(t, s)
      PROVE  OnceInv'
  <2>1. UNCHANGED << host, crashes, bought >> /\ pc'[Loop] = pc[Loop]
    BY <1>6, <1>t, <1>l DEF SetStatus, Change, Goto, loop, Typed
  <2> QED
    BY <2>1, OnceKept
<1>7. ASSUME NEW t \in Callers, Trigger(t)
      PROVE  OnceInv'
  <2>1. UNCHANGED << host, crashes, bought >> /\ pc'[Loop] = pc[Loop]
    BY <1>7, <1>t, <1>l DEF Trigger, Goto, loop, history, Typed
  <2> QED
    BY <2>1, OnceKept
<1>8. ASSUME NEW t \in Threads, Quiet(t)
      PROVE  OnceInv'
  <2>1. UNCHANGED << host, crashes, bought >>
    BY <1>8 DEF Quiet
  <2>2. pc'[Loop] = "boot" => pc[Loop] = "boot"
    BY <1>8, <1>l DEF Quiet, OthersStay
  <2> QED
    BY <2>1, <2>2, OnceKept
<1>9. CASE UNCHANGED vars
  BY <1>9 DEF vars, OnceInv
<1> QED
  BY <1>1, <1>2, <1>3, <1>4, <1>5, <1>6, <1>7, <1>8, <1>9, StepCases

\* The one-shot strategy issues at most one intent in each life of the process,
\* whatever is configured, paused and resumed in between.
THEOREM OneShotAlwaysBuysOnce == Spec => []OneShotBuysOnce
<1>1. Init => TypeOK /\ OnceInv
  BY FreshTypes, VersionType, ControlAssumption
     DEF Init, TypeOK, AtStart, Jobs, Hosts, history, OnceInv, NoHost
<1>2. TypeOK /\ OnceInv /\ [Next]_vars => (TypeOK /\ OnceInv)'
  BY StepKeepsType, StepKeepsOnce
<1>3. TypeOK /\ OnceInv => OneShotBuysOnce
  BY ControlAssumption DEF TypeOK, OnceInv, OneShotBuysOnce
<1> QED
  BY <1>1, <1>2, <1>3, PTL DEF Spec

-----------------------------------------------------------------------------
(* A revision names one configuration *)

\* The newest configuration is the snapshot's.
NamesInv ==
  /\ RevisionNamesConfiguration
  /\ \A v \in versions : v.revision <= snap.revision

\* What a call stores and what it computed with are configurations of this life.
CallNamed(t) ==
  /\ pc[t] = "save" => VersionOf(job[t].held) \in versions
  /\ Issuing(t) => VersionOf(job[t]) \in versions

\* The calls are named after a step of a thread if that thread's is.
LEMMA CallsKept ==
  ASSUME NEW t \in Threads, OthersStay(t), versions \subseteq versions',
         \A u \in Threads : CallNamed(u), CallNamed(t)'
  PROVE  \A u \in Threads : CallNamed(u)'
<1>1. ASSUME NEW u \in Threads, u # t
      PROVE  CallNamed(u)'
  <2>1. pc'[u] = pc[u] /\ job'[u] = job[u]
    BY <1>1 DEF OthersStay
  <2>2. CallNamed(u)
    OBVIOUS
  <2> QED
    BY <2>1, <2>2 DEF CallNamed, Issuing
<1> QED
  BY <1>1

LEMMA NamesByParts ==
  NamesInv <=> /\ \A v, w \in versions : v.revision = w.revision => v = w
               /\ VersionOf(snap) \in versions
               /\ stored # NoSnapshot => VersionOf(stored) \in versions
               /\ pc[Loop] # "boot" => VersionOf(host) \in versions
               /\ \A t \in Threads : CallNamed(t)
               /\ \A v \in versions : v.revision <= snap.revision
BY DEF NamesInv, RevisionNamesConfiguration, CallNamed

\* A step that adds no configuration.
LEMMA NamesKept ==
  ASSUME NamesInv, NEW t \in Threads, OthersStay(t), CallNamed(t)',
         versions' = versions, VersionOf(snap') = VersionOf(snap),
         stored' = stored \/ VersionOf(stored') \in versions,
         pc'[Loop] # "boot" => VersionOf(host') \in versions
  PROVE  NamesInv'
<1>1. \A u \in Threads : CallNamed(u)
  BY NamesByParts
<1>2. \A u \in Threads : CallNamed(u)'
  BY <1>1, CallsKept
<1>3. snap'.revision = snap.revision
  BY VersionFields
<1> QED
  BY <1>2, <1>3, NamesByParts DEF NamesInv, RevisionNamesConfiguration, CallNamed

LEMMA StepKeepsNames == TypeOK /\ TypeOK' /\ NamesInv /\ [Next]_vars => NamesInv'
<1> SUFFICES ASSUME TypeOK, TypeOK', NamesInv, [Next]_vars
             PROVE  NamesInv'
  OBVIOUS
<1>t. /\ Typed /\ snap \in Snapshots /\ snap' \in Snapshots /\ host \in Hosts
      /\ stored \in Snapshots \cup {NoSnapshot} /\ versions \subseteq Versions
      /\ snap.revision \in Nat
  BY TypedByType DEF TypeOK, Hosts, Snapshots
<1>l. Loop \in Threads /\ Callers \subseteq Threads /\ Loop \notin Callers
  BY ControlAssumption DEF Threads
<1>c. Continuations \subseteq Steps /\ "idle" \in Continuations /\ "decide" \in Continuations
  BY DEF Continuations, Steps
<1>n. /\ \A v, w \in versions : v.revision = w.revision => v = w
      /\ VersionOf(snap) \in versions
      /\ stored # NoSnapshot => VersionOf(stored) \in versions
      /\ pc[Loop] # "boot" => VersionOf(host) \in versions
      /\ \A t \in Threads : CallNamed(t)
      /\ \A v \in versions : v.revision <= snap.revision
  BY NamesByParts
<1>1. CASE Crash
  <2>1. /\ versions' = { VersionOf(snap') } /\ stored' = stored
        /\ pc' = AtStart /\ (snap' = stored \/ stored = NoSnapshot)
    BY <1>1 DEF Crash
  <2>2. pc'[Loop] = "boot" /\ \A t \in Threads : pc'[t] \in { "boot", "idle" }
    BY <1>l, <2>1 DEF AtStart
  <2>3. \A t \in Threads : CallNamed(t)'
    BY <2>2 DEF CallNamed, Issuing
  <2>4. \A v \in versions' : v.revision <= snap'.revision
    <3>1. VersionOf(snap').revision = snap'.revision /\ snap'.revision \in Nat
      BY <1>t DEF VersionOf, Snapshots
    <3> QED
      BY <2>1, <3>1
  <2>5. stored' # NoSnapshot => VersionOf(stored') \in versions'
    BY <2>1
  <2>6. RevisionNamesConfiguration'
    BY <2>1, <2>2, <2>3, <2>5 DEF RevisionNamesConfiguration, CallNamed
  <2> QED
    BY <2>4, <2>6 DEF NamesInv
<1>2. CASE StartLoop
  <2>1. /\ Goto(Loop, "tick") /\ UNCHANGED << snap, stored, job, versions >>
        /\ host' = [parameters |-> snap.parameters, revision |-> snap.revision,
                    sent |-> FALSE]
    BY <1>2 DEF StartLoop, history
  <2>2. OthersStay(Loop) /\ pc'[Loop] = "tick"
    BY <1>t, <1>l, <2>1, GotoKeeps DEF Steps
  <2>3. CallNamed(Loop)'
    BY <2>2 DEF CallNamed, Issuing
  <2>4. VersionOf(host') = VersionOf(snap)
    BY <2>1 DEF VersionOf
  <2> QED
    BY <1>l, <1>n, <2>1, <2>2, <2>3, <2>4, NamesKept
<1>3. CASE BeginTick
  <2>1. /\ UNCHANGED << stored, host, versions >> /\ pc[Loop] = "tick"
        /\ \/ UNCHANGED << snap, job, pc >>
           \/ Goto(Loop, "decide") /\ UNCHANGED << snap, job >>
           \/ Change(Loop, snap, "decide")
    BY <1>3 DEF BeginTick
  <2>2. OthersStay(Loop) /\ snap' = snap /\ CallNamed(Loop)'
    <3>1. CASE UNCHANGED << snap, job, pc >>
      BY <1>l, <1>n, <2>1, <3>1 DEF CallNamed, Issuing, OthersStay
    <3>2. CASE Goto(Loop, "decide") /\ UNCHANGED << snap, job >>
      <4>1. OthersStay(Loop) /\ pc'[Loop] = "decide"
        BY <1>t, <1>l, <3>2, GotoKeeps DEF Steps
      <4> QED
        BY <3>2, <4>1 DEF CallNamed, Issuing
    <3>3. CASE Change(Loop, snap, "decide")
      <4>1. /\ OthersStay(Loop) /\ snap' = snap /\ pc'[Loop] = "save"
            /\ job'[Loop].held = snap /\ job'[Loop].then = "decide"
        BY <1>t, <1>l, <1>c, <3>3, ChangeKeeps
      <4> QED
        BY <1>n, <2>1, <4>1 DEF CallNamed, Issuing
    <3> QED
      BY <2>1, <3>1, <3>2, <3>3
  <2> QED
    BY <1>l, <1>n, <2>1, <2>2, NamesKept
<1>4. CASE Decide
  <2> DEFINE h == Adopted(host, snap)
  <2>1. h \in Hosts /\ VersionOf(h) \in { VersionOf(host), VersionOf(snap) }
    BY <1>t, AdoptedType
  <2>2. /\ host' = [h EXCEPT !.sent = @ \/ CanExecute(snap)]
        /\ IF CanExecute(snap) /\ ~ h.sent
             THEN /\ job' = [job EXCEPT ![Loop].parameters = h.parameters,
                                        ![Loop].revision = h.revision]
                  /\ Goto(Loop, "signal")
             ELSE Goto(Loop, "tick") /\ UNCHANGED job
        /\ UNCHANGED << snap, stored, versions >> /\ pc[Loop] = "decide"
    BY <1>4 DEF Decide
  <2> HIDE DEF h
  <2>3. VersionOf(host') = VersionOf(h)
    BY <2>1, <2>2 DEF VersionOf, Hosts
  <2>4. VersionOf(h) \in versions
    BY <1>n, <2>1, <2>2
  <2>5. OthersStay(Loop) /\ CallNamed(Loop)'
    <3>1. CASE CanExecute(snap) /\ ~ h.sent
      <4>1. /\ OthersStay(Loop) /\ pc'[Loop] = "signal"
            /\ VersionOf(job'[Loop]) = VersionOf(h)
        BY <1>t, <1>l, <2>1, <2>2, <3>1, TakeAlongKeeps
      <4> QED
        BY <2>2, <2>4, <4>1 DEF CallNamed
    <3>2. CASE ~ (CanExecute(snap) /\ ~ h.sent)
      <4>1. OthersStay(Loop) /\ pc'[Loop] = "tick"
        BY <1>t, <1>l, <2>2, <3>2, GotoKeeps DEF Steps
      <4> QED
        BY <4>1 DEF CallNamed, Issuing
    <3> QED
      BY <3>1, <3>2
  <2> QED
    BY <1>l, <2>2, <2>3, <2>4, <2>5, NamesKept
<1>5. ASSUME NEW t \in Callers, NEW p \in Parameters, Configure(t, p)
      PROVE  NamesInv'
  <2>1. /\ Configured(snap, p) \in Snapshots
        /\ Configured(snap, p).revision = snap.revision + 1
    BY <1>t, ConfiguredType
  <2>2. /\ Change(t, Configured(snap, p), "idle")
        /\ versions' = versions \cup { VersionOf(snap') }
        /\ UNCHANGED << stored, host >>
    BY <1>5 DEF Configure, loop
  <2>3. /\ OthersStay(t) /\ snap' = Configured(snap, p) /\ pc'[t] = "save"
        /\ job'[t].held = snap' /\ job'[t].then = "idle"
    BY <1>t, <1>l, <1>c, <2>1, <2>2, ChangeKeeps
  <2>4. \A u \in Threads : CallNamed(u)'
    <3>1. CallNamed(t)'
      BY <2>2, <2>3 DEF CallNamed, Issuing
    <3> QED
      BY <1>l, <1>n, <2>2, <2>3, <3>1, CallsKept
  <2>5. VersionOf(snap').revision = snap.revision + 1 /\ snap'.revision = snap.revision + 1
    BY <2>1, <2>3 DEF VersionOf
  <2>6. \A v \in versions' : v.revision <= snap'.revision
    <3>1. \A v \in versions : v.revision \in Nat
      BY <1>t DEF Versions
    <3> QED
      BY <1>t, <1>n, <2>2, <2>5, <3>1
  <2>7. \A v, w \in versions' : v.revision = w.revision => v = w
    <3>1. \A v \in versions : v.revision # snap.revision + 1
      <4>1. \A v \in versions : v.revision \in Nat /\ v.revision <= snap.revision
        BY <1>t, <1>n DEF Versions
      <4> QED
        BY <1>t, <4>1
    <3> QED
      BY <1>n, <2>2, <2>5, <3>1
  <2>8. pc'[Loop] = pc[Loop]
    BY <1>l, <2>3 DEF OthersStay
  <2>9. RevisionNamesConfiguration'
    BY <1>n, <2>2, <2>4, <2>7, <2>8 DEF RevisionNamesConfiguration, CallNamed
  <2> QED
    BY <2>6, <2>9 DEF NamesInv
<1>6. ASSUME NEW t \in Callers, NEW s \in { "paused", "running", "stopped" },
             SetStatus(t, s)
      PROVE  NamesInv'
  <2> DEFINE n == [snap EXCEPT !.status = s]
  <2>1. n \in Snapshots /\ VersionOf(n) = VersionOf(snap)
    <3>1. s \in Statuses
      BY DEF Statuses
    <3> QED
      BY <1>t, <3>1, StatusType
  <2>2. Change(t, n, "idle") /\ UNCHANGED << stored, host, versions >>
    BY <1>6 DEF SetStatus, loop
  <2> HIDE DEF n
  <2>3. /\ OthersStay(t) /\ snap' = n /\ pc'[t] = "save"
        /\ job'[t].held = n /\ job'[t].then = "idle"
    BY <1>t, <1>l, <1>c, <2>1, <2>2, ChangeKeeps
  <2>4. CallNamed(t)'
    BY <1>n, <2>1, <2>2, <2>3 DEF CallNamed, Issuing
  <2>5. pc'[Loop] = pc[Loop]
    BY <1>l, <2>3 DEF OthersStay
  <2> QED
    BY <1>l, <1>n, <2>1, <2>2, <2>3, <2>4, <2>5, NamesKept
<1>7. ASSUME NEW t \in Callers, Trigger(t)
      PROVE  NamesInv'
  <2> DEFINE h == [parameters |-> snap.parameters, revision |-> snap.revision,
                   sent |-> FALSE]
  <2>1. /\ h \in Hosts /\ h.parameters = snap.parameters
        /\ h.revision = snap.revision /\ VersionOf(h) = VersionOf(snap)
    BY <1>t DEF Hosts, Snapshots, VersionOf
  <2> HIDE DEF h
  <2>2. /\ Goto(t, "signal") /\ UNCHANGED << snap, stored, host, versions >>
        /\ job' = [job EXCEPT ![t].parameters = h.parameters,
                              ![t].revision = h.revision, ![t].manual = FALSE]
    BY <1>7, <2>1 DEF Trigger, loop, history
  <2>3. /\ OthersStay(t) /\ pc'[t] = "signal" /\ VersionOf(job'[t]) = VersionOf(h)
    BY <1>t, <1>l, <2>1, <2>2, TakeAlongKeeps
  <2>4. CallNamed(t)'
    BY <1>n, <2>1, <2>2, <2>3 DEF CallNamed
  <2>5. pc'[Loop] = pc[Loop]
    BY <1>l, <2>3 DEF OthersStay
  <2> QED
    BY <1>l, <1>n, <2>2, <2>3, <2>4, <2>5, NamesKept
<1>8. ASSUME NEW t \in Threads, Quiet(t)
      PROVE  NamesInv'
  <2>1. /\ OthersStay(t) /\ UNCHANGED << snap, host, versions >>
        /\ pc[t] # "boot"
        /\ stored' = stored \/ (pc[t] = "save" /\ stored' = job[t].held)
        /\ pc'[t] = "save" => job'[t].held = snap
        /\ Issuing(t)' => Issuing(t) /\ VersionOf(job'[t]) = VersionOf(job[t])
    BY <1>8 DEF Quiet
  <2>2. CallNamed(t)' /\ (stored' = stored \/ VersionOf(stored') \in versions)
    BY <1>n, <2>1 DEF CallNamed
  <2>3. pc'[Loop] # "boot" => VersionOf(host') \in versions
    BY <1>l, <1>n, <2>1 DEF OthersStay
  <2> QED
    BY <2>1, <2>2, <2>3, NamesKept
<1>9. CASE UNCHANGED vars
  BY <1>9 DEF vars, history, loop, NamesInv, RevisionNamesConfiguration, Issuing
<1> QED
  BY <1>1, <1>2, <1>3, <1>4, <1>5, <1>6, <1>7, <1>8, <1>9, StepCases

\* Within one life a revision names one configuration, and every copy of the
\* snapshot, in memory, in the store, in a call or in the host, holds with its
\* revision the parameters it names.
THEOREM RevisionAlwaysNames == Spec => []RevisionNamesConfiguration
<1>1. Init => TypeOK /\ NamesInv
  <2> SUFFICES ASSUME Init
               PROVE  TypeOK /\ NamesInv
    OBVIOUS
  <2>1. TypeOK
    BY FreshTypes, VersionType, ControlAssumption
       DEF Init, TypeOK, AtStart, Jobs, Hosts, history
  <2>2. /\ pc[Loop] = "boot" /\ \A t \in Threads : pc[t] \in { "boot", "idle" }
        /\ snap = FreshSnapshot /\ stored = NoSnapshot
        /\ versions = { VersionOf(FreshSnapshot) }
    BY DEF Init, AtStart, Threads
  <2>3. RevisionNamesConfiguration
    BY <2>2 DEF RevisionNamesConfiguration, Issuing
  <2>4. VersionOf(FreshSnapshot).revision <= FreshSnapshot.revision
    BY DEF VersionOf, FreshSnapshot
  <2> QED
    BY <2>1, <2>2, <2>3, <2>4 DEF NamesInv
<1>2. TypeOK /\ NamesInv /\ [Next]_vars => (TypeOK /\ NamesInv)'
  BY StepKeepsType, StepKeepsNames
<1>3. NamesInv => RevisionNamesConfiguration
  BY DEF NamesInv
<1> QED
  BY <1>1, <1>2, <1>3, PTL DEF Spec

=============================================================================
