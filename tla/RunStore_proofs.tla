--------------------------- MODULE RunStore_proofs ---------------------------
(***************************************************************************)
(* Proofs about RunStore, for any number of processes, runs and            *)
(* deliveries, any staleness and any number of attempts.                   *)
(*                                                                         *)
(* The inductive invariant adds to the checked invariants what ties a task *)
(* to its row: a task belongs to a live process, to an attempt the row has *)
(* reached, and, when it is the row's own attempt, to the row's owner.     *)
(***************************************************************************)
EXTENDS RunStore, FiniteSetTheorems, TLAPS

TaskTied ==
  \A t \in tasks :
    /\ phase[t.worker] = "up"
    /\ runs[t.run].status # "absent"
    /\ t.attempt <= runs[t.run].attempt
    /\ t.attempt = runs[t.run].attempt => runs[t.run].owner = t.worker

\* An attempt of a run is worked on by one task.
TaskUnique ==
  \A t, u \in tasks : t.run = u.run /\ t.attempt = u.attempt => t = u

IInv ==
  /\ TypeOK
  /\ TaskTied
  /\ TaskUnique
  /\ SoleTask
  /\ DeliverySettled
  /\ VerdictIsLast

\* Where in a timeline a final verdict may stand.
NoFinalYet(r) == \A i \in DOMAIN timeline[r] : timeline[r][i] \notin Final

-----------------------------------------------------------------------------
(* Typing.                                                                 *)

\* Every variable keeps its type: no transaction writes a row the table's
\* readers do not expect.
THEOREM TypeCorrect == Spec => []TypeOK
<1>1. Init => TypeOK
  <2> SUFFICES ASSUME Init
               PROVE  TypeOK
    OBVIOUS
  <2>1. AbsentRun \in RunRow /\ LegacyRun \in RunRow
    <3>1. 0 \in 0..StaleAge
      BY RunStoreAssumption
    <3>2. AbsentRun \in RunRow
      BY <3>1 DEF AbsentRun, RunRow, Status
    <3>3. LegacyRun \in RunRow
      BY <3>1, <3>2 DEF LegacyRun, RunRow, Status
    <3>4. QED
      BY <3>2, <3>3
  <2>2. Unclaimed \in DeliveryRow
    BY DEF Unclaimed, DeliveryRow
  <2>3. <<>> \in Seq(Event) /\ <<"run_started">> \in Seq(Event)
    BY DEF Event
  <2>4. QED
    BY <2>1, <2>2, <2>3 DEF Init, TypeOK
<1>2. TypeOK /\ [Next]_vars => TypeOK'
  <2> SUFFICES ASSUME TypeOK, [Next]_vars
               PROVE  TypeOK'
    OBVIOUS
  <2> USE RunStoreAssumption DEF TypeOK
  <2>1. ASSUME NEW w \in Worker, NEW r \in Run,
               NEW d \in Delivery \cup {NoDelivery}, ClaimRun(w, r, d)
        PROVE  TypeOK'
    <3>1. runs' \in [Run -> RunRow]
      <4>1. PICK mark \in {FALSE, runs[r].interrupted} :
              runs' = [runs EXCEPT ![r] =
                         [status |-> "running", attempt |-> runs[r].attempt + 1,
                          owner |-> w, age |-> 0, interrupted |-> mark]]
        BY <2>1 DEF ClaimRun
      <4>2. mark \in BOOLEAN /\ runs[r].attempt + 1 \in Nat
        <5>1. runs[r].interrupted \in BOOLEAN /\ runs[r].attempt \in Nat
          <6>1. runs[r] \in RunRow
            OBVIOUS
          <6>2. QED
            BY <6>1 DEF RunRow
        <5>2. mark = FALSE \/ mark = runs[r].interrupted
          OBVIOUS
        <5>3. mark \in BOOLEAN
          BY <5>1, <5>2
        <5>4. runs[r].attempt + 1 \in Nat
          BY <5>1
        <5>5. QED
          BY <5>3, <5>4
      <4>3. \A n \in Nat, a \in 0..StaleAge, i \in BOOLEAN :
              [status |-> "running", attempt |-> n, owner |-> w,
               age |-> a, interrupted |-> i] \in RunRow
        BY DEF RunRow, Status
      <4>4. 0 \in 0..StaleAge
        OBVIOUS
      <4>5. QED
        BY <4>1, <4>2, <4>3, <4>4
    <3>2. deliveries' \in [Delivery -> DeliveryRow]
      BY <2>1 DEF ClaimRun, DeliveryRow
    <3>3. timeline' \in [Run -> Seq(Event)]
      BY <2>1 DEF ClaimRun, Event
    <3>4. tasks' \in SUBSET Task
      BY <2>1 DEF ClaimRun, RunRow, Task
    <3>5. QED
      BY <2>1, <3>1, <3>2, <3>3, <3>4 DEF ClaimRun
  <2>2. ASSUME NEW t \in tasks, NEW verdict \in Verdict,
               CompleteRun(t, verdict)
        PROVE  TypeOK'
    <3>1. runs' \in [Run -> RunRow]
      BY <2>2 DEF CompleteRun, Task, RunRow, Status
    <3>2. deliveries' \in [Delivery -> DeliveryRow]
      BY <2>2 DEF CompleteRun, Settle, DeliveryRow
    <3>3. timeline' \in [Run -> Seq(Event)]
      BY <2>2 DEF CompleteRun, Event, Task
    <3>4. QED
      BY <2>2, <3>1, <3>2, <3>3 DEF CompleteRun
  <2>3. ASSUME NEW t \in tasks, NEW s \in Parked, ParkRun(t, s)
        PROVE  TypeOK'
    BY <2>3 DEF ParkRun, Task, RunRow, Status
  <2>4. ASSUME NEW t \in tasks, Abandon(t)
        PROVE  TypeOK'
    BY <2>4 DEF Abandon, ledger
  <2>5. ASSUME NEW w \in Worker, RecoverInterruptedRuns(w)
        PROVE  TypeOK'
    <3>1. runs' \in [Run -> RunRow]
      BY <2>5 DEF RecoverInterruptedRuns, RunRow, Status, Verdict
    <3>2. deliveries' \in [Delivery -> DeliveryRow]
      BY <2>5 DEF RecoverInterruptedRuns, DeliveryRow, Verdict
    <3>3. timeline' \in [Run -> Seq(Event)]
      <4>1. "worker_interrupted" \in Event
        BY DEF Event
      <4>2. \A r \in Run :
              Append(timeline[r], "worker_interrupted") \in Seq(Event)
        BY <4>1
      <4>3. QED
        BY <2>5, <4>2 DEF RecoverInterruptedRuns
    <3>4. QED
      BY <2>5, <3>1, <3>2, <3>3 DEF RecoverInterruptedRuns
  <2>6. ASSUME NEW w \in Worker, StartProcess(w)
        PROVE  TypeOK'
    BY <2>6 DEF StartProcess, ledger
  <2>7. ASSUME NEW w \in Worker, Crash(w)
        PROVE  TypeOK'
    BY <2>7 DEF Crash, ledger
  <2>8. CASE Tick
    <3>1. ASSUME NEW r \in Run
          PROVE  runs'[r] \in RunRow
      <4>1. runs[r] \in RunRow
        OBVIOUS
      <4>2. CASE runs[r].status = "running" /\ runs[r].age < StaleAge
        <5>1. runs[r].age + 1 \in 0..StaleAge
          BY <4>1, <4>2 DEF RunRow
        <5>2. runs'[r] = [runs[r] EXCEPT !.age = runs[r].age + 1]
          BY <2>8, <4>2 DEF Tick
        <5>3. QED
          BY <4>1, <5>1, <5>2 DEF RunRow
      <4>3. CASE ~(runs[r].status = "running" /\ runs[r].age < StaleAge)
        BY <2>8, <4>1, <4>3 DEF Tick
      <4>4. QED
        BY <4>2, <4>3
    <3>2. runs' = [r \in Run |-> runs'[r]]
      BY <2>8 DEF Tick
    <3>3. QED
      BY <2>8, <3>1, <3>2 DEF Tick
  <2>9. CASE UNCHANGED vars
    BY <2>9 DEF vars
  <2>10. QED
    BY <2>1, <2>2, <2>3, <2>4, <2>5, <2>6, <2>7, <2>8, <2>9 DEF Next
<1>3. QED
  BY <1>1, <1>2, PTL DEF Spec

-----------------------------------------------------------------------------
(* The invariants.                                                         *)

\* A tick changes the age of a row and nothing else in it.
LEMMA TickKeeps ==
  ASSUME TypeOK, Tick, NEW r \in Run
  PROVE  /\ runs'[r].status = runs[r].status
         /\ runs'[r].attempt = runs[r].attempt
         /\ runs'[r].owner = runs[r].owner
         /\ runs'[r].interrupted = runs[r].interrupted
<1>1. runs[r] \in RunRow
  BY DEF TypeOK
<1>2. \/ runs'[r] = runs[r]
      \/ runs'[r] = [runs[r] EXCEPT !.age = runs[r].age + 1]
  BY DEF Tick
<1>3. QED
  BY <1>1, <1>2 DEF RunRow

\* A task is tied to its row through every transaction, crash and restart:
\* its process is up, and if it is the row's own attempt the row names it.
LEMMA TaskTiedInductive ==
  ASSUME TypeOK, TypeOK', TaskTied, [Next]_vars
  PROVE  TaskTied'
<1> USE DEF TypeOK
<1>1. ASSUME NEW w \in Worker, NEW r \in Run,
             NEW d \in Delivery \cup {NoDelivery}, ClaimRun(w, r, d)
      PROVE  TaskTied'
  <2> SUFFICES ASSUME NEW t \in tasks'
               PROVE  /\ phase'[t.worker] = "up"
                      /\ runs'[t.run].status # "absent"
                      /\ t.attempt <= runs'[t.run].attempt
                      /\ t.attempt = runs'[t.run].attempt
                           => runs'[t.run].owner = t.worker
    BY DEF TaskTied
  <2>1. runs[r].attempt \in Nat
    BY DEF RunRow
  <2>2. CASE t \in tasks
    <3>1. t.run \in Run /\ t.attempt \in Nat
      BY <2>2 DEF Task
    <3>2. CASE t.run = r
      BY <1>1, <2>1, <2>2, <3>1, <3>2 DEF TaskTied, ClaimRun
    <3>3. CASE t.run # r
      BY <1>1, <2>2, <3>1, <3>3 DEF TaskTied, ClaimRun
    <3>4. QED
      BY <3>2, <3>3
  <2>3. CASE t = [run |-> r, attempt |-> runs[r].attempt + 1, worker |-> w]
    BY <1>1, <2>1, <2>3 DEF ClaimRun
  <2>4. QED
    BY <1>1, <2>2, <2>3 DEF ClaimRun
<1>2. ASSUME NEW t \in tasks, NEW verdict \in Verdict, CompleteRun(t, verdict)
      PROVE  TaskTied'
  BY <1>2 DEF CompleteRun, TaskTied, Task, Verdict, RunRow
<1>3. ASSUME NEW t \in tasks, NEW s \in Parked, ParkRun(t, s)
      PROVE  TaskTied'
  BY <1>3 DEF ParkRun, TaskTied, Task, Parked, RunRow
<1>4. ASSUME NEW t \in tasks, Abandon(t)
      PROVE  TaskTied'
  BY <1>4 DEF Abandon, ledger, TaskTied
<1>5. ASSUME NEW w \in Worker, RecoverInterruptedRuns(w)
      PROVE  TaskTied'
  <2> SUFFICES ASSUME NEW t \in tasks
               PROVE  /\ phase'[t.worker] = "up"
                      /\ runs'[t.run].status # "absent"
                      /\ t.attempt <= runs'[t.run].attempt
                      /\ t.attempt = runs'[t.run].attempt
                           => runs'[t.run].owner = t.worker
    BY <1>5 DEF TaskTied, RecoverInterruptedRuns
  <2>1. phase'[t.worker] = "up"
    BY <1>5 DEF RecoverInterruptedRuns, TaskTied, Task
  <2>2. \/ runs'[t.run] = runs[t.run]
        \/ runs'[t.run] = [runs[t.run] EXCEPT !.status = "failed",
                                              !.interrupted = TRUE]
    BY <1>5 DEF RecoverInterruptedRuns, Task
  <2>3. runs[t.run] \in RunRow
    BY DEF Task
  <2>4. QED
    BY <2>1, <2>2, <2>3 DEF TaskTied, RunRow
<1>6. ASSUME NEW w \in Worker, StartProcess(w)
      PROVE  TaskTied'
  BY <1>6 DEF StartProcess, ledger, TaskTied, Task
<1>7. ASSUME NEW w \in Worker, Crash(w)
      PROVE  TaskTied'
  BY <1>7 DEF Crash, ledger, TaskTied, Task
<1>8. CASE Tick
  <2>1. \A t \in tasks : /\ t.run \in Run
                         /\ runs'[t.run].status = runs[t.run].status
                         /\ runs'[t.run].attempt = runs[t.run].attempt
                         /\ runs'[t.run].owner = runs[t.run].owner
    BY <1>8, TickKeeps DEF Task
  <2>2. phase' = phase /\ tasks' = tasks
    BY <1>8 DEF Tick
  <2>3. QED
    BY <2>1, <2>2 DEF TaskTied
<1>9. CASE UNCHANGED vars
  BY <1>9 DEF vars, TaskTied
<1>10. QED
  BY <1>1, <1>2, <1>3, <1>4, <1>5, <1>6, <1>7, <1>8, <1>9 DEF Next

\* The lease of a run that was never taken over stays with one task.
LEMMA SoleTaskInductive ==
  ASSUME TypeOK, TypeOK', TaskTied, SoleTask, [Next]_vars
  PROVE  SoleTask'
<1> USE DEF TypeOK
<1>1. ASSUME NEW w \in Worker, NEW r \in Run,
             NEW d \in Delivery \cup {NoDelivery}, ClaimRun(w, r, d)
      PROVE  SoleTask'
  <2> DEFINE new == [run |-> r, attempt |-> runs[r].attempt + 1, worker |-> w]
  <2> SUFFICES ASSUME NEW t \in tasks', t.run \notin contested'
               PROVE  /\ TasksOn(t.run)' = {t}
                      /\ runs'[t.run].status = "running"
                      /\ runs'[t.run].attempt = t.attempt
                      /\ runs'[t.run].owner = t.worker
    BY DEF SoleTask
  <2>1. tasks' = tasks \cup {new} /\ contested \subseteq contested'
    BY <1>1 DEF ClaimRun
  <2>2. CASE t.run = r
    <3>1. TasksOn(r) = {}
      BY <1>1, <2>2 DEF ClaimRun
    <3>2. t = new /\ TasksOn(r)' = {new}
      BY <2>1, <2>2, <3>1 DEF TasksOn
    <3>3. QED
      BY <1>1, <2>2, <3>2 DEF ClaimRun
  <2>3. CASE t.run # r
    <3>1. t \in tasks /\ t.run \in Run /\ TasksOn(t.run)' = TasksOn(t.run)
      BY <2>1, <2>3 DEF TasksOn, Task
    <3>2. QED
      BY <1>1, <2>1, <2>3, <3>1 DEF SoleTask, ClaimRun
  <2>4. QED
    BY <2>2, <2>3
<1>2. ASSUME NEW u \in tasks, tasks' = tasks \ {u}, UNCHANGED contested,
             \A r \in Run : r # u.run => runs'[r] = runs[r]
      PROVE  SoleTask'
  <2> SUFFICES ASSUME NEW t \in tasks', t.run \notin contested'
               PROVE  /\ TasksOn(t.run)' = {t}
                      /\ runs'[t.run].status = "running"
                      /\ runs'[t.run].attempt = t.attempt
                      /\ runs'[t.run].owner = t.worker
    BY DEF SoleTask
  <2>1. t \in tasks /\ t # u /\ t.run \in Run /\ TasksOn(t.run) = {t}
    BY <1>2 DEF SoleTask, Task
  <2>2. t.run # u.run /\ TasksOn(t.run)' = {t}
    BY <1>2, <2>1 DEF TasksOn
  <2>3. QED
    BY <1>2, <2>1, <2>2 DEF SoleTask
<1>3. ASSUME NEW t \in tasks, NEW verdict \in Verdict, CompleteRun(t, verdict)
      PROVE  SoleTask'
  BY <1>2, <1>3 DEF CompleteRun
<1>4. ASSUME NEW t \in tasks, NEW s \in Parked, ParkRun(t, s)
      PROVE  SoleTask'
  BY <1>2, <1>4 DEF ParkRun
<1>5. ASSUME NEW t \in tasks, Abandon(t)
      PROVE  SoleTask'
  BY <1>2, <1>5 DEF Abandon, ledger
<1>6. ASSUME NEW w \in Worker, RecoverInterruptedRuns(w)
      PROVE  SoleTask'
  <2>1. \A t \in tasks : t.run \notin contested => ~Interrupted(t.run)
    BY DEF SoleTask, TaskTied, Interrupted, WorkerIsDead
  <2>2. QED
    BY <1>6, <2>1 DEF RecoverInterruptedRuns, SoleTask, TasksOn, Task
<1>7. ASSUME NEW w \in Worker, StartProcess(w)
      PROVE  SoleTask'
  BY <1>7 DEF StartProcess, ledger, SoleTask, TasksOn
<1>8. ASSUME NEW w \in Worker, Crash(w)
      PROVE  SoleTask'
  <2>1. \A t \in tasks' : t \in tasks /\ TasksOn(t.run)' \subseteq TasksOn(t.run)
    BY <1>8 DEF Crash, TasksOn
  <2>2. QED
    BY <1>8, <2>1 DEF Crash, ledger, SoleTask, TasksOn
<1>9. CASE Tick
  BY <1>9, TickKeeps DEF Tick, SoleTask, TasksOn, Task
<1>10. CASE UNCHANGED vars
  BY <1>10 DEF vars, SoleTask, TasksOn
<1>11. QED
  BY <1>1, <1>3, <1>4, <1>5, <1>6, <1>7, <1>8, <1>9, <1>10 DEF Next

\* Attempts number the claims of a run, so no two tasks share one.
LEMMA TaskUniqueInductive ==
  ASSUME TypeOK, TaskTied, TaskUnique, [Next]_vars
  PROVE  TaskUnique'
<1> USE DEF TypeOK
<1>1. ASSUME NEW w \in Worker, NEW r \in Run,
             NEW d \in Delivery \cup {NoDelivery}, ClaimRun(w, r, d)
      PROVE  TaskUnique'
  <2>1. \A t \in tasks : t.run = r => t.attempt # runs[r].attempt + 1
    <3> SUFFICES ASSUME NEW t \in tasks, t.run = r
                 PROVE  t.attempt # runs[r].attempt + 1
      OBVIOUS
    <3>1. t.attempt \in Nat /\ runs[r].attempt \in Nat
      BY DEF Task, RunRow
    <3>2. t.attempt <= runs[r].attempt
      BY DEF TaskTied
    <3>3. QED
      BY <3>1, <3>2
  <2>2. QED
    BY <1>1, <2>1 DEF ClaimRun, TaskUnique
<1>2. CASE tasks' \subseteq tasks
  BY <1>2 DEF TaskUnique
<1>3. QED
  BY <1>1, <1>2 DEF Next, CompleteRun, ParkRun, Abandon,
     RecoverInterruptedRuns, StartProcess, Crash, Tick, vars

\* The deliveries of a run are settled with it.
LEMMA DeliverySettledInductive ==
  ASSUME TypeOK, TypeOK', DeliverySettled, [Next]_vars
  PROVE  DeliverySettled'
<1> USE DEF TypeOK
<1>1. ASSUME NEW w \in Worker, NEW r \in Run,
             NEW d \in Delivery \cup {NoDelivery}, ClaimRun(w, r, d)
      PROVE  DeliverySettled'
  BY <1>1 DEF ClaimRun, DeliverySettled
<1>2. ASSUME NEW t \in tasks, NEW verdict \in Verdict, CompleteRun(t, verdict)
      PROVE  DeliverySettled'
  <2> SUFFICES ASSUME NEW d \in Delivery, deliveries'[d].status = "running"
               PROVE  /\ deliveries'[d].run \in Run
                      /\ runs'[deliveries'[d].run].status
                           \in {"running"} \cup Parked
    BY DEF DeliverySettled
  <2>1. deliveries[d] \in DeliveryRow /\ verdict # "running"
    BY DEF Verdict
  <2>2. deliveries[d].run # t.run
    BY <1>2, <2>1 DEF CompleteRun, Settle, DeliveryRow
  <2>3. deliveries'[d] = deliveries[d]
    BY <1>2, <2>2 DEF CompleteRun, Settle
  <2>4. QED
    BY <1>2, <2>2, <2>3 DEF CompleteRun, DeliverySettled
<1>3. ASSUME NEW t \in tasks, NEW s \in Parked, ParkRun(t, s)
      PROVE  DeliverySettled'
  BY <1>3 DEF ParkRun, DeliverySettled, Task, RunRow
<1>4. ASSUME NEW t \in tasks, Abandon(t)
      PROVE  DeliverySettled'
  BY <1>4 DEF Abandon, ledger, DeliverySettled
<1>5. ASSUME NEW w \in Worker, RecoverInterruptedRuns(w)
      PROVE  DeliverySettled'
  <2> SUFFICES ASSUME NEW d \in Delivery, deliveries'[d].status = "running"
               PROVE  /\ deliveries'[d].run \in Run
                      /\ runs'[deliveries'[d].run].status
                           \in {"running"} \cup Parked
    BY DEF DeliverySettled
  <2>1. /\ deliveries'[d] = deliveries[d]
        /\ ~(deliveries[d].run \in Run /\ Interrupted(deliveries[d].run))
    BY <1>5 DEF RecoverInterruptedRuns, DeliveryRow
  <2>2. QED
    BY <1>5, <2>1 DEF RecoverInterruptedRuns, DeliverySettled
<1>6. ASSUME NEW w \in Worker, StartProcess(w)
      PROVE  DeliverySettled'
  BY <1>6 DEF StartProcess, ledger, DeliverySettled
<1>7. ASSUME NEW w \in Worker, Crash(w)
      PROVE  DeliverySettled'
  BY <1>7 DEF Crash, ledger, DeliverySettled
<1>8. CASE Tick
  BY <1>8, TickKeeps DEF Tick, DeliverySettled
<1>9. CASE UNCHANGED vars
  BY <1>9 DEF vars, DeliverySettled
<1>10. QED
  BY <1>1, <1>2, <1>3, <1>4, <1>5, <1>6, <1>7, <1>8, <1>9 DEF Next

\* Appending to a timeline without a final verdict leaves at most one, last.
LEMMA AppendVerdict ==
  ASSUME NEW s \in Seq(Event), NEW e \in Event,
         \A i \in DOMAIN s : s[i] \notin Final
  PROVE  \A i \in DOMAIN Append(s, e) :
           Append(s, e)[i] \in Final =>
             i = Len(Append(s, e)) /\ e = Append(s, e)[i]
  OBVIOUS

\* In a run that was never taken over a final verdict closes the timeline.
LEMMA VerdictIsLastInductive ==
  ASSUME TypeOK, TypeOK', TaskTied, SoleTask, VerdictIsLast, [Next]_vars
  PROVE  VerdictIsLast'
<1> USE DEF TypeOK
<1> DEFINE LastIn(r) == \A i \in DOMAIN timeline[r] :
                          timeline[r][i] \in Final =>
                            i = Len(timeline[r]) /\ runs[r].status = timeline[r][i]
<1> SUFFICES ASSUME NEW q \in Run \ contested'
             PROVE  LastIn(q)'
  BY DEF VerdictIsLast
<1>0. contested \subseteq contested'
  BY DEF Next, ClaimRun, CompleteRun, ParkRun, Abandon, RecoverInterruptedRuns,
         StartProcess, Crash, Tick, vars
<1>a. q \in Run /\ q \notin contested /\ LastIn(q)
  BY <1>0 DEF VerdictIsLast
<1>b. runs[q].status \notin Final => NoFinalYet(q)
  BY <1>a DEF NoFinalYet
<1>c. ASSUME NEW e \in Event, timeline'[q] = Append(timeline[q], e),
             NoFinalYet(q), e \in Final => runs'[q].status = e
      PROVE  LastIn(q)'
  BY <1>a, <1>c, AppendVerdict DEF NoFinalYet
<1>d. ASSUME timeline'[q] = timeline[q], runs'[q].status = runs[q].status
      PROVE  LastIn(q)'
  BY <1>a, <1>d
<1>1. ASSUME NEW w \in Worker, NEW r \in Run,
             NEW d \in Delivery \cup {NoDelivery}, ClaimRun(w, r, d)
      PROVE  LastIn(q)'
  <2>1. CASE q = r
    <3>1. NoFinalYet(q)
      BY <1>1, <1>b, <2>1 DEF ClaimRun, RunHeld
    <3>2. timeline'[q] = Append(timeline[q], "run_started")
      BY <1>1, <1>a, <2>1 DEF ClaimRun
    <3>3. "run_started" \in Event /\ "run_started" \notin Final
      BY DEF Event, Final
    <3>4. QED
      BY <1>c, <3>1, <3>2, <3>3
  <2>2. CASE q # r
    BY <1>1, <1>a, <1>d, <2>2 DEF ClaimRun
  <2>3. QED
    BY <2>1, <2>2
<1>2. ASSUME NEW t \in tasks, NEW verdict \in Verdict, CompleteRun(t, verdict)
      PROVE  LastIn(q)'
  <2>1. CASE q = t.run
    <3>1. NoFinalYet(q)
      BY <1>a, <1>b, <2>1 DEF SoleTask, Final
    <3>2. /\ timeline'[q] = Append(timeline[q], verdict)
          /\ runs'[q].status = verdict
      BY <1>2, <1>a, <2>1 DEF CompleteRun, RunRow
    <3>3. verdict \in Event
      BY DEF Event
    <3>4. QED
      BY <1>c, <3>1, <3>2, <3>3
  <2>2. CASE q # t.run
    BY <1>2, <1>a, <1>d, <2>2 DEF CompleteRun
  <2>3. QED
    BY <2>1, <2>2
<1>3. ASSUME NEW t \in tasks, NEW s \in Parked, ParkRun(t, s)
      PROVE  LastIn(q)'
  <2>1. CASE q = t.run
    <3>1. NoFinalYet(q)
      BY <1>a, <1>b, <2>1 DEF SoleTask, Final
    <3>2. QED
      BY <1>3, <3>1 DEF ParkRun, NoFinalYet
  <2>2. CASE q # t.run
    BY <1>3, <1>a, <1>d, <2>2 DEF ParkRun
  <2>3. QED
    BY <2>1, <2>2
<1>4. ASSUME NEW t \in tasks, Abandon(t)
      PROVE  LastIn(q)'
  BY <1>4, <1>d DEF Abandon, ledger
<1>5. ASSUME NEW w \in Worker, RecoverInterruptedRuns(w)
      PROVE  LastIn(q)'
  <2>1. CASE Interrupted(q)
    <3>1. NoFinalYet(q)
      BY <1>b, <2>1 DEF Interrupted, Final
    <3>2. timeline'[q] = Append(timeline[q], "worker_interrupted")
      BY <1>5, <1>a, <2>1 DEF RecoverInterruptedRuns
    <3>3. "worker_interrupted" \in Event /\ "worker_interrupted" \notin Final
      BY DEF Event, Final
    <3>4. QED
      BY <1>c, <3>1, <3>2, <3>3
  <2>2. CASE ~Interrupted(q)
    BY <1>5, <1>a, <1>d, <2>2 DEF RecoverInterruptedRuns
  <2>3. QED
    BY <2>1, <2>2
<1>6. ASSUME NEW w \in Worker, StartProcess(w)
      PROVE  LastIn(q)'
  BY <1>6, <1>d DEF StartProcess, ledger
<1>7. ASSUME NEW w \in Worker, Crash(w)
      PROVE  LastIn(q)'
  BY <1>7, <1>d DEF Crash, ledger
<1>8. CASE Tick
  BY <1>8, <1>a, <1>d, TickKeeps DEF Tick
<1>9. CASE UNCHANGED vars
  BY <1>9, <1>d DEF vars
<1>10. QED
  BY <1>1, <1>2, <1>3, <1>4, <1>5, <1>6, <1>7, <1>8, <1>9 DEF Next

-----------------------------------------------------------------------------
(* The balance of the timeline.                                            *)

\* The entries of a timeline that start an attempt, and those that end one.
StartedIn(s) == {i \in DOMAIN s : s[i] = "run_started"}
EndedIn(s) == DOMAIN s \ StartedIn(s)

\* The attempts of a run that nothing can end any more: no task works on them
\* and, the last one, its row is not running.
Over(r) ==
  {a \in 1..runs[r].attempt :
     /\ a = runs[r].attempt => runs[r].status # "running"
     /\ \A t \in tasks : t.run = r => t.attempt # a}

\* What makes the balance inductive: an entry that ends an attempt is paid for
\* by an attempt that is over.
Balanced(s, n, over) ==
  /\ Cardinality(StartedIn(s)) = n
  /\ Cardinality(EndedIn(s)) <= Cardinality(over)

Accounted ==
  \A r \in Run : Balanced(timeline[r], runs[r].attempt, Over(r))

\* A timeline has finitely many entries of each kind.
LEMMA EntriesFinite ==
  ASSUME NEW s \in Seq(Event)
  PROVE  /\ IsFiniteSet(StartedIn(s)) /\ IsFiniteSet(EndedIn(s))
         /\ Cardinality(StartedIn(s)) \in Nat /\ Cardinality(EndedIn(s)) \in Nat
<1>1. IsFiniteSet(DOMAIN s)
  <2>1. Len(s) \in Nat /\ DOMAIN s = 1..Len(s)
    OBVIOUS
  <2>2. QED
    BY <2>1, FS_Interval
<1>2. StartedIn(s) \subseteq DOMAIN s /\ EndedIn(s) \subseteq DOMAIN s
  BY DEF StartedIn, EndedIn
<1>3. QED
  BY <1>1, <1>2, FS_Subset, FS_CardinalityType

\* An entry that is appended counts once, on its own side.
LEMMA AppendCounts ==
  ASSUME NEW s \in Seq(Event), NEW e \in Event
  PROVE  /\ e = "run_started" =>
              /\ Cardinality(StartedIn(Append(s, e))) = Cardinality(StartedIn(s)) + 1
              /\ EndedIn(Append(s, e)) = EndedIn(s)
         /\ e # "run_started" =>
              /\ StartedIn(Append(s, e)) = StartedIn(s)
              /\ Cardinality(EndedIn(Append(s, e))) = Cardinality(EndedIn(s)) + 1
<1> DEFINE new == Len(s) + 1
<1>1. /\ DOMAIN Append(s, e) = DOMAIN s \cup {new}
      /\ new \notin DOMAIN s
      /\ Append(s, e)[new] = e
      /\ \A i \in DOMAIN s : Append(s, e)[i] = s[i]
  OBVIOUS
<1> HIDE DEF new
<1>2. IsFiniteSet(StartedIn(s)) /\ IsFiniteSet(EndedIn(s))
  BY EntriesFinite
<1>3. new \notin StartedIn(s) /\ new \notin EndedIn(s)
  BY <1>1 DEF StartedIn, EndedIn
<1>4. CASE e = "run_started"
  <2>1. StartedIn(Append(s, e)) = StartedIn(s) \cup {new}
    BY <1>1, <1>4 DEF StartedIn
  <2>2. EndedIn(Append(s, e)) = EndedIn(s)
    BY <1>1, <1>4 DEF StartedIn, EndedIn
  <2>3. QED
    BY <1>2, <1>3, <1>4, <2>1, <2>2, FS_AddElement
<1>5. CASE e # "run_started"
  <2>1. StartedIn(Append(s, e)) = StartedIn(s)
    BY <1>1, <1>5 DEF StartedIn
  <2>2. EndedIn(Append(s, e)) = EndedIn(s) \cup {new}
    BY <1>1, <1>5 DEF StartedIn, EndedIn
  <2>3. QED
    BY <1>2, <1>3, <1>5, <2>1, <2>2, FS_AddElement
<1>6. QED
  BY <1>4, <1>5

\* The account of one run is kept when attempts become over, also when one
\* starts; and an entry that ends one is paid by one that becomes over.
LEMMA AccountKept ==
  ASSUME NEW s \in Seq(Event), NEW n \in Nat, NEW over, NEW more,
         IsFiniteSet(more), over \subseteq more, Balanced(s, n, over)
  PROVE  /\ Balanced(s, n, more)
         /\ Balanced(Append(s, "run_started"), n + 1, more)
<1>1. /\ IsFiniteSet(over) /\ Cardinality(over) <= Cardinality(more)
      /\ Cardinality(over) \in Nat /\ Cardinality(more) \in Nat
      /\ Cardinality(StartedIn(s)) = n /\ Cardinality(EndedIn(s)) \in Nat
      /\ Cardinality(EndedIn(s)) <= Cardinality(over)
  BY FS_Subset, FS_CardinalityType, EntriesFinite DEF Balanced
<1>2. Balanced(s, n, more)
  BY <1>1 DEF Balanced
<1>3. Balanced(Append(s, "run_started"), n + 1, more)
  BY <1>1, AppendCounts DEF Balanced, Event
<1>4. QED
  BY <1>2, <1>3

LEMMA AccountPaid ==
  ASSUME NEW s \in Seq(Event), NEW n \in Nat, NEW over, NEW more,
         IsFiniteSet(more), over \subseteq more, Balanced(s, n, over),
         NEW e \in Event \ {"run_started"}, NEW a \in more \ over
  PROVE  Balanced(Append(s, e), n, more)
<1>1. IsFiniteSet(over) /\ Cardinality(over) \in Nat /\ Cardinality(more) \in Nat
  BY FS_Subset, FS_CardinalityType
<1>2. over \cup {a} \subseteq more
  OBVIOUS
<1>3. Cardinality(over \cup {a}) = Cardinality(over) + 1
  BY <1>1, FS_AddElement
<1>4. Cardinality(over) + 1 <= Cardinality(more)
  BY <1>2, <1>3, FS_Subset
<1>5. /\ StartedIn(Append(s, e)) = StartedIn(s)
      /\ Cardinality(EndedIn(Append(s, e))) = Cardinality(EndedIn(s)) + 1
      /\ Cardinality(EndedIn(s)) \in Nat
  BY AppendCounts, EntriesFinite
<1>6. QED
  BY <1>1, <1>4, <1>5 DEF Balanced

\* Attempts are numbers, so those of a run that are over are finitely many and
\* at most as many as it has.
LEMMA OverBounded ==
  ASSUME NEW r, runs[r].attempt \in Nat
  PROVE  /\ IsFiniteSet(Over(r))
         /\ Cardinality(Over(r)) \in Nat
         /\ Cardinality(Over(r)) <= runs[r].attempt
<1>1. ASSUME NEW n \in Nat
      PROVE  IsFiniteSet(1..n) /\ Cardinality(1..n) = n
  <2>1. 1 \in Int /\ n \in Int /\ (IF 1 > n THEN 0 ELSE n - 1 + 1) = n
    OBVIOUS
  <2>2. QED
    BY <2>1, FS_Interval
<1>2. Over(r) \subseteq 1..runs[r].attempt
  BY DEF Over
<1>3. QED
  BY <1>1, <1>2, FS_Subset, FS_CardinalityType

\* An attempt that is over stays over, when a step keeps the attempt of a run,
\* starts none for it, and does not make its row running.
LEMMA OverStays ==
  ASSUME NEW r, runs'[r].attempt = runs[r].attempt, tasks' \subseteq tasks,
         runs'[r].status = "running" => runs[r].status = "running"
  PROVE  Over(r) \subseteq Over(r)'
  BY DEF Over

\* Attempts count from one: a row that is running was claimed, and a task has
\* the number of its claim.
Attempted ==
  /\ \A r \in Run : runs[r].status = "running" => runs[r].attempt # 0
  /\ \A t \in tasks : t.attempt # 0

LEMMA AttemptedInductive ==
  ASSUME TypeOK, Attempted, [Next]_vars
  PROVE  Attempted'
<1> USE DEF TypeOK
<1>t. \A t \in tasks' : t.attempt # 0
  <2>1. ASSUME NEW w \in Worker, NEW q \in Run,
               NEW d \in Delivery \cup {NoDelivery}, ClaimRun(w, q, d)
        PROVE  \A t \in tasks' : t.attempt # 0
    <3>1. runs[q].attempt + 1 # 0
      BY DEF RunRow
    <3>2. QED
      BY <2>1, <3>1 DEF ClaimRun, Attempted
  <2>2. CASE tasks' \subseteq tasks
    BY <2>2 DEF Attempted
  <2>3. QED
    BY <2>1, <2>2 DEF Next, CompleteRun, ParkRun, Abandon,
       RecoverInterruptedRuns, StartProcess, Crash, Tick, vars
<1> SUFFICES ASSUME NEW r \in Run, runs'[r].status = "running"
             PROVE  runs'[r].attempt # 0
  BY <1>t DEF Attempted
<1>0. runs[r] \in RunRow /\ runs[r].attempt \in Nat
  BY DEF RunRow
<1>1. ASSUME NEW w \in Worker, NEW q \in Run,
             NEW d \in Delivery \cup {NoDelivery}, ClaimRun(w, q, d)
      PROVE  runs'[r].attempt # 0
  BY <1>0, <1>1 DEF ClaimRun, Attempted
<1>2. ASSUME NEW t \in tasks, NEW verdict \in Verdict, CompleteRun(t, verdict)
      PROVE  runs'[r].attempt # 0
  BY <1>0, <1>2 DEF CompleteRun, Verdict, Attempted, Task, RunRow
<1>3. ASSUME NEW t \in tasks, NEW s \in Parked, ParkRun(t, s)
      PROVE  runs'[r].attempt # 0
  BY <1>0, <1>3 DEF ParkRun, Parked, Attempted, Task, RunRow
<1>4. ASSUME NEW w \in Worker, RecoverInterruptedRuns(w)
      PROVE  runs'[r].attempt # 0
  BY <1>0, <1>4 DEF RecoverInterruptedRuns, Attempted, RunRow
<1>5. CASE Tick
  BY <1>5, TickKeeps DEF Attempted
<1>6. CASE UNCHANGED runs
  BY <1>6 DEF Attempted
<1>7. QED
  BY <1>1, <1>2, <1>3, <1>4, <1>5, <1>6
     DEF Next, Abandon, StartProcess, Crash, ledger, vars

\* Every step keeps the account: complete_run pays with the attempt of the task
\* it takes away, recovery with the attempt it cuts off, and a claim starts an
\* attempt that is not over.
LEMMA AccountedInductive ==
  ASSUME TypeOK, TypeOK', TaskTied, TaskUnique, Attempted, Accounted,
         [Next]_vars
  PROVE  Accounted'
<1> USE DEF TypeOK
<1>0. ASSUME NEW r \in Run
      PROVE  /\ timeline[r] \in Seq(Event) /\ runs[r].attempt \in Nat
             /\ runs[r].status \in Status
             /\ Balanced(timeline[r], runs[r].attempt, Over(r))
             /\ IsFiniteSet(Over(r)')
  <2>1. runs[r].attempt \in Nat /\ runs'[r].attempt \in Nat
    BY DEF RunRow
  <2>2. IsFiniteSet(Over(r)')
    <3>1. IsFiniteSet(1..runs'[r].attempt)
      BY <2>1, FS_Interval
    <3>2. Over(r)' \subseteq 1..runs'[r].attempt
      BY DEF Over
    <3>3. QED
      BY <3>1, <3>2, FS_Subset
  <2>3. QED
    BY <2>1, <2>2 DEF Accounted, RunRow
<1>a. ASSUME NEW r \in Run, runs'[r].attempt = runs[r].attempt,
             timeline'[r] = timeline[r], Over(r) \subseteq Over(r)'
      PROVE  Balanced(timeline'[r], runs'[r].attempt, Over(r)')
  BY <1>0, <1>a, AccountKept
<1>b. ASSUME NEW r \in Run, runs'[r].attempt = runs[r].attempt,
             NEW e \in Event \ {"run_started"},
             timeline'[r] = Append(timeline[r], e),
             Over(r) \subseteq Over(r)', NEW a \in Over(r)' \ Over(r)
      PROVE  Balanced(timeline'[r], runs'[r].attempt, Over(r)')
  <2> DEFINE s == timeline[r]
             over == Over(r)
             more == Over(r)'
  <2>1. /\ s \in Seq(Event) /\ runs[r].attempt \in Nat /\ IsFiniteSet(more)
        /\ Balanced(s, runs[r].attempt, over)
    BY <1>0
  <2>2. over \subseteq more /\ a \in more \ over
    BY <1>b
  <2> HIDE DEF s, over, more, TypeOK
  <2>3. Balanced(Append(s, e), runs[r].attempt, more)
    BY <2>1, <2>2, AccountPaid
  <2>4. QED
    BY <1>b, <2>3 DEF s, more
<1>c. ASSUME NEW r \in Run, tasks' \subseteq tasks, timeline' = timeline,
             runs'[r].attempt = runs[r].attempt,
             runs'[r].status = "running" => runs[r].status = "running"
      PROVE  Balanced(timeline'[r], runs'[r].attempt, Over(r)')
  BY <1>a, <1>c, OverStays
<1>1. ASSUME NEW w \in Worker, NEW q \in Run,
             NEW d \in Delivery \cup {NoDelivery}, ClaimRun(w, q, d)
      PROVE  Accounted'
  <2> SUFFICES ASSUME NEW r \in Run
               PROVE  Balanced(timeline'[r], runs'[r].attempt, Over(r)')
    BY DEF Accounted
  <2>1. PICK mark \in {FALSE, runs[q].interrupted} :
          runs' = [runs EXCEPT ![q] =
                     [status |-> "running", attempt |-> runs[q].attempt + 1,
                      owner |-> w, age |-> 0, interrupted |-> mark]]
    BY <1>1 DEF ClaimRun
  <2>2. /\ tasks' = tasks \cup {[run |-> q, attempt |-> runs[q].attempt + 1,
                                 worker |-> w]}
        /\ timeline' = [timeline EXCEPT ![q] = Append(@, "run_started")]
    BY <1>1 DEF ClaimRun
  <2>3. CASE r = q
    <3>1. runs'[r].attempt = runs[r].attempt + 1 /\ runs[r].attempt \in Nat
      BY <1>0, <2>1, <2>3
    <3>2. Over(r) \subseteq Over(r)'
      BY <2>2, <2>3, <3>1 DEF Over
    <3>3. timeline'[r] = Append(timeline[r], "run_started")
      BY <2>2, <2>3
    <3>4. QED
      BY <1>0, <3>1, <3>2, <3>3, AccountKept
  <2>4. CASE r # q
    <3>1. runs'[r] = runs[r] /\ timeline'[r] = timeline[r]
      BY <2>1, <2>2, <2>4
    <3>2. Over(r) \subseteq Over(r)'
      BY <2>2, <2>4, <3>1 DEF Over
    <3>3. QED
      BY <1>a, <3>1, <3>2
  <2>5. QED
    BY <2>3, <2>4
<1>2. ASSUME NEW t \in tasks, NEW verdict \in Verdict, CompleteRun(t, verdict)
      PROVE  Accounted'
  <2> SUFFICES ASSUME NEW r \in Run
               PROVE  Balanced(timeline'[r], runs'[r].attempt, Over(r)')
    BY DEF Accounted
  <2>1. /\ runs' = [runs EXCEPT ![t.run].status = verdict]
        /\ timeline' = [timeline EXCEPT ![t.run] = Append(@, verdict)]
        /\ tasks' = tasks \ {t}
        /\ verdict # "running" /\ verdict \in Event \ {"run_started"}
    BY <1>2 DEF CompleteRun, Verdict, Event
  <2>2. t \in Task /\ t.run \in Run /\ t.attempt \in Nat
    BY DEF Task
  <2>3. /\ runs'[r].attempt = runs[r].attempt
        /\ runs'[r].status = "running" => runs[r].status = "running"
    BY <2>1, <2>2 DEF RunRow
  <2>4. Over(r) \subseteq Over(r)'
    BY <2>1, <2>3, OverStays
  <2>5. CASE r = t.run
    <3>1. timeline'[r] = Append(timeline[r], verdict)
      BY <2>1, <2>5
    <3>2. runs'[r].status # "running"
      BY <2>1, <2>2, <2>5 DEF RunRow
    <3>3. t.attempt \in 1..runs[r].attempt
      <4>1. t.attempt # 0 /\ t.attempt <= runs[r].attempt
        BY <2>5 DEF TaskTied, Attempted
      <4>2. QED
        BY <1>0, <2>2, <4>1
    <3>4. \A u \in tasks' : u.run = r => u.attempt # t.attempt
      BY <2>1, <2>5 DEF TaskUnique
    <3>5. t.attempt \in Over(r)'
      BY <2>3, <3>2, <3>3, <3>4 DEF Over
    <3>6. t.attempt \notin Over(r)
      BY <2>5 DEF Over
    <3>7. QED
      BY <1>b, <2>1, <2>3, <2>4, <3>1, <3>5, <3>6
  <2>6. CASE r # t.run
    <3>1. timeline'[r] = timeline[r]
      BY <2>1, <2>2, <2>6
    <3>2. QED
      BY <1>a, <2>3, <2>4, <3>1
  <2>7. QED
    BY <2>5, <2>6
<1>3. ASSUME NEW t \in tasks, NEW s \in Parked, ParkRun(t, s)
      PROVE  Accounted'
  <2>1. ASSUME NEW r \in Run
        PROVE  /\ runs'[r].attempt = runs[r].attempt
               /\ runs'[r].status = "running" => runs[r].status = "running"
    BY <1>3 DEF ParkRun, Parked, Task, RunRow
  <2>2. tasks' \subseteq tasks /\ timeline' = timeline
    BY <1>3 DEF ParkRun
  <2>3. QED
    BY <1>c, <2>1, <2>2 DEF Accounted
<1>4. ASSUME NEW t \in tasks, Abandon(t)
      PROVE  Accounted'
  BY <1>c, <1>4 DEF Abandon, ledger, Accounted
<1>5. ASSUME NEW w \in Worker, RecoverInterruptedRuns(w)
      PROVE  Accounted'
  <2> SUFFICES ASSUME NEW r \in Run
               PROVE  Balanced(timeline'[r], runs'[r].attempt, Over(r)')
    BY DEF Accounted
  <2>1. tasks' = tasks
    BY <1>5 DEF RecoverInterruptedRuns
  <2>2. CASE Interrupted(r)
    <3>1. /\ runs'[r] = [runs[r] EXCEPT !.status = "failed", !.interrupted = TRUE]
          /\ timeline'[r] = Append(timeline[r], "worker_interrupted")
      BY <1>5, <2>2 DEF RecoverInterruptedRuns
    <3>2. runs'[r].attempt = runs[r].attempt /\ runs'[r].status = "failed"
      BY <3>1 DEF RunRow
    <3>3. Over(r) \subseteq Over(r)'
      BY <2>1, <3>2, OverStays
    <3>4. \A t \in tasks : t.run = r => t.attempt # runs[r].attempt
      BY <2>2 DEF Interrupted, WorkerIsDead, TaskTied
    <3>5. runs[r].attempt \notin Over(r)
      BY <2>2 DEF Over, Interrupted
    <3>6. runs[r].attempt # 0
      BY <2>2 DEF Attempted, Interrupted
    <3>7. runs[r].attempt \in Over(r)'
      <4>1. runs[r].attempt \in 1..runs[r].attempt
        BY <1>0, <3>6
      <4>2. QED
        BY <2>1, <3>2, <3>4, <4>1 DEF Over
    <3>8. QED
      BY <1>b, <3>1, <3>2, <3>3, <3>5, <3>7 DEF Event
  <2>3. CASE ~Interrupted(r)
    <3>1. runs'[r] = runs[r] /\ timeline'[r] = timeline[r]
      BY <1>5, <2>3 DEF RecoverInterruptedRuns
    <3>2. QED
      BY <1>a, <2>1, <3>1, OverStays
  <2>4. QED
    BY <2>2, <2>3
<1>6. ASSUME NEW w \in Worker, StartProcess(w)
      PROVE  Accounted'
  BY <1>c, <1>6 DEF StartProcess, ledger, Accounted
<1>7. ASSUME NEW w \in Worker, Crash(w)
      PROVE  Accounted'
  BY <1>c, <1>7 DEF Crash, ledger, Accounted
<1>8. CASE Tick
  BY <1>c, <1>8, TickKeeps DEF Tick, Accounted
<1>9. CASE UNCHANGED vars
  BY <1>c, <1>9 DEF vars, Accounted
<1>10. QED
  BY <1>1, <1>2, <1>3, <1>4, <1>5, <1>6, <1>7, <1>8, <1>9 DEF Next

-----------------------------------------------------------------------------
(* Theorems.                                                               *)

\* The conjunction the safety theorems are read from.
THEOREM InductiveInvariant == Spec => []IInv
<1>1. Init /\ TypeOK => IInv
  BY RunStoreAssumption
     DEF Init, IInv, TaskTied, TaskUnique, SoleTask, DeliverySettled,
         VerdictIsLast, Unclaimed, Final, AbsentRun, LegacyRun
<1>2. TypeOK /\ TypeOK' /\ IInv /\ [Next]_vars => IInv'
  BY TaskTiedInductive, TaskUniqueInductive, SoleTaskInductive,
     DeliverySettledInductive, VerdictIsLastInductive DEF IInv
<1>3. QED
  BY <1>1, <1>2, TypeCorrect, PTL DEF Spec

\* A run that was never taken over is worked on by at most one task, the one
\* its row names.
THEOREM OneTaskPerRun == Spec => []SoleTask
  BY InductiveInvariant, PTL DEF IInv

\* A run that was never taken over keeps its final verdict: claim_run,
\* complete_run, update_run and recovery all leave it alone.
THEOREM VerdictsAreFinal == Spec => []VerdictIsLast
  BY InductiveInvariant, PTL DEF IInv

\* No delivery claim outlives its run, taken over or not.
THEOREM DeliveriesSettle == Spec => []DeliverySettled
  BY InductiveInvariant, PTL DEF IInv

\* recover_interrupted_runs never cuts off an attempt that is still at work.
THEOREM InterruptedAttemptsAreDead == Spec => InterruptedIsDead
<1>1. ASSUME IInv, [Next]_vars
      PROVE  [\A r \in Run :
                timeline'[r] = Append(timeline[r], "worker_interrupted") =>
                  \A t \in TasksOn(r) : t.attempt # runs[r].attempt]_vars
  <2> SUFFICES ASSUME NEW r \in Run,
                      timeline'[r] = Append(timeline[r], "worker_interrupted"),
                      NEW t \in TasksOn(r), t.attempt = runs[r].attempt
               PROVE  FALSE
    OBVIOUS
  <2>1. t \in tasks /\ t.run = r /\ t \in Task /\ timeline[r] \in Seq(Event)
    BY <1>1 DEF IInv, TypeOK, TasksOn
  <2>2. ~Interrupted(r)
    BY <1>1, <2>1 DEF IInv, TaskTied, Interrupted, WorkerIsDead
  <2>3. timeline'[r] # timeline[r]
    BY <2>1
  <2>4. \A e \in Event : Append(timeline[r], e) = timeline'[r]
                           => e = "worker_interrupted"
    BY <2>1 DEF Event, Verdict
  <2>5. ASSUME NEW w \in Worker, NEW q \in Run,
               NEW d \in Delivery \cup {NoDelivery}, ClaimRun(w, q, d)
        PROVE  FALSE
    <3>1. timeline'[r] = timeline[r]
            \/ timeline'[r] = Append(timeline[r], "run_started")
      BY <1>1, <2>5 DEF ClaimRun, IInv, TypeOK
    <3>2. QED
      BY <2>3, <2>4, <3>1 DEF Event
  <2>6. ASSUME NEW u \in tasks, NEW verdict \in Verdict, CompleteRun(u, verdict)
        PROVE  FALSE
    <3>1. timeline'[r] = timeline[r]
            \/ timeline'[r] = Append(timeline[r], verdict)
      BY <1>1, <2>6 DEF CompleteRun, IInv, TypeOK
    <3>2. QED
      BY <2>3, <2>4, <3>1 DEF Event, Verdict
  <2>7. ASSUME NEW w \in Worker, RecoverInterruptedRuns(w)
        PROVE  FALSE
    BY <2>2, <2>3, <2>7 DEF RecoverInterruptedRuns
  <2>8. QED
    BY <1>1, <2>3, <2>5, <2>6, <2>7
       DEF Next, ParkRun, Abandon, StartProcess, Crash, Tick, ledger, vars
<1>2. QED
  BY <1>1, InductiveInvariant, PTL DEF Spec, InterruptedIsDead

\* The first task to work on a run beside another one found that run's claim
\* at least STALE_RUN_SECONDS old.
THEOREM TakeoversAreOverruns == Spec => TakeoverOnlyAfterStale
<1>1. ASSUME IInv, [Next]_vars
      PROVE  [\A r \in contested' \ contested : runs[r].age = StaleAge]_vars
  <2> SUFFICES ASSUME NEW q \in contested' \ contested
               PROVE  runs[q].age = StaleAge
    OBVIOUS
  <2>1. PICK w \in Worker, r \in Run, d \in Delivery \cup {NoDelivery} :
          ClaimRun(w, r, d)
    BY <1>1 DEF Next, CompleteRun, ParkRun, Abandon, RecoverInterruptedRuns,
                StartProcess, Crash, Tick, vars
  <2>2. q = r /\ TasksOn(q) # {}
    BY <2>1 DEF ClaimRun
  <2>3. PICK t \in tasks : t.run = q
    BY <2>2 DEF TasksOn
  <2>4. runs[q].status = "running" /\ runs[q].owner = t.worker
    BY <1>1, <2>3 DEF IInv, SoleTask
  <2>5. ~WorkerIsDead(runs[q].owner)
    BY <1>1, <2>3, <2>4 DEF IInv, TaskTied, WorkerIsDead
  <2>6. QED
    BY <2>1, <2>2, <2>4, <2>5 DEF ClaimRun, RunHeld, RunIsStale
<1>2. QED
  BY <1>1, InductiveInvariant, PTL DEF Spec, TakeoverOnlyAfterStale

\* The timeline starts every attempt once and ends none twice, whatever is
\* taken over, cut off or recovered.
THEOREM TimelinesBalance == Spec => []TimelineBalanced
<1>1. Init /\ TypeOK => Accounted /\ Attempted
  <2> SUFFICES ASSUME Init, TypeOK, NEW r \in Run
               PROVE  /\ Balanced(timeline[r], runs[r].attempt, Over(r))
                      /\ runs[r].status = "running" => runs[r].attempt # 0
    BY DEF Init, Accounted, Attempted
  <2>1. /\ AbsentRun.status = "absent" /\ AbsentRun.attempt = 0
        /\ LegacyRun.status = "running" /\ LegacyRun.attempt = 1
    BY DEF AbsentRun, LegacyRun
  <2>2. Cardinality(Over(r)) \in Nat
    BY <2>1, OverBounded DEF Init
  <2>3. CASE runs[r] = AbsentRun
    <3>1. timeline[r] = <<>>
      BY <2>1, <2>3 DEF Init
    <3>2. StartedIn(timeline[r]) = {} /\ EndedIn(timeline[r]) = {}
      BY <3>1 DEF StartedIn, EndedIn
    <3>3. QED
      <4>1. Cardinality({}) = 0
        BY FS_EmptySet
      <4>2. runs[r].attempt = 0 /\ runs[r].status # "running"
        BY <2>1, <2>3
      <4>3. QED
        BY <2>2, <3>2, <4>1, <4>2 DEF Balanced
  <2>4. CASE runs[r] = LegacyRun
    <3>1. timeline[r] = <<"run_started">>
      BY <2>4 DEF Init
    <3>2. /\ StartedIn(<<"run_started">>) = {1}
          /\ EndedIn(<<"run_started">>) = {}
      BY DEF StartedIn, EndedIn
    <3>3. QED
      <4>1. Cardinality({}) = 0 /\ Cardinality({1}) = 1
        BY FS_EmptySet, FS_Singleton
      <4>2. runs[r].attempt = 1
        BY <2>1, <2>4
      <4>3. QED
        BY <2>2, <3>1, <3>2, <4>1, <4>2 DEF Balanced
  <2>5. QED
    BY <2>3, <2>4 DEF Init
<1>2. ASSUME TypeOK, TypeOK', IInv, Accounted, Attempted, [Next]_vars
      PROVE  Accounted' /\ Attempted'
  BY <1>2, AccountedInductive, AttemptedInductive DEF IInv
<1>3. TypeOK /\ Accounted => TimelineBalanced
  <2> SUFFICES ASSUME TypeOK, Accounted, NEW r \in Run
               PROVE  /\ Cardinality(StartedIn(timeline[r])) = runs[r].attempt
                      /\ Cardinality(EndedIn(timeline[r]))
                           <= Cardinality(StartedIn(timeline[r]))
    BY DEF TimelineBalanced, StartedIn, EndedIn
  <2>1. runs[r].attempt \in Nat /\ timeline[r] \in Seq(Event)
    BY DEF TypeOK, RunRow
  <2>2. QED
    BY <2>1, OverBounded, EntriesFinite DEF Accounted, Balanced
<1>4. QED
  BY <1>1, <1>2, <1>3, InductiveInvariant, TypeCorrect, PTL DEF Spec

-----------------------------------------------------------------------------
(* Refinement.                                                             *)

\* The lease of a task, in RunLease's terms.
Held(t) == [run |-> t.run, attempt |-> t.attempt]
HeldLeases == {[run |-> t.run, attempt |-> t.attempt] : t \in tasks}

\* Taking a task away takes its lease away and no other.
LEMMA ReleaseOne ==
  ASSUME TypeOK, TaskUnique, NEW t \in tasks, tasks' = tasks \ {t}
  PROVE  HeldLeases' = HeldLeases \ {Held(t)}
<1>1. ASSUME NEW u \in tasks
      PROVE  (Held(u) = Held(t)) <=> (u = t)
  BY <1>1 DEF Held, TaskUnique
<1>2. QED
  BY <1>1 DEF HeldLeases, Held

\* Every step of the ledger is a step of the lease table or leaves it alone.
LEMMA StepRefines ==
  ASSUME IInv, [Next]_vars
  PROVE  [Lease!Next]_(Lease!leaseVars)
<1> USE DEF IInv, TypeOK
<1> DEFINE st == [r \in Run |-> runs[r].status]
           at == [r \in Run |-> runs[r].attempt]
<1>1. ASSUME NEW w \in Worker, NEW r \in Run,
             NEW d \in Delivery \cup {NoDelivery}, ClaimRun(w, r, d)
      PROVE  Lease!Grant(r)
  <2>1. st[r] \notin Lease!FinalStatus
    BY <1>1 DEF ClaimRun, RunHeld, Final, Lease!FinalStatus
  <2>a. PICK mark \in {FALSE, runs[r].interrupted} :
          runs' = [runs EXCEPT ![r] =
                     [status |-> "running", attempt |-> runs[r].attempt + 1,
                      owner |-> w, age |-> 0, interrupted |-> mark]]
    BY <1>1 DEF ClaimRun
  <2>2. st' = [st EXCEPT ![r] = "running"]
    BY <2>a
  <2>3. at' = [at EXCEPT ![r] = @ + 1]
    BY <2>a
  <2>4. HeldLeases' = HeldLeases \cup {[run |-> r, attempt |-> at[r] + 1]}
    <3>1. tasks' = tasks \cup {[run |-> r, attempt |-> runs[r].attempt + 1,
                               worker |-> w]}
      BY <1>1 DEF ClaimRun
    <3>2. at[r] = runs[r].attempt
      OBVIOUS
    <3>3. ASSUME NEW h
          PROVE  h \in HeldLeases' <=>
                   \/ h \in HeldLeases
                   \/ h = [run |-> r, attempt |-> at[r] + 1]
      <4>1. h \in HeldLeases <=>
              \E t \in tasks : h = [run |-> t.run, attempt |-> t.attempt]
        BY DEF HeldLeases
      <4>2. h \in HeldLeases' <=>
              \E t \in tasks' : h = [run |-> t.run, attempt |-> t.attempt]
        BY DEF HeldLeases
      <4> DEFINE new == [run |-> r, attempt |-> runs[r].attempt + 1,
                         worker |-> w]
      <4>3. new.run = r /\ new.attempt = at[r] + 1
        BY <3>2
      <4>4. tasks' = tasks \cup {new}
        BY <3>1
      <4> HIDE DEF new, at
      <4>5. QED
        BY <4>1, <4>2, <4>3, <4>4
    <3>4. QED
      BY <3>3
  <2>5. (Lease!HoldersOf(r) = {}) <=> (TasksOn(r) = {})
    <3>1. Lease!HoldersOf(r) = {h \in HeldLeases : h.run = r}
      BY DEF Lease!HoldersOf, HeldLeases
    <3>2. \A h \in HeldLeases : \E t \in tasks : h = Held(t)
      BY DEF HeldLeases, Held
    <3>3. \A t \in tasks : Held(t) \in HeldLeases /\ Held(t).run = t.run
      BY DEF HeldLeases, Held
    <3>4. QED
      BY <3>1, <3>2, <3>3 DEF TasksOn
  <2>6. contested' = IF Lease!HoldersOf(r) = {} THEN contested
                     ELSE contested \cup {r}
    BY <1>1, <2>5 DEF ClaimRun
  <2>7. QED
    BY <2>1, <2>2, <2>3, <2>4, <2>6 DEF Lease!Grant, HeldLeases
<1>2. ASSUME NEW t \in tasks, tasks' = tasks \ {t}, UNCHANGED contested,
             NEW s \in Status \ {"absent"}, st' = [st EXCEPT ![t.run] = s],
             at' = at
      PROVE  Lease!Next
  <2>1. Held(t) \in HeldLeases /\ HeldLeases' = HeldLeases \ {Held(t)}
    BY <1>2, ReleaseOne DEF HeldLeases, Held
  <2>2. s \in Lease!LeaseStatus \ {"absent"}
    BY DEF Status, Parked, Verdict, Lease!LeaseStatus, Lease!FinalStatus
  <2>3. Lease!Release(Held(t), s)
    BY <1>2, <2>1 DEF Lease!Release, HeldLeases, Held
  <2>4. QED
    BY <2>1, <2>2, <2>3 DEF Lease!Next, HeldLeases
<1>3. ASSUME NEW t \in tasks, NEW verdict \in Verdict, CompleteRun(t, verdict)
      PROVE  Lease!Next
  <2>1. \A r \in Run : runs[r] \in RunRow
    OBVIOUS
  <2>2. st' = [st EXCEPT ![t.run] = verdict] /\ at' = at
    BY <1>3, <2>1 DEF CompleteRun, RunRow, Task
  <2>3. verdict \in Status \ {"absent"}
    BY DEF Status, Verdict
  <2>4. QED
    BY <1>2, <1>3, <2>2, <2>3 DEF CompleteRun
<1>4. ASSUME NEW t \in tasks, NEW s \in Parked, ParkRun(t, s)
      PROVE  Lease!Next
  <2>1. \A r \in Run : runs[r] \in RunRow
    OBVIOUS
  <2>2. st' = [st EXCEPT ![t.run] = s] /\ at' = at
    BY <1>4, <2>1 DEF ParkRun, RunRow, Task
  <2>3. s \in Status \ {"absent"}
    BY DEF Status, Parked
  <2>4. QED
    BY <1>2, <1>4, <2>2, <2>3 DEF ParkRun
<1>5. ASSUME NEW t \in tasks, Abandon(t)
      PROVE  Lease!Next
  <2>1. runs[t.run].status \in Status \ {"absent"}
    BY DEF TaskTied, Task, RunRow
  <2>2. st' = [st EXCEPT ![t.run] = runs[t.run].status] /\ at' = at
    BY <1>5 DEF Abandon, ledger, Task
  <2>3. QED
    BY <1>2, <1>5, <2>1, <2>2 DEF Abandon
<1>6. ASSUME NEW w \in Worker, RecoverInterruptedRuns(w)
      PROVE  Lease!Next
  <2>0. PICK lost \in SUBSET Run : lost = {r \in Run : Interrupted(r)}
    OBVIOUS
  <2>1. ASSUME NEW r \in lost
        PROVE  st[r] = "running" /\ Lease!Current(r) \notin HeldLeases
    <3>1. r \in Run /\ Interrupted(r)
      BY <2>0
    <3>2. \A t \in tasks : t.run = r => t.attempt # runs[r].attempt
      BY <3>1 DEF Interrupted, WorkerIsDead, TaskTied
    <3>3. Lease!Current(r) = [run |-> r, attempt |-> runs[r].attempt]
      BY <3>1 DEF Lease!Current
    <3>4. \A h \in HeldLeases : \E t \in tasks :
            h = [run |-> t.run, attempt |-> t.attempt]
      BY DEF HeldLeases
    <3>5. Lease!Current(r) \notin HeldLeases
      BY <3>2, <3>3, <3>4
    <3>6. QED
      BY <3>1, <3>5 DEF Interrupted
  <2>2. st' = [r \in Run |-> IF r \in lost THEN "failed" ELSE st[r]]
    BY <1>6, <2>0 DEF RecoverInterruptedRuns, RunRow
  <2>3. at' = at
    BY <1>6 DEF RecoverInterruptedRuns, RunRow
  <2>4. UNCHANGED <<HeldLeases, contested>>
    BY <1>6 DEF RecoverInterruptedRuns, HeldLeases
  <2>5. Lease!Expire(lost)
    BY <2>1, <2>2, <2>3, <2>4 DEF Lease!Expire, HeldLeases
  <2>6. QED
    BY <2>5 DEF Lease!Next
<1>7. ASSUME NEW w \in Worker, StartProcess(w)
      PROVE  UNCHANGED Lease!leaseVars
  BY <1>7 DEF StartProcess, ledger, Lease!leaseVars
<1>8. ASSUME NEW w \in Worker, Crash(w)
      PROVE  Lease!Next
  <2>1. HeldLeases' \in SUBSET HeldLeases
    BY <1>8 DEF Crash, HeldLeases
  <2>2. Lease!Lose
    BY <1>8, <2>1 DEF Crash, ledger, Lease!Lose, HeldLeases
  <2>3. QED
    BY <2>2 DEF Lease!Next
<1>9. CASE Tick
  <2>1. st' = st /\ at' = at
    BY <1>9, TickKeeps
  <2>2. QED
    BY <1>9, <2>1 DEF Tick, Lease!leaseVars
<1>10. CASE UNCHANGED vars
  BY <1>10 DEF vars, Lease!leaseVars
<1>11. QED
  BY <1>1, <1>3, <1>4, <1>5, <1>6, <1>7, <1>8, <1>9, <1>10
     DEF Next, Lease!Next

\* The ledger implements the lease table: what RunLease promises of a run,
\* claim_run, complete_run, update_run and recovery keep.
THEOREM LedgerImplementsLease == Spec => ImplementsRunLease
<1>1. Init => Lease!Init
  <2> SUFFICES ASSUME Init
               PROVE  Lease!Init
    OBVIOUS
  <2>1. \A r \in Run :
          \/ runs[r].status = "absent" /\ runs[r].attempt = 0
          \/ runs[r].status = "running" /\ runs[r].attempt = 1
    <3>1. /\ AbsentRun.status = "absent" /\ AbsentRun.attempt = 0
          /\ LegacyRun.status = "running" /\ LegacyRun.attempt = 1
      BY DEF AbsentRun, LegacyRun
    <3>2. QED
      BY <3>1 DEF Init
  <2>2. QED
    BY <2>1 DEF Init, Lease!Init
<1>2. QED
  BY <1>1, StepRefines, InductiveInvariant, PTL
     DEF Spec, ImplementsRunLease, Lease!Spec

=============================================================================
