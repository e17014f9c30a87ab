------------------------------ MODULE RunStore ------------------------------
(***************************************************************************)
(* The claim ledger of dev-agents: the runs, delivery_claims and           *)
(* run_events tables of runtime/state.py, shared by the daemon, its        *)
(* scheduler threads and the command line.  Every method of                *)
(* StateRepository is one BEGIN IMMEDIATE transaction, so each is one      *)
(* action here; what interleaves is the transactions of the workers that   *)
(* hold a claim, the clock, and processes that die and are restarted.      *)
(*                                                                         *)
(* A worker that claims a run holds a "task" until it completes the run,   *)
(* parks it, gives up without a word, or dies.  The ledger never sees the  *)
(* tasks: it only knows the identity of the last claimant's process and    *)
(* the time of that claim, and complete_run asks neither.                  *)
(***************************************************************************)
EXTENDS Naturals, Sequences, FiniteSets

CONSTANTS
  Worker,      \* process identities: pid, start ticks and boot id together
  Daemon,      \* the identities that are daemons, which recover at startup
  Run,         \* keys of the runs table: (workflow, run_id)
  Delivery,    \* webhook delivery ids
  NoWorker,    \* the owner of a claim made before claims recorded one
  NoDelivery,  \* claim_run called without a delivery_id
  NoRun,       \* the run of a delivery that has no row
  StaleAge,    \* STALE_RUN_SECONDS, in ticks of the model's clock
  MaxAttempt   \* bound on the attempts of a run

ASSUME RunStoreAssumption ==
  /\ Daemon \subseteq Worker
  /\ NoWorker \notin Worker
  /\ NoDelivery \notin Delivery
  /\ NoRun \notin Run
  /\ StaleAge \in Nat \ {0}
  /\ MaxAttempt \in Nat

VARIABLES
  phase,       \* phase[w]: where process w is in its life
  runs,        \* the runs table
  deliveries,  \* the delivery_claims table
  timeline,    \* the lifecycle rows of run_events, per run and in sequence
  tasks,       \* the claims some thread of a live process is working on
  contested    \* history: runs claimed while another task was still on them

ledger == <<runs, deliveries, timeline>>
vars == <<phase, runs, deliveries, timeline, tasks, contested>>

-----------------------------------------------------------------------------
(* Rows.                                                                   *)

Verdict == {"completed", "failed", "rejected"}  \* what complete_run accepts
Final == {"completed", "rejected"}              \* what claim_run never grants
Parked == {"waiting", "scheduled"}              \* set by update_run
Status == {"absent", "running"} \cup Parked \cup Verdict

\* The age counts from started_at.  Nothing reads it unless the run is
\* running, and a claim resets it, so it stops at StaleAge and when the run
\* is not running.
RunRow == [status : Status, attempt : Nat, owner : Worker \cup {NoWorker},
           age : 0..StaleAge, interrupted : BOOLEAN]

DeliveryRow == [status : {"none", "running"} \cup Verdict,
                run : Run \cup {NoRun}]

Task == [run : Run, attempt : Nat, worker : Worker]

Event == {"run_started", "worker_interrupted"} \cup Verdict

AbsentRun == [status |-> "absent", attempt |-> 0, owner |-> NoWorker,
              age |-> 0, interrupted |-> FALSE]

\* A running row left behind by a version that did not record owners.
LegacyRun == [AbsentRun EXCEPT !.status = "running", !.attempt = 1]

Unclaimed == [status |-> "none", run |-> NoRun]

-----------------------------------------------------------------------------
(* What claim_run reads.                                                   *)

\* Variant: every recorded owner passes for dead.
EveryOwnerIsDead(w) == w \in Worker

\* _worker_is_alive(...) is False: the recorded identity no longer runs.  A
\* legacy row has no identity and is never known to be dead.
WorkerIsDead(w) == w \in Worker /\ phase[w] = "dead"

RunIsStale(r) == WorkerIsDead(runs[r].owner) \/ runs[r].age = StaleAge

\* Variants: a claim that forgets running runs, and one that forgets rejection.
RunHeldWhenFinal(r) == runs[r].status \in Final

RunHeldUnlessRejected(r) ==
  \/ runs[r].status = "completed"
  \/ runs[r].status = "running" /\ ~RunIsStale(r)

RunHeld(r) ==
  \/ runs[r].status \in Final
  \/ runs[r].status = "running" /\ ~RunIsStale(r)

DeliveryHeld(d) ==
  /\ d \in Delivery
  /\ deliveries[d].run \in Run
  /\ LET r == deliveries[d].run
     IN \/ runs[r].status \in Final
        \/ /\ deliveries[d].status = "running"
           /\ ~(runs[r].status = "running" /\ RunIsStale(r))

TasksOn(r) == {t \in tasks : t.run = r}

\* Variant: only the run's own row is written.
SettleNothing(r, from, verdict) == deliveries

\* complete_run and recover_interrupted_runs settle the deliveries of a run.
Settle(r, from, verdict) ==
  [d \in Delivery |->
     IF deliveries[d].run = r /\ deliveries[d].status \in from
     THEN [deliveries[d] EXCEPT !.status = verdict]
     ELSE deliveries[d]]

-----------------------------------------------------------------------------
(* Transactions.                                                           *)

\* claim_run, when it grants the claim.  A refused claim changes nothing.  The
\* metadata is the caller's, who may carry over what it read of the run: a pending
\* repair keeps the mark of an interruption.
ClaimRun(w, r, d) ==
  /\ phase[w] = "up"
  /\ runs[r].attempt < MaxAttempt
  /\ ~DeliveryHeld(d)
  /\ ~RunHeld(r)
  /\ LET attempt == runs[r].attempt + 1
     IN /\ \E mark \in {FALSE, runs[r].interrupted} :
             runs' = [runs EXCEPT ![r] =
                        [status |-> "running", attempt |-> attempt, owner |-> w,
                         age |-> 0, interrupted |-> mark]]
        /\ tasks' = tasks \cup
                      {[run |-> r, attempt |-> attempt, worker |-> w]}
  /\ deliveries' = [e \in Delivery |->
                      IF e = d THEN [status |-> "running", run |-> r]
                      ELSE deliveries[e]]
  /\ timeline' = [timeline EXCEPT ![r] = Append(@, "run_started")]
  /\ contested' = IF TasksOn(r) = {} THEN contested ELSE contested \cup {r}
  /\ UNCHANGED phase

\* complete_run: the caller's word is taken whatever the row says by now.
CompleteRun(t, verdict) ==
  /\ runs' = [runs EXCEPT ![t.run].status = verdict]
  /\ deliveries' = Settle(t.run, {"running"} \cup Verdict, verdict)
  /\ timeline' = [timeline EXCEPT ![t.run] = Append(@, verdict)]
  /\ tasks' = tasks \ {t}
  /\ UNCHANGED <<phase, contested>>

\* update_run with a status: a review waiting out its claim window, or a
\* release parked until its slot.  The delivery keeps its row.
ParkRun(t, status) ==
  /\ runs' = [runs EXCEPT ![t.run].status = status]
  /\ tasks' = tasks \ {t}
  /\ UNCHANGED <<phase, deliveries, timeline, contested>>

\* A workflow that ends, by an exception or by a path that forgets the run,
\* without completing it: the row stays running under a live owner.
Abandon(t) ==
  /\ tasks' = tasks \ {t}
  /\ UNCHANGED <<phase, ledger, contested>>

\* Variants: every running run is failed at startup, whoever runs it; and every
\* run of a dead process, also when it has ended.
InterruptedWhoeverOwns(r) == runs[r].status = "running"

InterruptedWhenOwnerDies(r) == WorkerIsDead(runs[r].owner)

Interrupted(r) == runs[r].status = "running" /\ WorkerIsDead(runs[r].owner)

\* Variants: no recovery, and a status of its own for what was cut off.
BootWithoutRecovery(w) ==
  /\ phase[w] = "booting"
  /\ phase' = [phase EXCEPT ![w] = "up"]
  /\ UNCHANGED <<ledger, tasks, contested>>

RecoverAsInterrupted(w) ==
  /\ phase[w] = "booting"
  /\ phase' = [phase EXCEPT ![w] = "up"]
  /\ runs' = [r \in Run |->
                IF Interrupted(r)
                THEN [runs[r] EXCEPT !.status = "interrupted"]
                ELSE runs[r]]
  /\ UNCHANGED <<deliveries, timeline, tasks, contested>>

\* recover_interrupted_runs, once, before a daemon serves anything.
RecoverInterruptedRuns(w) ==
  /\ phase[w] = "booting"
  /\ phase' = [phase EXCEPT ![w] = "up"]
  /\ runs' = [r \in Run |->
                IF Interrupted(r)
                THEN [runs[r] EXCEPT !.status = "failed", !.interrupted = TRUE]
                ELSE runs[r]]
  /\ deliveries' = [d \in Delivery |->
                      IF /\ deliveries[d].status = "running"
                         /\ deliveries[d].run \in Run
                         /\ Interrupted(deliveries[d].run)
                      THEN [deliveries[d] EXCEPT !.status = "failed"]
                      ELSE deliveries[d]]
  /\ timeline' = [r \in Run |->
                    IF Interrupted(r)
                    THEN Append(timeline[r], "worker_interrupted")
                    ELSE timeline[r]]
  /\ UNCHANGED <<tasks, contested>>

-----------------------------------------------------------------------------
(* Processes and time.                                                     *)

StartProcess(w) ==
  /\ phase[w] = "new"
  /\ phase' = [phase EXCEPT ![w] = IF w \in Daemon THEN "booting" ELSE "up"]
  /\ UNCHANGED <<ledger, tasks, contested>>

\* The process dies and every thread with it.  Bound: some daemon identity is
\* left, so that there is always a next restart.
Crash(w) ==
  /\ phase[w] \in {"booting", "up"}
  /\ \E x \in Daemon : phase[x] = "new"
  /\ phase' = [phase EXCEPT ![w] = "dead"]
  /\ tasks' = {t \in tasks : t.worker # w}
  /\ UNCHANGED <<ledger, contested>>

Tick ==
  /\ runs' = [r \in Run |->
                IF runs[r].status = "running" /\ runs[r].age < StaleAge
                THEN [runs[r] EXCEPT !.age = @ + 1]
                ELSE runs[r]]
  /\ UNCHANGED <<phase, deliveries, timeline, tasks, contested>>

-----------------------------------------------------------------------------
Init ==
  /\ phase = [w \in Worker |-> "new"]
  /\ runs \in [Run -> {AbsentRun, LegacyRun}]
  /\ deliveries = [d \in Delivery |-> Unclaimed]
  /\ timeline = [r \in Run |->
                   IF runs[r] = LegacyRun THEN <<"run_started">> ELSE <<>>]
  /\ tasks = {}
  /\ contested = {}

Next ==
  \/ \E w \in Worker, r \in Run, d \in Delivery \cup {NoDelivery} :
       ClaimRun(w, r, d)
  \/ \E t \in tasks, verdict \in Verdict : CompleteRun(t, verdict)
  \/ \E t \in tasks, status \in Parked : ParkRun(t, status)
  \/ \E t \in tasks : Abandon(t)
  \/ \E w \in Worker : RecoverInterruptedRuns(w)
  \/ \E w \in Worker : StartProcess(w)
  \/ \E w \in Worker : Crash(w)
  \/ Tick

Spec == Init /\ [][Next]_vars

\* A daemon is started again (systemd, Restart=on-failure) and its startup
\* runs to the end.  Nothing obliges a worker to finish or the clock to move.
FairSpec ==
  /\ Spec
  /\ \A w \in Daemon : WF_vars(StartProcess(w))
  /\ \A w \in Daemon : WF_vars(RecoverInterruptedRuns(w))

-----------------------------------------------------------------------------
(* Properties.                                                             *)

TypeOK ==
  /\ phase \in [Worker -> {"new", "booting", "up", "dead"}]
  /\ runs \in [Run -> RunRow]
  /\ deliveries \in [Delivery -> DeliveryRow]
  /\ timeline \in [Run -> Seq(Event)]
  /\ tasks \in SUBSET Task
  /\ contested \in SUBSET Run

\* A run that was never taken over has at most one task, and that task is the
\* row's: the row is running, for that attempt and under that live process.
\* It is what lets a worker act on GitHub or a social network without asking
\* the ledger again between claim_run and complete_run.
SoleTask ==
  \A t \in tasks :
    t.run \notin contested =>
      /\ TasksOn(t.run) = {t}
      /\ runs[t.run].status = "running"
      /\ runs[t.run].attempt = t.attempt
      /\ runs[t.run].owner = t.worker

\* A claim is granted over a task that is still working only when that task
\* has held the run for STALE_RUN_SECONDS: an overrun is the one way in.
TakeoverOnlyAfterStale ==
  [][\A r \in contested' \ contested : runs[r].age = StaleAge]_vars

\* A run that was never taken over says nothing after a final verdict: once
\* completed or rejected it is never claimed, interrupted or judged again,
\* and the row keeps the verdict the timeline ends with.
VerdictIsLast ==
  \A r \in Run \ contested : \A i \in DOMAIN timeline[r] :
    timeline[r][i] \in Final =>
      i = Len(timeline[r]) /\ runs[r].status = timeline[r][i]

\* A delivery never stays running once its run is over, so a redelivered
\* webhook is judged by the run and cannot be refused for ever on behalf of
\* work that ended; taken over or not, complete_run and
\* recover_interrupted_runs settle the deliveries together with the run.
DeliverySettled ==
  \A d \in Delivery :
    deliveries[d].status = "running" =>
      /\ deliveries[d].run \in Run
      /\ runs[deliveries[d].run].status \in {"running"} \cup Parked

\* recover_interrupted_runs only cuts off attempts that no thread is still working
\* on, whatever other processes do beside the one that starts: the next attempt
\* may resume from what the cut-off one saved, and start over the rest.
InterruptedIsDead ==
  [][\A r \in Run :
       timeline'[r] = Append(timeline[r], "worker_interrupted") =>
         \A t \in TasksOn(r) : t.attempt # runs[r].attempt]_vars

\* The timeline starts every attempt once and ends no attempt twice, however
\* takeovers, crashes and recoveries interleave.
TimelineBalanced ==
  \A r \in Run :
    LET started == {i \in DOMAIN timeline[r] : timeline[r][i] = "run_started"}
        ended == DOMAIN timeline[r] \ started
    IN /\ Cardinality(started) = runs[r].attempt
       /\ Cardinality(ended) <= Cardinality(started)

\* A run left running by a dead process does not stay so: the next daemon
\* fails it, or someone claims it.
NoOrphanForever == \A r \in Run : Interrupted(r) ~> ~Interrupted(r)

\* The ledger is a lease table: read through this mapping, every transaction,
\* crash and tick is a step of RunLease.
Lease == INSTANCE RunLease WITH
  status <- [r \in Run |-> runs[r].status],
  attempt <- [r \in Run |-> runs[r].attempt],
  holders <- {[run |-> t.run, attempt |-> t.attempt] : t \in tasks}

ImplementsRunLease == Lease!Spec

=============================================================================
