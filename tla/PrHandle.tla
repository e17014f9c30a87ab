------------------------------ MODULE PrHandle ------------------------------
(***************************************************************************)
(* PrFixerService.handle: how the threads of one daemon share a pull       *)
(* request.  Webhook threads and reconciliation call handle; one of them   *)
(* runs the workflow, the others cancel it or queue a rerun through        *)
(* dictionaries keyed by the PR's number and guarded by one lock.          *)
(*                                                                         *)
(* One PR is modelled: every entry is read and written under its own       *)
(* number.  Each step is one critical section, one database transaction,   *)
(* or one visit to GitHub or to the worktree.  Pushes are fast-forwards,   *)
(* so heads are numbered in order and a head is an ancestor of another     *)
(* when its number is not greater.                                         *)
(***************************************************************************)
EXTENDS Naturals, FiniteSets

CONSTANTS
  Thread,    \* threads that may call handle
  Event,     \* threading.Event objects
  NoThread,  \* no registered worktree
  NoEvent,   \* no cancel event
  MaxHead    \* bound on the heads ever pushed

ASSUME PrHandleAssumption ==
  /\ NoThread \notin Thread
  /\ NoEvent \notin Event
  /\ MaxHead \in Nat \ {0}

VARIABLES
  head,        \* the PR's head on GitHub
  inbox,       \* synchronize webhooks not delivered yet, by head
  active,      \* the number is in self.active
  rerun,       \* the number is in self.rerun_requested
  event,       \* self.cancel_events[number]
  raised,      \* the events that are set
  activeHead,  \* self.active_heads[number]; 0 when there is none
  worktree,    \* the thread whose worktree is self.active_worktrees[number]
  runs,        \* status of the run of each head in the claim ledger
  pc,          \* where each thread is in handle
  fetched,     \* meta["headRefOid"] of each thread
  tip,         \* the newest head each thread's worktree contains
  watch,       \* the cancel event each thread's agent was started with
  delivered,   \* history: the newest head announced to handle
  seen,        \* history: the newest head a workflow has fetched
  evicted,     \* history: a finally has removed another thread's entries
  dropped      \* history: a fetch has failed, or a finally has removed a
               \* rerun request

shared == <<active, rerun, event, activeHead>>
local == <<fetched, tip, watch>>
history == <<delivered, seen, evicted, dropped>>
vars == <<head, inbox, shared, raised, worktree, runs, pc, local, history>>

-----------------------------------------------------------------------------
Head == 1..MaxHead

\* No row, failed and waiting are all one to claim_run: the run can be claimed.
RunStatus == {"free", "running", "completed"}

\* fetch, store and claim are _collect_feedback; open, worktree and agent are
\* _fix; finalize is _finalize; check, merge and recheck are the rest of the
\* loop; exit and unwind are the two ways into the finally block.
Place == {"idle", "fetch", "store", "claim", "open", "worktree", "agent",
          "finalize", "check", "merge", "recheck", "exit", "unwind"}

\* Threads that are between handle's first critical section and its last.
Working == {t \in Thread : pc[t] \notin {"idle", "exit"}}

Fixing == {t \in Thread : pc[t] \in {"worktree", "agent"}}

Go(t, place) == pc' = [pc EXCEPT ![t] = place]

Newer(a, b) == IF a > b THEN a ELSE b

\* Event(): an object that is neither in the dictionary nor in an agent's hands.
IsNewEvent(e) == e \in Event \ ({event} \cup {watch[t] : t \in Thread})

\* The set events someone still refers to, when e is the dictionary's and w the
\* agents': an object nobody refers to is gone.
StillRaised(e, w) == raised \cap ({e} \cup {w[t] : t \in Thread})

\* Variant: any push while a worktree is registered passes for the agent's own.
AnyPushIsOwn(h) == worktree \in Thread

\* _is_own_push: the pushed head is an ancestor of the registered worktree's.
IsOwnPush(h) == worktree \in Thread /\ h <= tip[worktree]

-----------------------------------------------------------------------------
(* handle, up to the workflow: h is new_head_sha, 0 for every event that is *)
(* not a synchronize and for reconciliation.                                *)

Announce(h) ==
  /\ inbox' = inbox \ {h}
  /\ delivered' = Newer(h, delivered)

\* Variant: nobody asks whether the PR is active.
StartRegardless(t, h) ==
  /\ pc[t] = "idle"
  /\ active' = TRUE
  /\ \E e \in Event : IsNewEvent(e) /\ event' = e
  /\ Announce(h)
  /\ Go(t, "fetch")
  /\ UNCHANGED <<head, raised, rerun, activeHead, worktree, runs, local, seen,
                 evicted, dropped>>

StartHandle(t, h) ==
  /\ pc[t] = "idle" /\ ~active
  /\ active' = TRUE
  /\ \E e \in Event : IsNewEvent(e) /\ event' = e
  /\ Announce(h)
  /\ Go(t, "fetch")
  /\ UNCHANGED <<head, raised, rerun, activeHead, worktree, runs, local, seen,
                 evicted, dropped>>

\* The PR is active and the head is the one being worked on.
IgnorePush(h) ==
  /\ active /\ h = activeHead
  /\ Announce(h)
  /\ UNCHANGED <<head, shared, raised, worktree, runs, pc, local, seen,
                 evicted, dropped>>

QueueOwnPush(h) ==
  /\ active /\ h # activeHead /\ IsOwnPush(h)
  /\ rerun' = TRUE
  /\ activeHead' = h
  /\ Announce(h)
  /\ UNCHANGED <<head, active, event, raised, worktree, runs, pc, local, seen,
                 evicted, dropped>>

CancelForPush(h) ==
  /\ active /\ h # activeHead /\ ~IsOwnPush(h)
  /\ rerun' = TRUE
  /\ raised' = raised \cup {event}
  /\ Announce(h)
  /\ UNCHANGED <<head, active, event, activeHead, worktree, runs, pc, local,
                 seen, evicted, dropped>>

-----------------------------------------------------------------------------
(* The workflow.                                                            *)

\* _feedback reads the PR from GitHub ...
Fetch(t) ==
  /\ pc[t] = "fetch"
  /\ fetched' = [fetched EXCEPT ![t] = head]
  /\ seen' = head
  /\ Go(t, "store")
  /\ UNCHANGED <<head, inbox, shared, raised, worktree, runs, tip, watch,
                 delivered, evicted, dropped>>

\* ... and the head it saw is published under the lock afterwards.
StoreHead(t) ==
  /\ pc[t] = "store"
  /\ activeHead' = fetched[t]
  /\ Go(t, "claim")
  /\ UNCHANGED <<head, inbox, active, rerun, event, raised, worktree, runs,
                 local, history>>

ClaimRun(t) ==
  /\ pc[t] = "claim"
  /\ runs[fetched[t]] = "free"
  /\ runs' = [runs EXCEPT ![fetched[t]] = "running"]
  /\ Go(t, "open")
  /\ UNCHANGED <<head, inbox, shared, raised, worktree, local, history>>

\* Paused, draft, out of quota, nothing to do, or the claim was refused.
Skip(t) ==
  /\ pc[t] = "claim"
  /\ Go(t, "check")
  /\ UNCHANGED <<head, inbox, shared, raised, worktree, runs, local, history>>

\* isolated_worktree fetches the branch, which may have moved since Fetch.
OpenWorktree(t) ==
  /\ pc[t] = "open"
  /\ tip' = [tip EXCEPT ![t] = head]
  /\ worktree' = t
  /\ Go(t, "worktree")
  /\ UNCHANGED <<head, inbox, shared, raised, runs, fetched, watch, history>>

\* An auditor or a fixer: run_agent is handed the event of the moment.
StartAgent(t) ==
  /\ pc[t] = "worktree"
  /\ watch' = [watch EXCEPT ![t] = event]
  /\ Go(t, "agent")
  /\ UNCHANGED <<head, inbox, shared, raised, worktree, runs, fetched, tip,
                 history>>

\* An agent whose event is set is killed at its next poll, so it may still push.
AgentPush(t) ==
  /\ pc[t] = "agent" /\ tip[t] = head /\ head < MaxHead
  /\ head' = head + 1
  /\ tip' = [tip EXCEPT ![t] = head + 1]
  /\ inbox' = inbox \cup {head + 1}
  /\ UNCHANGED <<shared, raised, worktree, runs, pc, fetched, watch, history>>

AgentMerge(t) ==
  /\ pc[t] = "agent" /\ tip[t] < head
  /\ tip' = [tip EXCEPT ![t] = head]
  /\ UNCHANGED <<head, inbox, shared, raised, worktree, runs, pc, fetched,
                 watch, history>>

EndAgent(t) ==
  /\ pc[t] = "agent"
  /\ watch' = [watch EXCEPT ![t] = NoEvent]
  /\ raised' = StillRaised(event, [watch EXCEPT ![t] = NoEvent])
  /\ Go(t, "worktree")
  /\ UNCHANGED <<head, inbox, shared, worktree, runs, fetched, tip, history>>

\* _fix's finally, also when the worktree could not be made.
CloseWorktree(t) ==
  /\ pc[t] \in {"open", "worktree"}
  /\ worktree' = NoThread
  /\ tip' = [tip EXCEPT ![t] = 0]
  /\ Go(t, "finalize")
  /\ UNCHANGED <<head, inbox, shared, raised, runs, fetched, watch, history>>

Finalize(t, verdict) ==
  /\ pc[t] = "finalize"
  /\ runs' = [runs EXCEPT ![fetched[t]] = verdict]
  /\ Go(t, "check")
  /\ UNCHANGED <<head, inbox, shared, raised, worktree, local, history>>

-----------------------------------------------------------------------------
(* handle, after the workflow.                                              *)

\* Either of the two checks finds a queued rerun.
Rerun(t) ==
  /\ pc[t] \in {"check", "recheck"} /\ rerun
  /\ rerun' = FALSE
  /\ \E e \in Event : IsNewEvent(e) /\ event' = e
  /\ raised' = StillRaised(NoEvent, watch)
  /\ activeHead' = 0
  /\ Go(t, "fetch")
  /\ UNCHANGED <<head, inbox, active, worktree, runs, local, history>>

LeaveWorkflow(t) ==
  /\ pc[t] = "check" /\ ~rerun
  /\ Go(t, "merge")
  /\ UNCHANGED <<head, inbox, shared, raised, worktree, runs, local, history>>

\* _ensure_auto_merge touches none of this state.
EnsureAutoMerge(t) ==
  /\ pc[t] = "merge"
  /\ Go(t, "recheck")
  /\ UNCHANGED <<head, inbox, shared, raised, worktree, runs, local, history>>

\* Variant: the second look at rerun_requested is left out.
DeactivateUnchecked(t) ==
  /\ pc[t] = "recheck"
  /\ active' = FALSE
  /\ event' = NoEvent
  /\ raised' = StillRaised(NoEvent, watch)
  /\ activeHead' = 0
  /\ Go(t, "exit")
  /\ UNCHANGED <<head, inbox, rerun, worktree, runs, local, history>>

Deactivate(t) ==
  /\ pc[t] = "recheck" /\ ~rerun
  /\ active' = FALSE
  /\ event' = NoEvent
  /\ raised' = StillRaised(NoEvent, watch)
  /\ activeHead' = 0
  /\ Go(t, "exit")
  /\ UNCHANGED <<head, inbox, rerun, worktree, runs, local, history>>

\* GitHub, git or SQLite failed; the claimed run, if any, is left running.
Raise(t) ==
  /\ pc[t] \in {"fetch", "store", "claim", "finalize", "merge"}
  /\ dropped' = (dropped \/ pc[t] = "fetch")
  /\ Go(t, "unwind")
  /\ UNCHANGED <<head, inbox, shared, raised, worktree, runs, local,
                 delivered, seen, evicted>>

\* Variant: the finally block drops the event but leaves the number active.
FinallyStaysActive(t) ==
  /\ pc[t] \in {"exit", "unwind"}
  /\ rerun' = FALSE
  /\ event' = NoEvent
  /\ raised' = StillRaised(NoEvent, watch)
  /\ activeHead' = 0
  /\ fetched' = [fetched EXCEPT ![t] = 0]
  /\ evicted' = (evicted \/ Working \ {t} # {})
  /\ dropped' = (dropped \/ rerun)
  /\ Go(t, "idle")
  /\ UNCHANGED <<head, inbox, active, worktree, runs, tip, watch, delivered, seen>>

\* The finally block of handle runs on both ways out, in a critical section of
\* its own, and removes the entries of the number whoever made them.
Finally(t) ==
  /\ pc[t] \in {"exit", "unwind"}
  /\ active' = FALSE
  /\ rerun' = FALSE
  /\ event' = NoEvent
  /\ raised' = StillRaised(NoEvent, watch)
  /\ activeHead' = 0
  /\ fetched' = [fetched EXCEPT ![t] = 0]
  /\ evicted' = (evicted \/ Working \ {t} # {})
  /\ dropped' = (dropped \/ rerun)
  /\ Go(t, "idle")
  /\ UNCHANGED <<head, inbox, worktree, runs, tip, watch, delivered, seen>>

-----------------------------------------------------------------------------
(* GitHub.                                                                  *)

UserPush ==
  /\ head < MaxHead
  /\ head' = head + 1
  /\ inbox' = inbox \cup {head + 1}
  /\ UNCHANGED <<shared, raised, worktree, runs, pc, local, history>>

LoseWebhook(h) ==
  /\ inbox' = inbox \ {h}
  /\ UNCHANGED <<head, shared, raised, worktree, runs, pc, local, history>>

-----------------------------------------------------------------------------
Init ==
  /\ head = 1 /\ inbox = {}
  /\ active = FALSE /\ rerun = FALSE /\ event = NoEvent /\ raised = {}
  /\ activeHead = 0 /\ worktree = NoThread
  /\ runs = [h \in Head |-> "free"]
  /\ pc = [t \in Thread |-> "idle"]
  /\ fetched = [t \in Thread |-> 0] /\ tip = [t \in Thread |-> 0]
  /\ watch = [t \in Thread |-> NoEvent]
  /\ delivered = 0 /\ seen = 0 /\ evicted = FALSE /\ dropped = FALSE

Synchronize(h) ==
  \/ \E t \in Thread : StartHandle(t, h)
  \/ IgnorePush(h)
  \/ QueueOwnPush(h)
  \/ CancelForPush(h)

\* reconcile, a check, a comment: they start work and otherwise change nothing.
\* The PR never has the paused label, with which reconcile would pass it over.
Reconcile == \E t \in Thread : StartHandle(t, 0)

Collect(t) == Fetch(t) \/ StoreHead(t) \/ ClaimRun(t) \/ Skip(t)
Fix(t) == OpenWorktree(t) \/ StartAgent(t) \/ EndAgent(t) \/ CloseWorktree(t)
Loop(t) == \/ \E verdict \in {"free", "completed"} : Finalize(t, verdict)
           \/ Rerun(t) \/ LeaveWorkflow(t) \/ EnsureAutoMerge(t)
           \/ Deactivate(t) \/ Finally(t)

Next ==
  \/ \E h \in inbox : Synchronize(h) \/ LoseWebhook(h)
  \/ Reconcile
  \/ \E t \in Thread : \/ Collect(t) \/ Fix(t) \/ Loop(t) \/ Raise(t)
                       \/ AgentPush(t) \/ AgentMerge(t)
  \/ UserPush

Spec == Init /\ [][Next]_vars

\* The reconciliation loop never ends and every thread runs on.  GitHub is not
\* down for ever, and the agents of one run are few and each has a deadline.
FairSpec ==
  /\ Spec
  /\ WF_vars(Reconcile)
  /\ \A t \in Thread : WF_vars(StoreHead(t) \/ Skip(t) \/ EndAgent(t) \/ Loop(t))
  /\ \A t \in Thread : SF_vars(Fetch(t)) /\ SF_vars(CloseWorktree(t))

-----------------------------------------------------------------------------
(* Properties.                                                              *)

TypeOK ==
  /\ head \in Head /\ inbox \subseteq Head
  /\ active \in BOOLEAN /\ rerun \in BOOLEAN
  /\ event \in Event \cup {NoEvent}
  /\ raised \subseteq Event
  /\ activeHead \in Head \cup {0}
  /\ worktree \in Thread \cup {NoThread}
  /\ runs \in [Head -> RunStatus]
  /\ pc \in [Thread -> Place]
  /\ fetched \in [Thread -> Head \cup {0}]
  /\ tip \in [Thread -> Head \cup {0}]
  /\ watch \in [Thread -> Event \cup {NoEvent}]
  /\ delivered \in Head \cup {0} /\ seen \in Head \cup {0}
  /\ evicted \in BOOLEAN /\ dropped \in BOOLEAN

\* Until a finally removes another thread's entries, a PR has at most one
\* thread in its workflow, and self.active says so.
SoleHandler ==
  ~evicted => \A t \in Working : Working = {t} /\ active

\* Until then, too, an agent never works on unawares: if a head that its
\* worktree does not contain was announced, the event it polls is set, whether
\* the webhook came before the agent started, or before the head was stored.
StaleAgentIsCancelled ==
  ~evicted =>
    \A t \in Thread :
      pc[t] = "agent" /\ delivered > tip[t] => watch[t] \in raised

\* A head announced by a webhook and not fetched by any workflow is owed one:
\* a thread is about to fetch, or a rerun is queued with a thread still there
\* to find it.  Only a failed fetch, or a finally that discards the request
\* after an exception or over another thread, loses a push.
PushIsOwed ==
  ~dropped /\ delivered > seen =>
    \/ \E t \in Thread : pc[t] = "fetch"
    \/ rerun /\ Working # {}

\* Lost webhook, exception or discarded request, reconciliation makes up for
\* it: every head pushed is fetched in the end, or a newer one is.
EveryPushSeen == \A h \in Head : head >= h ~> seen >= h

\* What docs/pr-fixer-daemon.md says of reconciliation, and the active set is
\* for: no duplicate work on a PR already being handled.
NoDuplicateWork == Cardinality(Fixing) <= 1

=============================================================================
