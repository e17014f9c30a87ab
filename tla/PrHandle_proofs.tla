-------------------------- MODULE PrHandle_proofs --------------------------
(***************************************************************************)
(* Proofs about PrHandle, for any number of threads, cancel events and     *)
(* heads.  The inductive invariant ties the dictionaries to the threads:   *)
(* an active number has an event and a thread in the workflow, a           *)
(* registered worktree belongs to a thread inside _fix, and as long as no  *)
(* finally has evicted another thread, the head published for the PR is    *)
(* never ahead of what the one thread knows.                               *)
(***************************************************************************)
EXTENDS PrHandle, TLAPS

\* The dictionaries: why cancel_events[number] is never a KeyError.
Entries ==
  /\ active => event \in Event /\ Working # {}
  /\ worktree \in Thread => worktree \in Fixing

\* No one knows of a head that is not on GitHub.
Known ==
  /\ inbox \subseteq 1..head
  /\ delivered <= head /\ seen <= head
  /\ activeHead <= delivered \/ activeHead <= seen
  /\ \A t \in Thread : fetched[t] <= seen /\ tip[t] <= head

\* What a thread's workflow has of the branch: nothing before it fetches, then
\* the head it fetched, then what is in its worktree.
Base(t) == IF t \in Fixing THEN tip[t] ELSE fetched[t]

\* Until a finally evicts another thread, the published head and the event
\* are those of the one thread at work.
Tracked ==
  ~evicted =>
    /\ ~active => activeHead = 0
    /\ \A t \in Thread :
         /\ pc[t] \in {"fetch", "store"} => activeHead = 0
         /\ pc[t] \in {"claim", "open", "worktree", "agent"} =>
              activeHead <= Base(t)
         /\ pc[t] \in {"store", "claim", "open", "worktree", "agent"}
              /\ delivered > Base(t) => event \in raised
         /\ pc[t] = "agent" => watch[t] = event

IInv == TypeOK /\ Entries /\ Known /\ SoleHandler /\ Tracked /\ PushIsOwed

-----------------------------------------------------------------------------
(* Each conjunct, one step at a time.                                      *)

\* The types and the dictionaries, which need each other: a push sets the
\* event of an active number, so an active number must have one.
LEMMA TypedEntries == TypeOK /\ Entries /\ [Next]_vars => TypeOK' /\ Entries'
<1> SUFFICES ASSUME TypeOK, Entries, [Next]_vars
             PROVE  TypeOK' /\ Entries'
  OBVIOUS
<1> USE PrHandleAssumption
    DEF shared, local, history, Go
<1>1. ASSUME NEW t \in Thread, NEW h \in inbox \cup {0}, StartHandle(t, h)
      PROVE  TypeOK' /\ Entries'
  <2>1. TypeOK'
    BY <1>1 DEF StartHandle, Announce, Newer, IsNewEvent, TypeOK, Entries, Head, Place
  <2>2. Entries'
    BY <1>1 DEF StartHandle, Announce, Newer, IsNewEvent, TypeOK, Entries, Working, Fixing, Place
  <2>3. QED
    BY <2>1, <2>2
<1>2. ASSUME NEW h \in inbox, IgnorePush(h)
      PROVE  TypeOK' /\ Entries'
  <2>1. TypeOK'
    BY <1>2 DEF IgnorePush, Announce, Newer, TypeOK, Entries, Head, Place
  <2>2. Entries'
    BY <1>2 DEF IgnorePush, Announce, Newer, TypeOK, Entries, Working, Fixing, Place
  <2>3. QED
    BY <2>1, <2>2
<1>3. ASSUME NEW h \in inbox, QueueOwnPush(h)
      PROVE  TypeOK' /\ Entries'
  <2>1. TypeOK'
    BY <1>3 DEF QueueOwnPush, Announce, Newer, TypeOK, Entries, Head, Place
  <2>2. Entries'
    BY <1>3 DEF QueueOwnPush, Announce, Newer, TypeOK, Entries, Working, Fixing, Place
  <2>3. QED
    BY <2>1, <2>2
<1>4. ASSUME NEW h \in inbox, CancelForPush(h)
      PROVE  TypeOK' /\ Entries'
  <2>1. TypeOK'
    BY <1>4 DEF CancelForPush, Announce, Newer, TypeOK, Entries, Head, Place
  <2>2. Entries'
    BY <1>4 DEF CancelForPush, Announce, Newer, TypeOK, Entries, Working, Fixing, Place
  <2>3. QED
    BY <2>1, <2>2
<1>5. ASSUME NEW t \in Thread, Fetch(t)
      PROVE  TypeOK' /\ Entries'
  <2>1. TypeOK'
    BY <1>5 DEF Fetch, TypeOK, Entries, Head, Place
  <2>2. Entries'
    BY <1>5 DEF Fetch, TypeOK, Entries, Working, Fixing, Place
  <2>3. QED
    BY <2>1, <2>2
<1>6. ASSUME NEW t \in Thread, StoreHead(t)
      PROVE  TypeOK' /\ Entries'
  <2>1. TypeOK'
    BY <1>6 DEF StoreHead, TypeOK, Entries, Head, Place
  <2>2. Entries'
    BY <1>6 DEF StoreHead, TypeOK, Entries, Working, Fixing, Place
  <2>3. QED
    BY <2>1, <2>2
<1>7. ASSUME NEW t \in Thread, ClaimRun(t)
      PROVE  TypeOK' /\ Entries'
  <2>1. TypeOK'
    BY <1>7 DEF ClaimRun, RunStatus, TypeOK, Entries, Head, Place
  <2>2. Entries'
    BY <1>7 DEF ClaimRun, RunStatus, TypeOK, Entries, Working, Fixing, Place
  <2>3. QED
    BY <2>1, <2>2
<1>8. ASSUME NEW t \in Thread, Skip(t)
      PROVE  TypeOK' /\ Entries'
  <2>1. TypeOK'
    BY <1>8 DEF Skip, TypeOK, Entries, Head, Place
  <2>2. Entries'
    BY <1>8 DEF Skip, TypeOK, Entries, Working, Fixing, Place
  <2>3. QED
    BY <2>1, <2>2
<1>9. ASSUME NEW t \in Thread, OpenWorktree(t)
      PROVE  TypeOK' /\ Entries'
  <2>1. TypeOK'
    BY <1>9 DEF OpenWorktree, TypeOK, Entries, Head, Place
  <2>2. Entries'
    BY <1>9 DEF OpenWorktree, TypeOK, Entries, Working, Fixing, Place
  <2>3. QED
    BY <2>1, <2>2
<1>10. ASSUME NEW t \in Thread, StartAgent(t)
      PROVE  TypeOK' /\ Entries'
  <2>1. TypeOK'
    BY <1>10 DEF StartAgent, TypeOK, Entries, Head, Place
  <2>2. Entries'
    BY <1>10 DEF StartAgent, TypeOK, Entries, Working, Fixing, Place
  <2>3. QED
    BY <2>1, <2>2
<1>11. ASSUME NEW t \in Thread, AgentPush(t)
      PROVE  TypeOK' /\ Entries'
  <2>1. TypeOK'
    BY <1>11 DEF AgentPush, TypeOK, Entries, Head, Place
  <2>2. Entries'
    BY <1>11 DEF AgentPush, TypeOK, Entries, Working, Fixing, Place
  <2>3. QED
    BY <2>1, <2>2
<1>12. ASSUME NEW t \in Thread, AgentMerge(t)
      PROVE  TypeOK' /\ Entries'
  <2>1. TypeOK'
    BY <1>12 DEF AgentMerge, TypeOK, Entries, Head, Place
  <2>2. Entries'
    BY <1>12 DEF AgentMerge, TypeOK, Entries, Working, Fixing, Place
  <2>3. QED
    BY <2>1, <2>2
<1>13. ASSUME NEW t \in Thread, EndAgent(t)
      PROVE  TypeOK' /\ Entries'
  <2>1. TypeOK'
    BY <1>13 DEF EndAgent, StillRaised, TypeOK, Entries, Head, Place
  <2>2. Entries'
    BY <1>13 DEF EndAgent, StillRaised, TypeOK, Entries, Working, Fixing, Place
  <2>3. QED
    BY <2>1, <2>2
<1>14. ASSUME NEW t \in Thread, CloseWorktree(t)
      PROVE  TypeOK' /\ Entries'
  <2>1. TypeOK'
    BY <1>14 DEF CloseWorktree, TypeOK, Entries, Head, Place
  <2>2. Entries'
    BY <1>14 DEF CloseWorktree, TypeOK, Entries, Working, Fixing, Place
  <2>3. QED
    BY <2>1, <2>2
<1>15. ASSUME NEW t \in Thread, NEW verdict \in {"free", "completed"}, Finalize(t, verdict)
      PROVE  TypeOK' /\ Entries'
  <2>1. TypeOK'
    BY <1>15 DEF Finalize, RunStatus, TypeOK, Entries, Head, Place
  <2>2. Entries'
    BY <1>15 DEF Finalize, RunStatus, TypeOK, Entries, Working, Fixing, Place
  <2>3. QED
    BY <2>1, <2>2
<1>16. ASSUME NEW t \in Thread, Rerun(t)
      PROVE  TypeOK' /\ Entries'
  <2>1. TypeOK'
    BY <1>16 DEF Rerun, IsNewEvent, StillRaised, TypeOK, Entries, Head, Place
  <2>2. Entries'
    BY <1>16 DEF Rerun, IsNewEvent, StillRaised, TypeOK, Entries, Working, Fixing, Place
  <2>3. QED
    BY <2>1, <2>2
<1>17. ASSUME NEW t \in Thread, LeaveWorkflow(t)
      PROVE  TypeOK' /\ Entries'
  <2>1. TypeOK'
    BY <1>17 DEF LeaveWorkflow, TypeOK, Entries, Head, Place
  <2>2. Entries'
    BY <1>17 DEF LeaveWorkflow, TypeOK, Entries, Working, Fixing, Place
  <2>3. QED
    BY <2>1, <2>2
<1>18. ASSUME NEW t \in Thread, EnsureAutoMerge(t)
      PROVE  TypeOK' /\ Entries'
  <2>1. TypeOK'
    BY <1>18 DEF EnsureAutoMerge, TypeOK, Entries, Head, Place
  <2>2. Entries'
    BY <1>18 DEF EnsureAutoMerge, TypeOK, Entries, Working, Fixing, Place
  <2>3. QED
    BY <2>1, <2>2
<1>19. ASSUME NEW t \in Thread, Deactivate(t)
      PROVE  TypeOK' /\ Entries'
  <2>1. TypeOK'
    BY <1>19 DEF Deactivate, StillRaised, TypeOK, Entries, Head, Place
  <2>2. Entries'
    BY <1>19 DEF Deactivate, StillRaised, TypeOK, Entries, Working, Fixing, Place
  <2>3. QED
    BY <2>1, <2>2
<1>20. ASSUME NEW t \in Thread, Raise(t)
      PROVE  TypeOK' /\ Entries'
  <2>1. TypeOK'
    BY <1>20 DEF Raise, TypeOK, Entries, Head, Place
  <2>2. Entries'
    BY <1>20 DEF Raise, TypeOK, Entries, Working, Fixing, Place
  <2>3. QED
    BY <2>1, <2>2
<1>21. ASSUME NEW t \in Thread, Finally(t)
      PROVE  TypeOK' /\ Entries'
  <2>1. TypeOK'
    BY <1>21 DEF Finally, StillRaised, TypeOK, Entries, Head, Place
  <2>2. Entries'
    BY <1>21 DEF Finally, StillRaised, TypeOK, Entries, Working, Fixing, Place
  <2>3. QED
    BY <2>1, <2>2
<1>22. ASSUME UserPush
      PROVE  TypeOK' /\ Entries'
  <2>1. TypeOK'
    BY <1>22 DEF UserPush, TypeOK, Entries, Head, Place
  <2>2. Entries'
    BY <1>22 DEF UserPush, TypeOK, Entries, Working, Fixing, Place
  <2>3. QED
    BY <2>1, <2>2
<1>23. ASSUME NEW h \in inbox, LoseWebhook(h)
      PROVE  TypeOK' /\ Entries'
  <2>1. TypeOK'
    BY <1>23 DEF LoseWebhook, TypeOK, Entries, Head, Place
  <2>2. Entries'
    BY <1>23 DEF LoseWebhook, TypeOK, Entries, Working, Fixing, Place
  <2>3. QED
    BY <2>1, <2>2
<1>24. CASE UNCHANGED vars
  BY <1>24 DEF vars, TypeOK, Entries, Working, Fixing
<1>25. QED
  BY <1>1, <1>2, <1>3, <1>4, <1>5, <1>6, <1>7, <1>8, <1>9, <1>10, <1>11, <1>12, <1>13, <1>14, <1>15, <1>16, <1>17, <1>18, <1>19, <1>20, <1>21, <1>22, <1>23, <1>24
     DEF Next, Synchronize, Reconcile, Collect, Fix, Loop


\* What the threads know of the branch never runs ahead of GitHub.
LEMMA KnownInductive ==
  TypeOK /\ Known /\ [Next]_vars => Known'
<1> SUFFICES ASSUME TypeOK, Known, [Next]_vars
             PROVE  Known'
  OBVIOUS
<1> USE PrHandleAssumption
    DEF TypeOK, Known, Head, shared, local, history, Go
<1>1. ASSUME NEW t \in Thread, NEW h \in inbox \cup {0}, StartHandle(t, h)
      PROVE  Known'
  BY <1>1 DEF StartHandle, Announce, Newer, IsNewEvent
<1>2. ASSUME NEW h \in inbox, IgnorePush(h)
      PROVE  Known'
  BY <1>2 DEF IgnorePush, Announce, Newer
<1>3. ASSUME NEW h \in inbox, QueueOwnPush(h)
      PROVE  Known'
  BY <1>3 DEF QueueOwnPush, Announce, Newer, IsOwnPush
<1>4. ASSUME NEW h \in inbox, CancelForPush(h)
      PROVE  Known'
  BY <1>4 DEF CancelForPush, Announce, Newer
<1>5. ASSUME NEW t \in Thread, Fetch(t)
      PROVE  Known'
  BY <1>5 DEF Fetch
<1>6. ASSUME NEW t \in Thread, StoreHead(t)
      PROVE  Known'
  BY <1>6 DEF StoreHead
<1>7. ASSUME NEW t \in Thread, ClaimRun(t)
      PROVE  Known'
  BY <1>7 DEF ClaimRun
<1>8. ASSUME NEW t \in Thread, Skip(t)
      PROVE  Known'
  BY <1>8 DEF Skip
<1>9. ASSUME NEW t \in Thread, OpenWorktree(t)
      PROVE  Known'
  BY <1>9 DEF OpenWorktree
<1>10. ASSUME NEW t \in Thread, StartAgent(t)
      PROVE  Known'
  BY <1>10 DEF StartAgent
<1>11. ASSUME NEW t \in Thread, AgentPush(t)
      PROVE  Known'
  BY <1>11 DEF AgentPush
<1>12. ASSUME NEW t \in Thread, AgentMerge(t)
      PROVE  Known'
  BY <1>12 DEF AgentMerge
<1>13. ASSUME NEW t \in Thread, EndAgent(t)
      PROVE  Known'
  BY <1>13 DEF EndAgent, StillRaised
<1>14. ASSUME NEW t \in Thread, CloseWorktree(t)
      PROVE  Known'
  BY <1>14 DEF CloseWorktree
<1>15. ASSUME NEW t \in Thread, NEW verdict \in {"free", "completed"}, Finalize(t, verdict)
      PROVE  Known'
  BY <1>15 DEF Finalize
<1>16. ASSUME NEW t \in Thread, Rerun(t)
      PROVE  Known'
  BY <1>16 DEF Rerun, IsNewEvent, StillRaised
<1>17. ASSUME NEW t \in Thread, LeaveWorkflow(t)
      PROVE  Known'
  BY <1>17 DEF LeaveWorkflow
<1>18. ASSUME NEW t \in Thread, EnsureAutoMerge(t)
      PROVE  Known'
  BY <1>18 DEF EnsureAutoMerge
<1>19. ASSUME NEW t \in Thread, Deactivate(t)
      PROVE  Known'
  BY <1>19 DEF Deactivate, StillRaised
<1>20. ASSUME NEW t \in Thread, Raise(t)
      PROVE  Known'
  BY <1>20 DEF Raise
<1>21. ASSUME NEW t \in Thread, Finally(t)
      PROVE  Known'
  BY <1>21 DEF Finally, StillRaised
<1>22. ASSUME UserPush
      PROVE  Known'
  BY <1>22 DEF UserPush
<1>23. ASSUME NEW h \in inbox, LoseWebhook(h)
      PROVE  Known'
  BY <1>23 DEF LoseWebhook
<1>24. CASE UNCHANGED vars
  BY <1>24 DEF vars
<1>25. QED
  BY <1>1, <1>2, <1>3, <1>4, <1>5, <1>6, <1>7, <1>8, <1>9, <1>10, <1>11, <1>12, <1>13, <1>14, <1>15, <1>16, <1>17, <1>18, <1>19, <1>20, <1>21, <1>22, <1>23, <1>24
     DEF Next, Synchronize, Reconcile, Collect, Fix, Loop

\* A thread enters the workflow only of an inactive number, so a second one
\* takes a finally that made an active number inactive.
LEMMA SoleHandlerInductive ==
  TypeOK /\ SoleHandler /\ [Next]_vars => SoleHandler'
<1> SUFFICES ASSUME TypeOK, SoleHandler, [Next]_vars
             PROVE  SoleHandler'
  OBVIOUS
<1> USE PrHandleAssumption
    DEF TypeOK, SoleHandler, Working, Place, shared, local, history, Go
<1>1. ASSUME NEW t \in Thread, NEW h \in inbox \cup {0}, StartHandle(t, h)
      PROVE  SoleHandler'
  BY <1>1 DEF StartHandle, Announce, Newer, IsNewEvent
<1>2. ASSUME NEW h \in inbox, IgnorePush(h)
      PROVE  SoleHandler'
  BY <1>2 DEF IgnorePush, Announce, Newer
<1>3. ASSUME NEW h \in inbox, QueueOwnPush(h)
      PROVE  SoleHandler'
  BY <1>3 DEF QueueOwnPush, Announce, Newer, IsOwnPush
<1>4. ASSUME NEW h \in inbox, CancelForPush(h)
      PROVE  SoleHandler'
  BY <1>4 DEF CancelForPush, Announce, Newer
<1>5. ASSUME NEW t \in Thread, Fetch(t)
      PROVE  SoleHandler'
  BY <1>5 DEF Fetch
<1>6. ASSUME NEW t \in Thread, StoreHead(t)
      PROVE  SoleHandler'
  BY <1>6 DEF StoreHead
<1>7. ASSUME NEW t \in Thread, ClaimRun(t)
      PROVE  SoleHandler'
  BY <1>7 DEF ClaimRun
<1>8. ASSUME NEW t \in Thread, Skip(t)
      PROVE  SoleHandler'
  BY <1>8 DEF Skip
<1>9. ASSUME NEW t \in Thread, OpenWorktree(t)
      PROVE  SoleHandler'
  BY <1>9 DEF OpenWorktree
<1>10. ASSUME NEW t \in Thread, StartAgent(t)
      PROVE  SoleHandler'
  BY <1>10 DEF StartAgent
<1>11. ASSUME NEW t \in Thread, AgentPush(t)
      PROVE  SoleHandler'
  BY <1>11 DEF AgentPush
<1>12. ASSUME NEW t \in Thread, AgentMerge(t)
      PROVE  SoleHandler'
  BY <1>12 DEF AgentMerge
<1>13. ASSUME NEW t \in Thread, EndAgent(t)
      PROVE  SoleHandler'
  BY <1>13 DEF EndAgent, StillRaised
<1>14. ASSUME NEW t \in Thread, CloseWorktree(t)
      PROVE  SoleHandler'
  BY <1>14 DEF CloseWorktree
<1>15. ASSUME NEW t \in Thread, NEW verdict \in {"free", "completed"}, Finalize(t, verdict)
      PROVE  SoleHandler'
  BY <1>15 DEF Finalize
<1>16. ASSUME NEW t \in Thread, Rerun(t)
      PROVE  SoleHandler'
  BY <1>16 DEF Rerun, IsNewEvent, StillRaised
<1>17. ASSUME NEW t \in Thread, LeaveWorkflow(t)
      PROVE  SoleHandler'
  BY <1>17 DEF LeaveWorkflow
<1>18. ASSUME NEW t \in Thread, EnsureAutoMerge(t)
      PROVE  SoleHandler'
  BY <1>18 DEF EnsureAutoMerge
<1>19. ASSUME NEW t \in Thread, Deactivate(t)
      PROVE  SoleHandler'
  BY <1>19 DEF Deactivate, StillRaised
<1>20. ASSUME NEW t \in Thread, Raise(t)
      PROVE  SoleHandler'
  BY <1>20 DEF Raise
<1>21. ASSUME NEW t \in Thread, Finally(t)
      PROVE  SoleHandler'
  BY <1>21 DEF Finally, StillRaised
<1>22. ASSUME UserPush
      PROVE  SoleHandler'
  BY <1>22 DEF UserPush
<1>23. ASSUME NEW h \in inbox, LoseWebhook(h)
      PROVE  SoleHandler'
  BY <1>23 DEF LoseWebhook
<1>24. CASE UNCHANGED vars
  BY <1>24 DEF vars
<1>25. QED
  BY <1>1, <1>2, <1>3, <1>4, <1>5, <1>6, <1>7, <1>8, <1>9, <1>10, <1>11, <1>12, <1>13, <1>14, <1>15, <1>16, <1>17, <1>18, <1>19, <1>20, <1>21, <1>22, <1>23, <1>24
     DEF Next, Synchronize, Reconcile, Collect, Fix, Loop

\* The published head lags behind the one thread's, and a push that is ahead of
\* it has set the event.
LEMMA TrackedInductive ==
  TypeOK /\ Entries /\ Known /\ SoleHandler /\ Tracked /\ [Next]_vars => Tracked'
<1> SUFFICES ASSUME TypeOK, Entries, Known, SoleHandler, Tracked, [Next]_vars
             PROVE  Tracked'
  OBVIOUS
<1> USE PrHandleAssumption
    DEF TypeOK, Entries, Known, SoleHandler, Tracked, Base, Working, Fixing, Head, Place, shared, local, history, Go
<1>1. ASSUME NEW t \in Thread, NEW h \in inbox \cup {0}, StartHandle(t, h)
      PROVE  Tracked'
  BY <1>1 DEF StartHandle, Announce, Newer, IsNewEvent
<1>2. ASSUME NEW h \in inbox, IgnorePush(h)
      PROVE  Tracked'
  BY <1>2 DEF IgnorePush, Announce, Newer
<1>3. ASSUME NEW h \in inbox, QueueOwnPush(h)
      PROVE  Tracked'
  BY <1>3 DEF QueueOwnPush, Announce, Newer, IsOwnPush
<1>4. ASSUME NEW h \in inbox, CancelForPush(h)
      PROVE  Tracked'
  BY <1>4 DEF CancelForPush, Announce, Newer
<1>5. ASSUME NEW t \in Thread, Fetch(t)
      PROVE  Tracked'
  BY <1>5 DEF Fetch
<1>6. ASSUME NEW t \in Thread, StoreHead(t)
      PROVE  Tracked'
  BY <1>6 DEF StoreHead
<1>7. ASSUME NEW t \in Thread, ClaimRun(t)
      PROVE  Tracked'
  BY <1>7 DEF ClaimRun
<1>8. ASSUME NEW t \in Thread, Skip(t)
      PROVE  Tracked'
  BY <1>8 DEF Skip
<1>9. ASSUME NEW t \in Thread, OpenWorktree(t)
      PROVE  Tracked'
  BY <1>9 DEF OpenWorktree
<1>10. ASSUME NEW t \in Thread, StartAgent(t)
      PROVE  Tracked'
  BY <1>10 DEF StartAgent
<1>11. ASSUME NEW t \in Thread, AgentPush(t)
      PROVE  Tracked'
  BY <1>11 DEF AgentPush
<1>12. ASSUME NEW t \in Thread, AgentMerge(t)
      PROVE  Tracked'
  BY <1>12 DEF AgentMerge
<1>13. ASSUME NEW t \in Thread, EndAgent(t)
      PROVE  Tracked'
  BY <1>13 DEF EndAgent, StillRaised
<1>14. ASSUME NEW t \in Thread, CloseWorktree(t)
      PROVE  Tracked'
  BY <1>14 DEF CloseWorktree
<1>15. ASSUME NEW t \in Thread, NEW verdict \in {"free", "completed"}, Finalize(t, verdict)
      PROVE  Tracked'
  BY <1>15 DEF Finalize
<1>16. ASSUME NEW t \in Thread, Rerun(t)
      PROVE  Tracked'
  BY <1>16 DEF Rerun, IsNewEvent, StillRaised
<1>17. ASSUME NEW t \in Thread, LeaveWorkflow(t)
      PROVE  Tracked'
  BY <1>17 DEF LeaveWorkflow
<1>18. ASSUME NEW t \in Thread, EnsureAutoMerge(t)
      PROVE  Tracked'
  BY <1>18 DEF EnsureAutoMerge
<1>19. ASSUME NEW t \in Thread, Deactivate(t)
      PROVE  Tracked'
  BY <1>19 DEF Deactivate, StillRaised
<1>20. ASSUME NEW t \in Thread, Raise(t)
      PROVE  Tracked'
  BY <1>20 DEF Raise
<1>21. ASSUME NEW t \in Thread, Finally(t)
      PROVE  Tracked'
  BY <1>21 DEF Finally, StillRaised
<1>22. ASSUME UserPush
      PROVE  Tracked'
  BY <1>22 DEF UserPush
<1>23. ASSUME NEW h \in inbox, LoseWebhook(h)
      PROVE  Tracked'
  BY <1>23 DEF LoseWebhook
<1>24. CASE UNCHANGED vars
  BY <1>24 DEF vars
<1>25. QED
  BY <1>1, <1>2, <1>3, <1>4, <1>5, <1>6, <1>7, <1>8, <1>9, <1>10, <1>11, <1>12, <1>13, <1>14, <1>15, <1>16, <1>17, <1>18, <1>19, <1>20, <1>21, <1>22, <1>23, <1>24
     DEF Next, Synchronize, Reconcile, Collect, Fix, Loop

\* A rerun request outlives everything but a finally.
LEMMA PushIsOwedInductive ==
  TypeOK /\ Entries /\ Known /\ PushIsOwed /\ [Next]_vars => PushIsOwed'
<1> SUFFICES ASSUME TypeOK, Entries, Known, PushIsOwed, [Next]_vars
             PROVE  PushIsOwed'
  OBVIOUS
<1> USE PrHandleAssumption
    DEF TypeOK, Entries, Known, PushIsOwed, Working, Head, Place, shared, local, history, Go
<1>1. ASSUME NEW t \in Thread, NEW h \in inbox \cup {0}, StartHandle(t, h)
      PROVE  PushIsOwed'
  BY <1>1 DEF StartHandle, Announce, Newer, IsNewEvent
<1>2. ASSUME NEW h \in inbox, IgnorePush(h)
      PROVE  PushIsOwed'
  BY <1>2 DEF IgnorePush, Announce, Newer
<1>3. ASSUME NEW h \in inbox, QueueOwnPush(h)
      PROVE  PushIsOwed'
  BY <1>3 DEF QueueOwnPush, Announce, Newer, IsOwnPush
<1>4. ASSUME NEW h \in inbox, CancelForPush(h)
      PROVE  PushIsOwed'
  BY <1>4 DEF CancelForPush, Announce, Newer
<1>5. ASSUME NEW t \in Thread, Fetch(t)
      PROVE  PushIsOwed'
  BY <1>5 DEF Fetch
<1>6. ASSUME NEW t \in Thread, StoreHead(t)
      PROVE  PushIsOwed'
  BY <1>6 DEF StoreHead
<1>7. ASSUME NEW t \in Thread, ClaimRun(t)
      PROVE  PushIsOwed'
  BY <1>7 DEF ClaimRun
<1>8. ASSUME NEW t \in Thread, Skip(t)
      PROVE  PushIsOwed'
  BY <1>8 DEF Skip
<1>9. ASSUME NEW t \in Thread, OpenWorktree(t)
      PROVE  PushIsOwed'
  BY <1>9 DEF OpenWorktree
<1>10. ASSUME NEW t \in Thread, StartAgent(t)
      PROVE  PushIsOwed'
  BY <1>10 DEF StartAgent
<1>11. ASSUME NEW t \in Thread, AgentPush(t)
      PROVE  PushIsOwed'
  BY <1>11 DEF AgentPush
<1>12. ASSUME NEW t \in Thread, AgentMerge(t)
      PROVE  PushIsOwed'
  BY <1>12 DEF AgentMerge
<1>13. ASSUME NEW t \in Thread, EndAgent(t)
      PROVE  PushIsOwed'
  BY <1>13 DEF EndAgent, StillRaised
<1>14. ASSUME NEW t \in Thread, CloseWorktree(t)
      PROVE  PushIsOwed'
  BY <1>14 DEF CloseWorktree
<1>15. ASSUME NEW t \in Thread, NEW verdict \in {"free", "completed"}, Finalize(t, verdict)
      PROVE  PushIsOwed'
  BY <1>15 DEF Finalize
<1>16. ASSUME NEW t \in Thread, Rerun(t)
      PROVE  PushIsOwed'
  BY <1>16 DEF Rerun, IsNewEvent, StillRaised
<1>17. ASSUME NEW t \in Thread, LeaveWorkflow(t)
      PROVE  PushIsOwed'
  BY <1>17 DEF LeaveWorkflow
<1>18. ASSUME NEW t \in Thread, EnsureAutoMerge(t)
      PROVE  PushIsOwed'
  BY <1>18 DEF EnsureAutoMerge
<1>19. ASSUME NEW t \in Thread, Deactivate(t)
      PROVE  PushIsOwed'
  BY <1>19 DEF Deactivate, StillRaised
<1>20. ASSUME NEW t \in Thread, Raise(t)
      PROVE  PushIsOwed'
  BY <1>20 DEF Raise
<1>21. ASSUME NEW t \in Thread, Finally(t)
      PROVE  PushIsOwed'
  BY <1>21 DEF Finally, StillRaised
<1>22. ASSUME UserPush
      PROVE  PushIsOwed'
  BY <1>22 DEF UserPush
<1>23. ASSUME NEW h \in inbox, LoseWebhook(h)
      PROVE  PushIsOwed'
  BY <1>23 DEF LoseWebhook
<1>24. CASE UNCHANGED vars
  BY <1>24 DEF vars
<1>25. QED
  BY <1>1, <1>2, <1>3, <1>4, <1>5, <1>6, <1>7, <1>8, <1>9, <1>10, <1>11, <1>12, <1>13, <1>14, <1>15, <1>16, <1>17, <1>18, <1>19, <1>20, <1>21, <1>22, <1>23, <1>24
     DEF Next, Synchronize, Reconcile, Collect, Fix, Loop

-----------------------------------------------------------------------------
(* The theorems.                                                           *)

\* The inductive invariant holds in every state handle can reach.
THEOREM HandleInvariant == Spec => []IInv
<1>1. Init => IInv
  <2> SUFFICES ASSUME Init
               PROVE  IInv
    OBVIOUS
  <2> USE PrHandleAssumption DEF Init
  <2>1. TypeOK
    <3>1. head \in Head /\ inbox \subseteq Head
      BY DEF Head
    <3>2. \A t \in Thread : pc[t] = "idle"
      OBVIOUS
    <3>3. QED
      BY <3>1, <3>2 DEF TypeOK, RunStatus, Place
  <2>2. Entries /\ Known /\ SoleHandler /\ Tracked /\ PushIsOwed
    BY <2>1, NoThread \notin Thread
       DEF Entries, Known, SoleHandler, Tracked, PushIsOwed, Working, Head,
           Place
  <2>3. QED
    BY <2>1, <2>2 DEF IInv
<1>2. IInv /\ [Next]_vars => IInv'
  BY TypedEntries, KnownInductive, SoleHandlerInductive, TrackedInductive,
     PushIsOwedInductive DEF IInv
<1>3. QED
  BY <1>1, <1>2, PTL DEF Spec

\* The entries of a number and the state of its threads have their types.
THEOREM TypeCorrect == Spec => []TypeOK
<1>1. IInv => TypeOK
  BY DEF IInv
<1>2. QED
  BY <1>1, HandleInvariant, PTL

\* However many threads call handle, a pull request has at most one of them in
\* its workflow, and is marked active for it, until a finally block removes
\* entries that a later handle made.
THEOREM OneHandlerPerPullRequest == Spec => []SoleHandler
<1>1. IInv => SoleHandler
  BY DEF IInv
<1>2. QED
  BY <1>1, HandleInvariant, PTL

\* Until then an agent that works on an outdated head has been told to stop, at
\* whatever point of the run the push was announced.
THEOREM OutdatedAgentsAreCancelled == Spec => []StaleAgentIsCancelled
<1>1. IInv => StaleAgentIsCancelled
  BY PrHandleAssumption
     DEF IInv, TypeOK, Tracked, StaleAgentIsCancelled, Base, Fixing
<1>2. QED
  BY <1>1, HandleInvariant, PTL

\* An announced push is never forgotten but by a failed fetch or by a finally
\* block that throws a rerun request away.
THEOREM PushesAreOwedAFetch == Spec => []PushIsOwed
<1>1. IInv => PushIsOwed
  BY DEF IInv
<1>2. QED
  BY <1>1, HandleInvariant, PTL

=============================================================================
