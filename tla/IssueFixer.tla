------------------------------ MODULE IssueFixer ------------------------------
(***************************************************************************)
(* One label queue of the issue fixer: IssueFixerService and the worktree, *)
(* agents and pull request of each attempt.                                *)
(*                                                                         *)
(* handle runs collect, remediate and finalize on a thread of its own and  *)
(* admits one thread per issue, so a thread is named by its issue.  A      *)
(* branch belongs to one reopen cycle of an issue; a run to one text of it *)
(* as well.  Nothing reads the state of a branch or a run after the issue  *)
(* was collected with another one, so that it is kept for the last run     *)
(* only.  What an agent writes is abstracted to whether the worktree's     *)
(* head is the base, work that is not pushed, or the clean pushed branch.  *)
(***************************************************************************)
EXTENDS Naturals, FiniteSets

CONSTANTS
  Issue,          \* issues that carry the queue's label
  MaxEdits,       \* bound on edits of a title or body
  MaxCycle,       \* bound on reopenings
  MaxCrashes,     \* bound on restarts of the daemon
  MaxActs,        \* bound on what people do meanwhile, besides closing issues
  MaxFailures,    \* max_consecutive_failures
  MaxConcurrent,  \* max_concurrent_worktree_runs
  Continuations,  \* continuations
  MaxRevisions,   \* pre_pr_max_revisions
  Primary, Fallback, NoProvider, \* provider, and fallback_provider or none
  Codex,          \* the providers whose runs are escalated by _implement
  Planning,       \* planning_effort is set
  Handoff,        \* handoff_model is set
  PrePr           \* kind is answer and pre_pr_review is on

Branch == Issue \X (0..MaxCycle)
Run == Issue \X (0..MaxEdits) \X (0..MaxCycle)
Provider == {Primary, Fallback} \ {NoProvider}

ASSUME IssueFixerAssumption ==
  /\ MaxEdits \in Nat /\ MaxCycle \in Nat /\ MaxCrashes \in Nat /\ MaxActs \in Nat
  /\ MaxFailures \in Nat \ {0} /\ MaxConcurrent \in Nat \ {0}
  /\ Continuations \in Nat /\ MaxRevisions \in Nat
  /\ Primary # NoProvider /\ Primary # Fallback /\ Codex \subseteq Provider
  /\ Planning \in BOOLEAN /\ Handoff \in BOOLEAN /\ PrePr \in BOOLEAN

VARIABLES
  issue,     \* state, title and body, reopenings and the paused label
  prs,       \* head branches with an open pull request
  opened,    \* head branches a pull request was ever opened from
  run,       \* the run an issue was last collected with
  remote,    \* its branch at origin: absent, ahead of the base, or behind it too
  sound,     \* the pushed head was accepted by the attempt that pushed it
  row,       \* the ledger's row of the run
  saved,     \* the run has a plan file
  unpushed,  \* the local branch holds commits origin lacks
  left,      \* a registered worktree of the branch outlived its attempt
  quota,     \* providers over their usage limit
  planned,   \* how often the run's plan was posted; 2 stands for more
  pc,        \* where the issue's thread is
  tree,      \* its worktree: none, on the local branch, or detached
  head,      \* the worktree's head
  provider, last, \* the provider in use and how its last run ended
  turns,     \* continuations, or revisions, of the provider in this attempt
  fixed,
  crashes, acts

github == <<issue, prs, opened>>
branches == <<remote, sound, unpushed, left>>
disk == <<run, row, saved, planned>>
thread == <<pc, tree, head, provider, last, turns, fixed>>
bounds == <<crashes, acts>>
vars == <<github, branches, disk, quota, thread, bounds>>

-----------------------------------------------------------------------------
Least(a, b) == IF a <= b THEN a ELSE b

NoRow == [status |-> "absent", attempt |-> 0]

BranchOf(r) == <<r[1], r[3]>>

\* The run and the branch of the issue as it reads now.
Current(i) == <<i, issue[i].text, issue[i].cycle>>

\* Among the hundred pull requests that gh pr list returns; more are never open.
HasPr(i) == \E b \in prs : b[1] = i

AllBlocked == Provider \subseteq quota

Agents == {"assess", "plan", "build", "more", "review"}
Inside(i) == tree[i] # "none"

\* The branch of the issue's last run.
Head(i) == BranchOf(run[i])

Go(i, place) == pc' = [pc EXCEPT ![i] = place]

End(i) ==
  /\ Go(i, "idle")
  /\ tree' = [tree EXCEPT ![i] = "none"]
  /\ head' = [head EXCEPT ![i] = "base"]
  /\ provider' = [provider EXCEPT ![i] = NoProvider]
  /\ last' = [last EXCEPT ![i] = "ok"] /\ turns' = [turns EXCEPT ![i] = 0]
  /\ fixed' = [fixed EXCEPT ![i] = FALSE]

-----------------------------------------------------------------------------
(* _collect_issue.                                                          *)

Fresh(f, i, value) == f' = [f EXCEPT ![i] = value]

\* The issue and its events are read ...
Collect(i) ==
  LET now == Current(i) IN
  /\ pc[i] = "idle"
  /\ issue[i].open /\ ~issue[i].paused
  /\ run' = [run EXCEPT ![i] = now]
  /\ \/ now = run[i] /\ UNCHANGED <<row, saved, planned>>
     \/ /\ now # run[i]
        /\ Fresh(row, i, NoRow) /\ Fresh(saved, i, FALSE) /\ Fresh(planned, i, 0)
  /\ \/ BranchOf(now) = Head(i) /\ UNCHANGED branches
     \/ /\ BranchOf(now) # Head(i)
        /\ Fresh(remote, i, "absent") /\ Fresh(sound, i, FALSE)
        /\ Fresh(unpushed, i, FALSE) /\ Fresh(left, i, FALSE)
  /\ Go(i, "claim")
  /\ UNCHANGED <<github, quota, tree, head, provider, last, turns, fixed, bounds>>

\* Variant: a claim counts the attempts anew.
ClaimedAnew(i) ==
  /\ row' = [row EXCEPT ![i] = [status |-> "running", attempt |-> 1]]
  /\ Go(i, "enter")
  /\ UNCHANGED <<tree, head, provider, last, turns, fixed>>

\* claim_run counts the attempts; one at the limit counts like one beyond it.
Claimed(i) ==
  /\ row' = [row EXCEPT ![i] =
       [status |-> "running", attempt |-> Least(@.attempt + 1, MaxFailures)]]
  /\ Go(i, "enter")
  /\ UNCHANGED <<tree, head, provider, last, turns, fixed>>

Claimable(i) == row[i].status \in {"absent", "failed", "stale"}

\* Variant: open pull requests are not looked for.
ClaimBlind(i) ==
  /\ pc[i] = "claim"
  /\ \/ /\ AllBlocked \/ ~Claimable(i)
        /\ End(i) /\ UNCHANGED row
     \/ /\ ~AllBlocked /\ Claimable(i)
        /\ Claimed(i)
  /\ UNCHANGED <<github, branches, run, saved, planned, quota, bounds>>

\* ... then the open pull requests, the quota and the ledger.  claim_run also
\* takes over a running row that is an hour old.
Claim(i) ==
  /\ pc[i] = "claim"
  /\ \/ /\ HasPr(i) \/ AllBlocked \/ ~Claimable(i)
        /\ End(i) /\ UNCHANGED row
     \/ /\ ~HasPr(i) /\ ~AllBlocked /\ Claimable(i)
        /\ Claimed(i)
  /\ UNCHANGED <<github, branches, run, saved, planned, quota, bounds>>

-----------------------------------------------------------------------------
(* _isolated_issue_worktree.                                                *)

\* The first agent run of a provider: with a saved plan, it is implemented.
FirstStep(p, i) ==
  IF p \in Codex /\ Planning /\ ~saved[i] THEN "assess" ELSE "build"

Opens(i, kind, h) ==
  /\ tree' = [tree EXCEPT ![i] = kind]
  /\ head' = [head EXCEPT ![i] = h]
  /\ fixed' = [fixed EXCEPT ![i] = (h = "pushed")]
  /\ Go(i, IF h = "pushed" THEN "leave" ELSE FirstStep(Primary, i))

\* A worktree that an interrupted attempt left registered is used again; a
\* pushed branch is checked out detached; a local branch with commits is
\* continued; else the branch is created.  A pushed branch that already holds
\* the base and merges cleanly is taken for the fix.
Enter(i) ==
  /\ pc[i] = "enter"
  /\ Cardinality({j \in Issue : Inside(j)}) < MaxConcurrent
  /\ \/ /\ left[i]
        /\ \/ Opens(i, "attached", "unpushed")
           \/ remote[i] = "ahead" /\ Opens(i, "attached", "pushed")
           \/ remote[i] = "absent" /\ Opens(i, "attached", "base")
     \/ /\ ~left[i] /\ remote[i] # "absent"
        /\ Opens(i, "detached", IF remote[i] = "ahead" THEN "pushed" ELSE "unpushed")
     \/ /\ ~left[i] /\ remote[i] = "absent"
        /\ Opens(i, "attached", IF unpushed[i] THEN "unpushed" ELSE "base")
  /\ left' = [left EXCEPT ![i] = FALSE]
  /\ provider' = [provider EXCEPT ![i] = Primary]
  /\ UNCHANGED <<github, remote, sound, unpushed, disk, quota, last, turns, bounds>>

\* Fetching, adding, switching or merging raises: the worktree is removed, the
\* one of the interrupted attempt too, and the permit is returned.  What that attempt
\* had committed stays on the local branch: only an empty one is dropped.
EnterFails(i) ==
  /\ pc[i] = "enter"
  /\ Cardinality({j \in Issue : Inside(j)}) < MaxConcurrent
  /\ left' = [left EXCEPT ![i] = FALSE]
  /\ \/ UNCHANGED unpushed
     \/ left[i] /\ unpushed' = [unpushed EXCEPT ![i] = TRUE]
  /\ Go(i, "finish")
  /\ UNCHANGED <<github, remote, sound, disk, quota, tree, head, provider, last, turns,
                 fixed, bounds>>

-----------------------------------------------------------------------------
(* run_agent, run_with_fallback and _implement.                             *)

Result == {"ok", "blocked", "error", "timeout", "quota"}
Finished == {"ok", "blocked"}

\* One agent run: how it ends, and whether it leaves the worktree alone, edits
\* or commits in it, or leaves it clean with everything pushed.
AgentRuns(i, result, h) ==
  LET p == provider[i] IN
  /\ p \in quota => result = "quota" /\ h = head[i]
  /\ quota' = IF result = "quota" THEN quota \cup {p} ELSE quota
  /\ last' = [last EXCEPT ![i] = result]
  /\ head' = [head EXCEPT ![i] = h]
  /\ \/ h # "pushed" /\ UNCHANGED <<remote, sound>>
     \/ h \in {"pushed", "unpushed"} /\ p \notin quota
        /\ remote' = [remote EXCEPT ![i] = "ahead"]
        /\ sound' = [sound EXCEPT ![i] = FALSE]

Agent(i) == \E result \in Result : \E h \in {head[i], "unpushed", "pushed"} :
              AgentRuns(i, result, h)

NoAgent(i) == UNCHANGED <<remote, sound, quota, last, head>>

Elsewhere(i) == UNCHANGED <<github, unpushed, left, run, row, tree, provider, bounds>>

\* The run assesses the scope first and may ask for a plan instead.
Assess(i) ==
  /\ pc[i] = "assess"
  /\ Agent(i)
  /\ \/ Go(i, "more")
     \/ last'[i] \in Finished /\ Go(i, "plan")
  /\ Elsewhere(i) /\ UNCHANGED <<saved, planned, turns, fixed>>

\* Variant: the plan is posted and followed but not saved.
PlanUnsaved(i) ==
  /\ pc[i] = "plan"
  /\ \E result \in Result : AgentRuns(i, result, head[i])
  /\ \/ last'[i] \in Finished
        /\ planned' = [planned EXCEPT ![i] = Least(@ + 1, 2)]
        /\ Go(i, "build")
     \/ Go(i, "judge") /\ UNCHANGED planned
  /\ Elsewhere(i) /\ UNCHANGED <<saved, turns, fixed>>

\* A read-only run writes the plan, which is saved and then posted; without a
\* plan the attempt's provider has failed.
Plan(i) ==
  /\ pc[i] = "plan"
  /\ \E result \in Result :
       \/ /\ result \in Finished /\ AgentRuns(i, result, head[i])
          /\ saved' = [saved EXCEPT ![i] = TRUE]
          /\ planned' = [planned EXCEPT ![i] = Least(@ + 1, 2)]
          /\ Go(i, "build")
       \/ /\ result \notin Finished /\ AgentRuns(i, result, head[i])
          /\ Go(i, "judge")
          /\ UNCHANGED <<saved, planned>>
  /\ Elsewhere(i) /\ UNCHANGED <<turns, fixed>>

Build(i) ==
  /\ pc[i] = "build"
  /\ Agent(i)
  /\ Go(i, IF provider[i] \in Codex THEN "more" ELSE "judge")
  /\ Elsewhere(i) /\ UNCHANGED <<saved, planned, turns, fixed>>

\* A run that stopped before it pushed resumes its session; only a blocker that
\* a resumed run reports ends that.
Resume(i) ==
  /\ pc[i] = "more" /\ turns[i] < Continuations
  /\ last[i] \in Finished /\ head[i] # "pushed"
  /\ turns[i] > 0 => last[i] # "blocked"
  /\ Agent(i)
  /\ turns' = [turns EXCEPT ![i] = @ + 1]
  /\ Go(i, "more")
  /\ Elsewhere(i) /\ UNCHANGED <<saved, planned, fixed>>

\* The continuations are over, or the log names no session to resume: another
\* model takes over, unless the run timed out or met the usage limit.
HandOff(i) ==
  /\ pc[i] = "more" /\ Handoff
  /\ last[i] \notin {"timeout", "quota"} /\ head[i] # "pushed"
  /\ Agent(i)
  /\ Go(i, "judge")
  /\ Elsewhere(i) /\ UNCHANGED <<saved, planned, turns, fixed>>

StopHere(i) ==
  /\ pc[i] = "more"
  /\ ~Handoff \/ last[i] \in {"timeout", "quota"} \/ head[i] = "pushed"
  /\ Go(i, "judge")
  /\ NoAgent(i) /\ Elsewhere(i) /\ UNCHANGED <<saved, planned, turns, fixed>>

\* The provider did not finish: the fallback starts again from the base, and the
\* branch at origin is deleted if the push goes through.
FallBack(i) ==
  /\ pc[i] = "judge" /\ last[i] \notin Finished
  /\ provider[i] = Primary /\ Fallback # NoProvider
  /\ head' = [head EXCEPT ![i] = "base"]
  /\ unpushed' = [unpushed EXCEPT ![i] = @ /\ tree[i] # "attached"]
  /\ \/ remote' = [remote EXCEPT ![i] = "absent"] /\ sound' = [sound EXCEPT ![i] = FALSE]
     \/ UNCHANGED <<remote, sound>>
  /\ provider' = [provider EXCEPT ![i] = Fallback]
  /\ last' = [last EXCEPT ![i] = "ok"] /\ turns' = [turns EXCEPT ![i] = 0]
  /\ Go(i, FirstStep(Fallback, i))
  /\ UNCHANGED <<github, left, disk, quota, tree, fixed, bounds>>

Accepted(i) == last[i] \in Finished /\ head[i] = "pushed"

\* verify_pushed: the last run finished and left the branch clean and pushed.
Accept(i) ==
  /\ pc[i] = "judge" /\ Accepted(i)
  /\ fixed' = [fixed EXCEPT ![i] = TRUE]
  /\ turns' = [turns EXCEPT ![i] = 0]
  /\ \/ PrePr /\ Go(i, "review") /\ UNCHANGED sound
     \/ ~PrePr /\ Go(i, "leave") /\ sound' = [sound EXCEPT ![i] = TRUE]
  /\ UNCHANGED <<github, remote, unpushed, left, disk, quota, tree, head, provider,
                 last, bounds>>

\* The provider's part of the attempt is over.
GiveBack(i) ==
  /\ Go(i, "leave")
  /\ provider' = [provider EXCEPT ![i] = NoProvider]
  /\ last' = [last EXCEPT ![i] = "ok"] /\ turns' = [turns EXCEPT ![i] = 0]
  /\ UNCHANGED <<tree, head>>

Reject(i) ==
  /\ pc[i] = "judge" /\ ~Accepted(i)
  /\ last[i] \in Finished \/ provider[i] # Primary \/ Fallback = NoProvider
  /\ GiveBack(i)
  /\ UNCHANGED <<github, branches, disk, quota, fixed, bounds>>

-----------------------------------------------------------------------------
(* _pre_pr_answer_review.                                                   *)

\* The draft passes, the revisions are used up, nothing is left to act on, or
\* the reviewer fails: the pull request may be opened.
ReviewEnds(i) ==
  /\ pc[i] = "review"
  /\ sound' = [sound EXCEPT ![i] = TRUE]
  /\ GiveBack(i)
  /\ UNCHANGED <<github, remote, unpushed, left, disk, quota, fixed, bounds>>

\* A revision that is not verified ends the loop without a pull request.
Revise(i) ==
  /\ pc[i] = "review" /\ turns[i] < MaxRevisions
  /\ Agent(i)
  /\ LET verified == last'[i] \in Finished /\ head'[i] = "pushed" IN
     /\ fixed' = [fixed EXCEPT ![i] = verified]
     /\ Go(i, IF verified THEN "review" ELSE "leave")
  /\ turns' = [turns EXCEPT ![i] = @ + 1]
  /\ Elsewhere(i) /\ UNCHANGED <<saved, planned>>

\* AgentCleanupError, or a git command that fails: the attempt is over.
CleanupFails(i) ==
  /\ pc[i] \in Agents
  /\ fixed' = [fixed EXCEPT ![i] = FALSE]
  /\ GiveBack(i)
  /\ UNCHANGED <<github, branches, disk, quota, bounds>>

\* What is committed in a worktree on the local branch stays when it is removed;
\* edits do not.
Commits(i) ==
  \/ UNCHANGED unpushed
  \/ tree[i] = "attached" /\ head[i] = "unpushed" /\ unpushed' = [unpushed EXCEPT ![i] = TRUE]

\* The worktree is removed and a local branch without work is dropped.  git may
\* fail to remove it, or take too long and fail the attempt.
Leave(i) ==
  /\ pc[i] = "leave"
  /\ tree' = [tree EXCEPT ![i] = "none"] /\ head' = [head EXCEPT ![i] = "base"]
  /\ Commits(i)
  /\ \/ UNCHANGED left
     \/ left' = [left EXCEPT ![i] = (tree[i] = "attached")]
  /\ \/ fixed[i] /\ Go(i, "create") /\ UNCHANGED fixed
     \/ Go(i, "finish") /\ fixed' = [fixed EXCEPT ![i] = FALSE]
  /\ UNCHANGED <<github, remote, sound, disk, quota, provider, last, turns, bounds>>

\* Anything but a RuntimeError leaves the row as it is.
Escape(i) ==
  /\ pc[i] \in Agents
  /\ Commits(i)
  /\ End(i)
  /\ UNCHANGED <<github, remote, sound, left, disk, quota, bounds>>

-----------------------------------------------------------------------------
(* The pull request and _finalize.                                          *)

\* Variant: a refused pull request does not fail the attempt.
CreateAnyway(i) ==
  /\ pc[i] = "create"
  /\ \/ /\ Head(i) \notin prs /\ remote[i] # "absent"
        /\ prs' = prs \cup {Head(i)} /\ opened' = opened \cup {Head(i)}
     \/ UNCHANGED <<prs, opened>>
  /\ Go(i, "finish")
  /\ UNCHANGED <<issue, branches, disk, quota, tree, head, provider, last, turns,
                 fixed, bounds>>

\* gh pr create: GitHub refuses a second one for the branch; the call may fail,
\* also after the pull request was made.
Create(i) ==
  /\ pc[i] = "create"
  /\ \/ /\ Head(i) \notin prs /\ remote[i] # "absent"
        /\ prs' = prs \cup {Head(i)} /\ opened' = opened \cup {Head(i)}
        /\ fixed' \in {fixed, [fixed EXCEPT ![i] = FALSE]}
     \/ UNCHANGED <<prs, opened>> /\ fixed' = [fixed EXCEPT ![i] = FALSE]
  /\ Go(i, "finish")
  /\ UNCHANGED <<issue, branches, disk, quota, tree, head, provider, last, turns,
                 bounds>>

\* Variant: the result replaces the row.
FinishBare(i) ==
  /\ pc[i] = "finish"
  /\ row' = [row EXCEPT ![i] = [status |-> IF fixed[i] THEN "completed" ELSE "failed"]]
  /\ Go(i, "pause")
  /\ UNCHANGED <<github, branches, run, saved, planned, quota, tree, head, provider, last,
                 turns, fixed, bounds>>

\* complete_run.
Finish(i) ==
  /\ pc[i] = "finish"
  /\ row' = [row EXCEPT ![i].status = IF fixed[i] THEN "completed" ELSE "failed"]
  /\ Go(i, "pause")
  /\ UNCHANGED <<github, branches, run, saved, planned, quota, tree, head, provider, last,
                 turns, fixed, bounds>>

Exhausted(i) ==
  ~fixed[i] /\ row[i].attempt >= MaxFailures /\ ~AllBlocked

\* _auto_pause_if_exhausted, when the label can be added.
Pause(i) ==
  /\ pc[i] = "pause" /\ Exhausted(i)
  /\ issue' = [issue EXCEPT ![i].paused = TRUE]
  /\ End(i)
  /\ UNCHANGED <<prs, opened, branches, disk, quota, bounds>>

\* Nothing to pause, or the label could not be added.
NoPause(i) ==
  /\ pc[i] = "pause"
  /\ End(i)
  /\ UNCHANGED <<github, branches, disk, quota, bounds>>

-----------------------------------------------------------------------------
(* People, providers and the host.                                          *)

Acts == acts < MaxActs /\ acts' = acts + 1

Edit(i) ==
  /\ Acts
  /\ issue[i].text < MaxEdits
  /\ issue' = [issue EXCEPT ![i].text = @ + 1]
  /\ UNCHANGED <<prs, opened, branches, disk, quota, thread, crashes>>

Close(i) ==
  /\ issue[i].open
  /\ issue' = [issue EXCEPT ![i].open = FALSE]
  /\ UNCHANGED <<prs, opened, branches, disk, quota, thread, bounds>>

Reopen(i) ==
  /\ Acts
  /\ ~issue[i].open /\ issue[i].cycle < MaxCycle
  /\ issue' = [issue EXCEPT ![i] = [@ EXCEPT !.open = TRUE, !.cycle = issue[i].cycle + 1]]
  /\ UNCHANGED <<prs, opened, branches, disk, quota, thread, crashes>>

Unpause(i) ==
  /\ Acts
  /\ issue[i].paused
  /\ issue' = [issue EXCEPT ![i].paused = FALSE]
  /\ UNCHANGED <<prs, opened, branches, disk, quota, thread, crashes>>

\* A pull request is closed, or merged, which may close the issue.
EndPr(b) ==
  /\ Acts
  /\ b \in prs
  /\ prs' = prs \ {b}
  /\ issue' \in {issue, [issue EXCEPT ![b[1]].open = FALSE]}
  /\ UNCHANGED <<opened, branches, disk, quota, thread, crashes>>

\* Something is merged to the base.
MoveBase ==
  /\ Acts
  /\ remote' = [i \in Issue |-> IF remote[i] = "ahead" THEN "behind" ELSE remote[i]]
  /\ UNCHANGED <<github, sound, unpushed, left, disk, quota, thread, crashes>>

LiftQuota(p) ==
  /\ quota' = quota \ {p}
  /\ UNCHANGED <<github, branches, disk, thread, bounds>>

\* A running row whose attempt is gone turns an hour old.
GrowStale(i) ==
  /\ row[i].status = "running" /\ pc[i] \in {"idle", "claim"}
  /\ row' = [row EXCEPT ![i].status = "stale"]
  /\ UNCHANGED <<github, branches, run, saved, planned, quota, thread, bounds>>

\* The daemon ends and starts again: recover_interrupted_runs fails its rows.
Restart ==
  /\ crashes < MaxCrashes
  /\ crashes' = crashes + 1
  /\ row' = [i \in Issue |-> IF row[i].status \in {"running", "stale"}
                             THEN [row[i] EXCEPT !.status = "failed"] ELSE row[i]]
  /\ left' = [i \in Issue |-> left[i] \/ tree[i] = "attached"]
  /\ pc' = [i \in Issue |-> "idle"]
  /\ tree' = [i \in Issue |-> "none"] /\ head' = [i \in Issue |-> "base"]
  /\ provider' = [i \in Issue |-> NoProvider] /\ last' = [i \in Issue |-> "ok"]
  /\ turns' = [i \in Issue |-> 0] /\ fixed' = [i \in Issue |-> FALSE]
  /\ UNCHANGED <<github, remote, sound, unpushed, run, saved, planned, quota, acts>>

-----------------------------------------------------------------------------
Init ==
  /\ issue = [i \in Issue |-> [open |-> TRUE, paused |-> FALSE, text |-> 0, cycle |-> 0]]
  /\ prs = {} /\ opened = {}
  /\ run = [i \in Issue |-> <<i, 0, 0>>]
  /\ remote = [i \in Issue |-> "absent"] /\ sound = [i \in Issue |-> FALSE]
  /\ unpushed = [i \in Issue |-> FALSE] /\ left = [i \in Issue |-> FALSE]
  /\ row = [i \in Issue |-> NoRow]
  /\ saved = [i \in Issue |-> FALSE] /\ planned = [i \in Issue |-> 0]
  /\ quota = {}
  /\ pc = [i \in Issue |-> "idle"]
  /\ tree = [i \in Issue |-> "none"] /\ head = [i \in Issue |-> "base"]
  /\ provider = [i \in Issue |-> NoProvider] /\ last = [i \in Issue |-> "ok"]
  /\ turns = [i \in Issue |-> 0] /\ fixed = [i \in Issue |-> FALSE]
  /\ crashes = 0 /\ acts = 0

Handle(i) ==
  \/ Collect(i) \/ Claim(i) \/ Enter(i) \/ EnterFails(i)
  \/ Assess(i) \/ Plan(i) \/ Build(i) \/ Resume(i) \/ HandOff(i) \/ StopHere(i)
  \/ FallBack(i) \/ Accept(i) \/ Reject(i) \/ ReviewEnds(i) \/ Revise(i)
  \/ CleanupFails(i) \/ Escape(i) \/ Leave(i)
  \/ Create(i) \/ Finish(i) \/ Pause(i) \/ NoPause(i)

Next ==
  \/ \E i \in Issue : Handle(i) \/ GrowStale(i) \/ Edit(i) \/ Close(i) \/ Reopen(i) \/ Unpause(i)
  \/ \E b \in Branch : EndPr(b)
  \/ \E p \in Provider : LiftQuota(p)
  \/ MoveBase \/ Restart

Spec == Init /\ [][Next]_vars

\* reconcile_loop starts a thread for every listed issue, threads run on, a row
\* grows old, and GitHub does not refuse the paused label for ever.
Fairness ==
  \A i \in Issue : WF_vars(Handle(i)) /\ SF_vars(Pause(i)) /\ WF_vars(GrowStale(i))

FairSpec == Spec /\ Fairness

-----------------------------------------------------------------------------
(* Properties.                                                              *)

Place == {"idle", "claim", "enter", "assess", "plan", "build", "more", "judge",
          "review", "leave", "create", "finish", "pause"}

\* The variables have their types.
TypeOK ==
  /\ issue \in [Issue -> [open : BOOLEAN, paused : BOOLEAN, text : 0..MaxEdits,
                          cycle : 0..MaxCycle]]
  /\ prs \in SUBSET Branch /\ opened \in SUBSET Branch
  /\ run \in [Issue -> Run]
  /\ remote \in [Issue -> {"absent", "ahead", "behind"}]
  /\ sound \in [Issue -> BOOLEAN] /\ unpushed \in [Issue -> BOOLEAN]
  /\ left \in [Issue -> BOOLEAN]
  /\ row \in [Issue -> [status : {"absent", "running", "stale", "failed", "completed"},
                        attempt : 0..MaxFailures]]
  /\ saved \in [Issue -> BOOLEAN] /\ planned \in [Issue -> 0..2]
  /\ quota \in SUBSET Provider
  /\ pc \in [Issue -> Place]
  /\ tree \in [Issue -> {"none", "attached", "detached"}]
  /\ head \in [Issue -> {"base", "unpushed", "pushed"}]
  /\ provider \in [Issue -> Provider \cup {NoProvider}]
  /\ last \in [Issue -> Result]
  /\ turns \in [Issue -> Nat] /\ fixed \in [Issue -> BOOLEAN]
  /\ crashes \in Nat /\ acts \in Nat

\* docs/pr-fixer-daemon.md, "an existing open fix PR still prevents another run":
\* whatever is reopened, edited, lost or restarted while an attempt is under way,
\* an issue never has two open pull requests.
OnePrPerIssue == \A b, c \in prs : b[1] = c[1] => b = c

\* A run is completed only by a pull request, which stays the record of it: no
\* failed call, restart or second attempt completes a run without one.
CompletedHasPr == \A i \in Issue : row[i].status = "completed" => Head(i) \in opened

\* docs/pr-fixer-daemon.md: a retry reuses the saved plan instead of planning and
\* posting again, also after a restart and when the fallback takes over.
PlannedOnce == \A i \in Issue : planned[i] <= 1

\* _reset_worktree_for_fallback deletes the branch at origin before the fallback
\* starts: whatever was pushed, lost or restarted before, never under an open
\* pull request.
OpenPrHasBranch == \A i \in Issue : Head(i) \in prs => remote[i] # "absent"

Settled(i) ==
  \/ ~issue[i].open \/ issue[i].paused \/ HasPr(i)
  \/ run[i] = Current(i) /\ row[i].status = "completed"

\* An exception left the run to itself.
Stranded(i) == pc[i] = "idle" /\ row[i].status \in {"running", "stale"}

\* Failures do not repeat for ever: every open issue of the queue ends with a
\* pull request, a completed run or the paused label, unless all its providers
\* are over their limits or an exception that is no RuntimeError ended its run.
EveryIssueSettles == \A i \in Issue : []<>(Settled(i) \/ AllBlocked \/ Stranded(i))

\* docs/pr-fixer-daemon.md: the agent "runs the target repository's validation,
\* pushes the branch, and opens a PR", and _remediate: "Reused the previously pushed
\* issue fix and verified its branch": the head of a new pull request was accepted
\* by verify_pushed and by the pre-PR review of the queue.
PrIsVerified == [][\A i \in Issue : Head(i) \in prs' \ prs => sound[i]]_vars
=============================================================================
