----------------------------- MODULE ReviewChain -----------------------------
(***************************************************************************)
(* The internal review of one pull request: which review pr_fixer plans    *)
(* for a head, what a review run does to its row, and when auto-merge      *)
(* takes the head for reviewed.                                            *)
(*                                                                         *)
(* A run belongs to a head (run_id = pr-review-<number>-<head>), and one   *)
(* run is at work at a time (see PrHandle).  Heads are numbered in the     *)
(* order they were pushed and reviews only ever claim the newest, so the   *)
(* most recently started run is the one of the greatest head.  A restart   *)
(* of the daemon fails the run it cut off (see RunStore).                  *)
(***************************************************************************)
EXTENDS Integers, FiniteSets, FiniteSetsExt

CONSTANTS
  MaxHead,        \* bound on the heads ever pushed
  MaxAttempt,     \* bound on the claims of one run
  MaxFailures,    \* max_consecutive_failures
  Providers,      \* 2 with a fallback_provider, 1 without
  ClaimWindow,    \* review_claim_window_seconds is not 0
  OwnLooksHuman   \* commits of the fixer carry a person's identity

ASSUME ReviewChainAssumption ==
  /\ MaxHead \in Nat \ {0} /\ MaxAttempt \in Nat \ {0} /\ MaxFailures \in Nat
  /\ Providers \in 1..2
  /\ ClaimWindow \in BOOLEAN /\ OwnLooksHuman \in BOOLEAN

VARIABLES
  head,       \* the head of the branch
  author,     \* who pushed it
  rows,       \* the pr-review runs, by head
  run,        \* the rest of the metadata of the run started last
  paused,     \* the `paused` label
  asked,      \* the head auto-merge was last requested for, 0 before
  pc,         \* where the review worker is
  job,        \* what it holds: the state of one _fix
  started,    \* history: writers started since the last halt; 3 stands for more
  forgot      \* history: a claim made a run forget one of them

history == <<started, forgot>>
vars == <<head, author, rows, run, paused, asked, pc, job, history>>

-----------------------------------------------------------------------------
Head == 1..MaxHead
MaxRepairs == 2  \* MAX_REVIEW_REPAIRS
LastRound == 2   \* MAX_INTERNAL_REVIEW_ROUNDS - 1

\* An incomplete audit that has findings is handled as findings.
Audit == {"none", "clean", "findings", "incomplete"}

\* What is read of a run when newer heads have been claimed.  verdict is that of
\* a valid review_report, own is own_commits, repairs review_repair_attempts and
\* fixPushed review_fix_pushed.
Row == [status : {"absent", "running", "waiting", "failed", "completed"},
        halted : BOOLEAN, own : SUBSET Head, repairs : Nat, fixPushed : BOOLEAN,
        verdict : Audit, exhausted : 0..MaxHead]

NoRow == [status |-> "absent", halted |-> FALSE, own |-> {}, repairs |-> 0,
          fixPushed |-> FALSE, verdict |-> "none", exhausted |-> 0]

\* What is only read of the run started last: its attempt and round, the audit it
\* saved and that one's round, repair_pending, resume_interrupted_audit, and
\* interrupted.
Run == [attempt : 0..MaxAttempt, round : 0..LastRound,
        audit : Audit, auditRound : 0..LastRound,
        pending : BOOLEAN, resume : BOOLEAN, interrupted : BOOLEAN]

NoRun == [attempt |-> 0, round |-> 0, audit |-> "none", auditRound |-> 0,
          pending |-> FALSE, resume |-> FALSE, interrupted |-> FALSE]

\* What lies in a worktree beside what is on the branch.
Loose == {"none", "dirty", "commits"}

\* One _fix: the head it was started for, the newest pushed head its worktree
\* contains, what lies in the worktree beside it, and the report.  last says
\* that no other provider may follow: this one timed out, touched the worktree
\* or was stopped by the repair gate.
Job == [cur : 0..MaxHead, tip : 0..MaxHead, loose : Loose,
        provider : 1..2, fixPaused : BOOLEAN, resuming : BOOLEAN,
        fixing : BOOLEAN, ok : BOOLEAN, last : BOOLEAN, superseded : BOOLEAN,
        halted : BOOLEAN, pending : BOOLEAN, fixes : BOOLEAN,
        verdict : Audit, accepted : BOOLEAN]

NoJob == [cur |-> 0, tip |-> 0, loose |-> "none", provider |-> 1,
          fixPaused |-> FALSE, resuming |-> FALSE,
          fixing |-> FALSE, ok |-> FALSE, last |-> FALSE, superseded |-> FALSE,
          halted |-> FALSE, pending |-> FALSE, fixes |-> FALSE,
          verdict |-> "none", accepted |-> FALSE]

Newest(heads) == Max(heads \cup {0})
Claimed == {h \in Head : rows[h].status # "absent"}
Halted == {h \in Head : rows[h].halted}
Latest == Newest(Claimed)
Own(j) == (j.cur + 1)..j.tip  \* rev-list <original head>..HEAD

\* Variant: whoever pushed, the head is taken for a person's.
AnyHeadIsHuman == TRUE

\* _human_authored_head
HumanHead == author = "human" \/ OwnLooksHuman

-----------------------------------------------------------------------------
(* What is decided from the rows.                                          *)

\* Variant: every round ends a chain.
EveryRoundEnds(round, fixPushed, verdict) == TRUE

\* _round_ended_chain
RoundEndedChain(round, fixPushed, verdict) ==
  /\ round > 0
  /\ round >= LastRound \/ ~fixPushed \/ verdict = "clean"

\* Whether an earlier halt forbids a review of the head.
HaltForbids ==
  /\ Halted # {}
  /\ \/ head \in Halted
     \/ \E g \in Halted : head \in rows[g].own
     \/ ~HumanHead

\* Variant: a retry of the last round counts as a round more.
RetryIsANewRound == run.round + 1

\* A last round that did not complete is tried again as the last round.
RetryRound == run.round

\* _review_plan: the round of the review of the head, or nothing.
ReviewPlan ==
  LET row == rows[Latest]
      ended == RoundEndedChain(run.round, row.fixPushed, row.verdict)
  IN IF Claimed = {} THEN {0}
     ELSE IF HaltForbids THEN {}
     ELSE IF Halted # {} /\ Latest # head THEN {0}
     ELSE IF /\ ended
             /\ \/ row.exhausted = head
                \/ row.status = "completed" /\ Latest = head
          THEN {}
     ELSE IF row.fixPushed /\ ~ended THEN {run.round + 1}
     ELSE IF run.round >= LastRound /\ Latest = head THEN {RetryRound}
     ELSE {0}

\* Variant: each run has a budget of its own.
RepairsOfRun(h) == rows[h].repairs

\* The writers of a run, numbered: a sum over runs is the size of a union.
Writers(h) == {h} \X (1..rows[h].repairs)

\* A run that pushed a fix counts, though it started no writer of its own.
Charged(h) == Writers(h) \cup (IF rows[h].fixPushed THEN {<<h, 1>>} ELSE {})

\* _review_repairs_used, for the run of head h.
RepairsUsed(h) ==
  LET halts == Halted \ {h}
      counted == {g \in Claimed \ halts : \A x \in halts : x < g}
  IN Cardinality(UNION {Charged(g) : g \in counted})

\* Variant: halted reviews count as completed ones.
AnyCompletedReview(h) == rows[h].status = "completed"

\* _has_completed_internal_review
HasCompletedReview(h) ==
  /\ \A g \in Halted : h # g /\ h \notin rows[g].own
  /\ \/ rows[h].status = "completed"
     \/ \E g \in Claimed : /\ rows[g].status = "completed"
                           /\ rows[g].exhausted = h
                           /\ rows[g].verdict = "clean"

-----------------------------------------------------------------------------
(* Claiming.                                                               *)

\* _interrupted_audit: the saved audit of a run a restart cut off.
CanResume(round) ==
  /\ Latest = head /\ rows[head].status = "failed" /\ run.interrupted
  /\ run.audit # "none" /\ run.auditRound = round

\* What a claim of the head makes of a run: a pending repair keeps it all, a
\* resumed audit keeps the audit and the repairs, any other claim starts over.
ClaimedRun(round) ==
  LET old == IF Latest = head THEN run ELSE NoRun
      kept == IF old.pending THEN old
              ELSE IF CanResume(round)
              THEN [NoRun EXCEPT !.audit = old.audit, !.auditRound = round,
                                 !.resume = TRUE]
              ELSE NoRun
  IN [kept EXCEPT !.attempt = old.attempt + 1, !.round = round]

ClaimedRow(round) ==
  LET pending == Latest = head /\ run.pending
      kept == IF pending THEN rows[head]
              ELSE IF CanResume(round)
              THEN [NoRow EXCEPT !.repairs = rows[head].repairs]
              ELSE NoRow
  IN [kept EXCEPT !.status = "running"]

\* _collect_feedback, when a review is due, planned and claimed.  A pending
\* repair is claimed once its window, or a participant's claim, has run out, and
\* a run that nobody works on though its row is running once it is stale.
StartReview(round, fixPaused) ==
  /\ pc = "idle" /\ ~paused
  /\ round \in ReviewPlan
  /\ rows[head].status # "completed"
  /\ Latest = head => run.attempt < MaxAttempt
  /\ rows' = [rows EXCEPT ![head] = ClaimedRow(round)]
  /\ run' = ClaimedRun(round)
  /\ job' = [NoJob EXCEPT !.cur = head, !.fixPaused = fixPaused]
  /\ pc' = "open"
  /\ forgot' = (forgot \/ ClaimedRow(round).repairs < rows[head].repairs)
  /\ UNCHANGED <<head, author, paused, asked, started>>

\* isolated_worktree fetches the branch again and merges the base into it: there
\* may be nothing to merge, a merge commit, or a conflict.
OpenWorktree(loose) ==
  /\ pc = "open"
  /\ job' = [job EXCEPT !.tip = head, !.loose = loose]
  /\ pc' = "audit"
  /\ UNCHANGED <<head, author, rows, run, paused, asked, history>>

-----------------------------------------------------------------------------
(* One provider pass.                                                      *)

\* What an audit report leads to, whether saved or new.
Audited(r, kind, resuming) ==
  LET waits == kind = "findings" /\ ~resuming /\ ClaimWindow /\ ~job.fixPaused
  IN /\ run' = [r EXCEPT !.audit = kind, !.auditRound = r.round,
                         !.pending = @ \/ waits]
     /\ job' = [job EXCEPT
                  !.ok = (kind = "clean" \/ waits),
                  !.verdict = IF kind = "incomplete" THEN "none" ELSE kind,
                  !.fixes = FALSE, !.pending = @ \/ waits,
                  !.resuming = resuming]
     /\ pc' = IF kind = "findings" /\ ~waits THEN "gate" ELSE "verify"
     /\ UNCHANGED <<head, author, rows, paused, asked, history>>

\* audit_step with the audit saved before a claim window or a restart.
ResumeAudit ==
  /\ pc = "audit" /\ (run.pending \/ run.resume)
  /\ Audited(run, run.audit, TRUE)

\* The saved audit does not parse: a full review wants every lens assessed, a
\* targeted one need not do so.
DiscardAudit ==
  /\ pc = "audit" /\ (run.pending \/ run.resume)
  /\ run.round = 0 /\ run.auditRound > 0
  /\ run' = [run EXCEPT !.pending = FALSE, !.resume = FALSE]
  /\ UNCHANGED <<head, author, rows, paused, asked, pc, job, history>>

AuditorRuns == pc = "audit" /\ ~run.pending /\ ~run.resume

\* audit_step with a new audit.
NewAudit(kind) ==
  /\ AuditorRuns
  /\ Audited(run, kind, FALSE)

\* The auditor failed, timed out, was cancelled, or touched the worktree.
AuditFails(last, loose) ==
  /\ AuditorRuns
  /\ loose # job.loose => last
  /\ run' = [run EXCEPT !.audit = "none"]
  /\ job' = [job EXCEPT !.ok = FALSE, !.last = last, !.loose = loose,
                        !.verdict = "none", !.fixes = FALSE]
  /\ pc' = "verify"
  /\ UNCHANGED <<head, author, rows, paused, asked, history>>

\* repair_gate, with the cancel event set or not.
RepairGate(cancelled) ==
  LET h == job.cur
      moved == head # h
      stays == ~moved /\ ~cancelled
      spent == RepairsUsed(h) >= MaxRepairs \/ run.round >= LastRound
      halts == stays /\ (job.fixPaused \/ spent)
      starts == stays /\ ~halts
  IN /\ pc = "gate"
     /\ run' = [run EXCEPT !.pending = @ /\ ~job.resuming]
     /\ rows' = IF starts THEN [rows EXCEPT ![h].repairs = @ + 1] ELSE rows
     /\ job' = [job EXCEPT !.ok = FALSE, !.superseded = @ \/ moved,
                           !.last = @ \/ halts, !.halted = @ \/ halts,
                           !.fixing = @ \/ starts]
     /\ pc' = IF starts THEN "fixer" ELSE "verify"
     /\ started' = IF starts /\ started <= MaxRepairs THEN started + 1 ELSE started
     /\ UNCHANGED <<head, author, paused, asked, forgot>>

\* The fixer merges what is on the branch, commits and pushes.
FixerPush ==
  /\ pc = "fixer" /\ head < MaxHead
  /\ head' = head + 1 /\ author' = "own"
  /\ job' = [job EXCEPT !.tip = head + 1, !.loose = "none", !.last = TRUE]
  /\ UNCHANGED <<rows, run, paused, asked, pc, history>>

\* The fixer ends: it disputes the audit, leaves no usable report, or reports
\* fixes, with or without having pushed them.
FixerEnd(outcome, ok, last, loose) ==
  /\ pc = "fixer"
  /\ ok => outcome = "fixed"
  /\ loose # job.loose => last
  /\ job' = [job EXCEPT
               !.ok = ok, !.loose = loose, !.last = @ \/ last,
               !.halted = @ \/ outcome = "disputed",
               !.fixes = (outcome = "fixed"),
               !.verdict = IF outcome = "unreported" THEN "none" ELSE "findings"]
  /\ pc' = "verify"
  /\ UNCHANGED <<head, author, rows, run, paused, asked, history>>

\* accept_provider pushes commits the fixer forgot to push, as a fast-forward.
PushesForFixer == /\ job.fixing /\ job.ok /\ job.loose = "commits"
                  /\ head = job.cur /\ job.tip = head /\ head < MaxHead

\* verify: accept the pass, hand over to the fallback, or give up.  A push for the
\* fixer may fail.
Verify(pushes) ==
  LET h == IF pushes THEN head + 1 ELSE head
      tip == IF pushes THEN h ELSE job.tip
      loose == IF pushes THEN "none" ELSE job.loose
      pushed == tip = h /\ loose # "commits"
      superseded == job.superseded \/ (~pushed /\ h # job.cur)
      accepted == /\ job.ok /\ loose # "dirty"
                  /\ pushed \/ (~job.fixing /\ h = job.cur)
      again == /\ ~accepted /\ job.provider < Providers
               /\ ~job.last /\ ~superseded
  IN /\ pc = "verify"
     /\ pushes => PushesForFixer
     /\ head' = h
     /\ author' = IF pushes THEN "own" ELSE author
     /\ job' = IF again THEN [job EXCEPT !.provider = @ + 1]
               ELSE [NoJob EXCEPT  \* what _finalize reads
                       !.cur = job.cur, !.tip = tip, !.superseded = superseded,
                       !.halted = job.halted, !.pending = job.pending,
                       !.fixes = job.fixes, !.verdict = job.verdict,
                       !.accepted = accepted]
     /\ pc' = IF again THEN "audit" ELSE "finalize"
     /\ UNCHANGED <<rows, run, paused, asked, history>>

\* git fails and takes the pass with it: what the report says by then is all
\* that _finalize reads, and own_commits is not part of it.
PassBreaks ==
  /\ pc \in {"open", "audit", "gate", "verify"}
  /\ run' = [run EXCEPT !.pending = @ /\ ~(pc = "gate" /\ job.resuming)]
  /\ job' = [NoJob EXCEPT !.cur = job.cur, !.halted = job.halted,
                          !.pending = job.pending, !.fixes = job.fixes,
                          !.verdict = job.verdict]
  /\ pc' = "finalize"
  /\ UNCHANGED <<head, author, rows, paused, asked, history>>

-----------------------------------------------------------------------------
(* _finalize, one action for each of its exits.                            *)

Fixed == job.accepted /\ ~job.superseded /\ job.verdict # "none"

EndRun(row) ==
  /\ pc \in {"finalize", "halted"}
  /\ rows' = [rows EXCEPT ![job.cur] = row]
  /\ job' = NoJob
  /\ pc' = "idle"
  /\ UNCHANGED <<head, author, asked, history>>

\* The halt is saved and published before the run is completed.
SaveHalt ==
  /\ pc = "finalize" /\ job.halted
  /\ rows' = [rows EXCEPT ![job.cur].halted = TRUE, ![job.cur].verdict = "none",
                          ![job.cur].own = Own(job)]
  /\ run' = [run EXCEPT !.pending = FALSE]
  /\ pc' = "halted"
  /\ started' = 0 /\ forgot' = FALSE
  /\ UNCHANGED <<head, author, paused, asked, job>>

FinalizeHalted ==
  /\ pc = "halted"
  /\ EndRun([rows[job.cur] EXCEPT !.status = "completed"])
  /\ UNCHANGED <<run, paused>>

FinalizeWaiting ==
  /\ ~job.halted /\ job.pending
  /\ EndRun([rows[job.cur] EXCEPT !.status = "waiting"])
  /\ run' = [run EXCEPT !.pending = TRUE]
  /\ UNCHANGED paused

\* Someone else's push; the run fails and the chain is left as it was.
FinalizeSuperseded ==
  /\ ~job.halted /\ ~job.pending
  /\ job.superseded \/ (/\ head # job.cur /\ ~job.fixes
                        /\ Fixed \/ head \notin Own(job))
  /\ EndRun([rows[job.cur] EXCEPT !.status = "failed"])
  /\ UNCHANGED <<run, paused>>

\* The run fails; a fix it pushed without reporting it is still followed up,
\* unless GitHub does not answer.  After too many failures the PR is labelled,
\* unless that fails or the providers are over their quota.
FinalizeFailed(answered, labels) ==
  LET h == job.cur
      row == [rows[h] EXCEPT !.status = "failed"]
      pushed == answered /\ head # h
  IN /\ ~job.halted /\ ~job.pending /\ ~job.superseded /\ ~Fixed
     /\ pushed => head \in Own(job) \/ job.fixes
     /\ EndRun(IF pushed
               THEN [row EXCEPT !.fixPushed = TRUE, !.verdict = job.verdict,
                                !.exhausted = IF run.round > 0 THEN head ELSE 0]
               ELSE row)
     /\ UNCHANGED run
     /\ paused' = (paused \/ (labels /\ run.attempt >= MaxFailures))

FinalizeReviewed ==
  LET pushed == head # job.cur
      ended == RoundEndedChain(run.round, pushed, job.verdict)
  IN /\ ~job.halted /\ ~job.pending /\ Fixed
     /\ pushed => job.fixes
     /\ EndRun([rows[job.cur] EXCEPT !.status = "completed",
                                     !.fixPushed = pushed,
                                     !.verdict = job.verdict,
                                     !.exhausted = IF ended THEN head ELSE 0])
     /\ UNCHANGED <<run, paused>>

\* An accepted review whose _feedback fails leaves its row running.
FinalizeRaises ==
  /\ pc = "finalize" /\ ~job.halted /\ ~job.pending /\ Fixed
  /\ job' = NoJob
  /\ pc' = "idle"
  /\ UNCHANGED <<head, author, rows, run, paused, asked, history>>

-----------------------------------------------------------------------------
Running == {h \in Head : rows[h].status = "running"}

\* The daemon dies and its successor fails the runs it left running.
Restart ==
  /\ Running # {}
  /\ rows' = [h \in Head |-> IF h \in Running
                            THEN [rows[h] EXCEPT !.status = "failed"] ELSE rows[h]]
  /\ run' = [run EXCEPT !.interrupted = @ \/ Latest \in Running]
  /\ job' = NoJob
  /\ pc' = "idle"
  /\ UNCHANGED <<head, author, paused, asked, history>>

\* _ensure_auto_merge, for what it asks of the reviews.
EnsureAutoMerge ==
  /\ pc = "idle" /\ ~paused
  /\ asked # head /\ HasCompletedReview(head)
  /\ asked' = head
  /\ UNCHANGED <<head, author, rows, run, paused, pc, job, history>>

UserPush ==
  /\ head < MaxHead
  /\ head' = head + 1 /\ author' = "human"
  /\ UNCHANGED <<rows, run, paused, asked, pc, job, history>>

\* A pr-fixer run for a failed check or a comment pushes its fix.
FeedbackFixPush ==
  /\ pc = "idle" /\ ~paused /\ head < MaxHead
  /\ head' = head + 1 /\ author' = "own"
  /\ UNCHANGED <<rows, run, paused, asked, pc, job, history>>

-----------------------------------------------------------------------------
Init ==
  /\ head = 1 /\ author = "human"
  /\ rows = [h \in Head |-> NoRow] /\ run = NoRun
  /\ paused = FALSE /\ asked = 0
  /\ pc = "idle" /\ job = NoJob
  /\ started = 0 /\ forgot = FALSE

ProviderPass ==
  \/ ResumeAudit
  \/ DiscardAudit
  \/ \E kind \in Audit \ {"none"} : NewAudit(kind)
  \/ \E last \in BOOLEAN, loose \in Loose : AuditFails(last, loose)
  \/ \E cancelled \in BOOLEAN : RepairGate(cancelled)
  \/ FixerPush
  \/ \E outcome \in {"disputed", "unreported", "fixed"},
        ok, last \in BOOLEAN, loose \in Loose :
       FixerEnd(outcome, ok, last, loose)
  \/ \E pushes \in BOOLEAN : Verify(pushes)
  \/ PassBreaks

Finalize ==
  \/ SaveHalt
  \/ FinalizeHalted
  \/ FinalizeWaiting
  \/ FinalizeSuperseded
  \/ \E answered, labels \in BOOLEAN : FinalizeFailed(answered, labels)
  \/ FinalizeReviewed
  \/ FinalizeRaises

Review ==
  \/ \E round \in 0..LastRound + 1, fixPaused \in BOOLEAN :
       StartReview(round, fixPaused)
  \/ \E loose \in Loose : OpenWorktree(loose)
  \/ ProviderPass
  \/ Finalize

Next ==
  \/ Review
  \/ Restart
  \/ EnsureAutoMerge
  \/ UserPush
  \/ FeedbackFixPush

Spec == Init /\ [][Next]_vars

\* Reconciliation comes back to every open PR, and a run goes on to its end.
FairSpec == Spec /\ WF_vars(Review)

-----------------------------------------------------------------------------
(* Properties.                                                             *)

TypeOK ==
  /\ head \in Head
  /\ author \in {"human", "own"}
  /\ rows \in [Head -> Row] /\ run \in Run
  /\ paused \in BOOLEAN
  /\ asked \in 0..MaxHead
  /\ pc \in {"idle", "open", "audit", "gate", "fixer", "verify", "finalize",
           "halted"}
  /\ job \in Job
  /\ started \in Nat /\ forgot \in BOOLEAN

\* From one halt to the next no more than MAX_REVIEW_REPAIRS writers start, over
\* all heads, rounds, claim windows, restarts and providers, until a claim forgets
\* one.  A claim does when it takes up a run that failed after its gate let a writer
\* start, unless it resumes the audit of a restart in a round planned as before.
RepairBudget == ~forgot => started <= MaxRepairs

\* Auto-merge is only ever requested for a head whose own review completed
\* without a halt, and was clean or at least handed its findings to a fixer: no
\* superseded, failed, incomplete or interrupted review passes for one.
MergeIsReviewed ==
  asked # 0 =>
    /\ rows[asked].status = "completed" /\ ~rows[asked].halted
    /\ asked = Latest =>
         run.audit = "clean" \/ (run.audit = "findings" /\ rows[asked].repairs > 0)

\* A halt stops reviews, writers and auto-merge alike: while one stands, none of
\* them touches a head but one that a person pushed after the halted ones, whatever
\* the chain, a fixer or another run of the daemon pushes or leaves unfinished.
HaltHolds ==
  [][LET starts == (pc = "idle" /\ pc' = "open") \/ (pc = "gate" /\ pc' = "fixer")
         merges == asked' # asked
     IN Halted # {} /\ (starts \/ merges) =>
          author = "human" /\ \A g \in Halted : g < head]_vars

\* In a PR that never halted, a head that a review's fix made is reviewed in
\* turn, unless the PR moves on, is paused or halts.
FixIsFollowedUp ==
  \A h \in Head :
    (/\ head = h /\ author = "own" /\ Halted = {}
     /\ Latest \in 1..h - 1 /\ rows[Latest].fixPushed)
      ~> (head # h \/ paused \/ Halted # {} \/ h \in Claimed)

\* What docs/pr-fixer-daemon.md says of auto-merge: only a clean verdict will do.
MergeNeedsCleanVerdict ==
  asked # 0 /\ asked = Latest => run.audit = "clean"

=============================================================================
