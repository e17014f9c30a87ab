-------------------------- MODULE ReviewChain_proofs --------------------------
(***************************************************************************)
(* Proofs about ReviewChain, for any number of heads, claims of a run and  *)
(* failures, with or without a fallback provider and a claim window.       *)
(*                                                                         *)
(* What makes the types inductive is that only heads that exist are        *)
(* claimed, and that the job at work and every halt belong to a claim.     *)
(* What auto-merge relies on needs the whole life of the latest review,    *)
(* from its claim to its verdict: Chain.                                   *)
(* The budget of repairs is bounded by the size of a set, the numbered     *)
(* writers that the rows since the last halt count; it rests on the gate   *)
(* counting at least those.                                                *)
(***************************************************************************)
EXTENDS ReviewChain, FiniteSetTheorems, TLAPS

Claims ==
  /\ \A h \in Claimed : h <= head
  /\ Halted \subseteq Claimed
  /\ pc # "idle" => job.cur \in Claimed

IInv == TypeOK /\ Claims

-----------------------------------------------------------------------------
(* What is put together from records.                                      *)

LEMMA InitialRecords == NoRow \in Row /\ NoRun \in Run /\ NoJob \in Job
<1>1. NoRow \in Row
  BY ReviewChainAssumption DEF NoRow, Row, Audit
<1>2. NoRun \in Run
  BY ReviewChainAssumption DEF NoRun, Run, Audit, LastRound
<1>3. NoJob \in Job
  BY ReviewChainAssumption DEF NoJob, Job, Audit, Loose
<1>4. QED
  BY <1>1, <1>2, <1>3

\* A planned round is one of the three there are.
LEMMA PlannedRound ==
  ASSUME TypeOK, NEW round \in ReviewPlan
  PROVE  round \in 0..LastRound
<1>1. run.round \in 0..2
  BY DEF TypeOK, Run, LastRound
<1>2. QED
  BY <1>1 DEF ReviewPlan, RetryRound, RoundEndedChain, LastRound

LEMMA ClaimTyped ==
  ASSUME TypeOK, NEW round \in 0..LastRound, Latest = head => run.attempt < MaxAttempt
  PROVE  ClaimedRun(round) \in Run /\ ClaimedRow(round) \in Row
<1>1. run \in Run /\ rows[head] \in Row /\ run.attempt \in Nat /\ rows[head].repairs \in Nat
  BY ReviewChainAssumption DEF TypeOK, Run, Row
<1>2. ClaimedRun(round) \in Run
  <2> DEFINE old == IF Latest = head THEN run ELSE NoRun
             kept == IF old.pending THEN old
                     ELSE IF CanResume(round)
                     THEN [NoRun EXCEPT !.audit = old.audit, !.auditRound = round,
                                        !.resume = TRUE]
                     ELSE NoRun
  <2>1. old \in Run /\ old.attempt + 1 \in 0..MaxAttempt
    BY <1>1, InitialRecords, ReviewChainAssumption DEF NoRun, Run
  <2>2. kept \in Run
    <3>1. old.audit \in Audit
      BY <2>1 DEF Run
    <3>2. [NoRun EXCEPT !.audit = old.audit, !.auditRound = round, !.resume = TRUE] \in Run
      BY <3>1, InitialRecords DEF Run
    <3>3. QED
      BY <2>1, <3>2, InitialRecords
  <2>3. [kept EXCEPT !.attempt = old.attempt + 1, !.round = round] \in Run
    BY <2>1, <2>2 DEF Run
  <2>4. QED
    BY <2>3 DEF ClaimedRun
<1>3. ClaimedRow(round) \in Row
  <2>1. [NoRow EXCEPT !.repairs = rows[head].repairs] \in Row
    BY <1>1, InitialRecords DEF Row
  <2>2. \A row \in Row : [row EXCEPT !.status = "running"] \in Row
    BY DEF Row
  <2>3. QED
    BY <1>1, <2>1, <2>2, InitialRecords DEF ClaimedRow
<1>4. QED
  BY <1>2, <1>3

-----------------------------------------------------------------------------
(* Each step.                                                              *)

\* Typing, one step of the review at a time.
LEMMA TypedStep == TypeOK /\ Claims /\ [Next]_vars => TypeOK'
<1> SUFFICES ASSUME TypeOK, Claims, [Next]_vars
             PROVE  TypeOK'
  OBVIOUS
<1> USE ReviewChainAssumption DEF history
<1>0. /\ head \in Nat /\ head \in Head /\ run \in Run /\ job \in Job
      /\ rows \in [Head -> Row]
      /\ pc # "idle" => job.cur \in Head
      /\ \A row \in Row, s \in {"failed", "waiting", "completed"} :
           [row EXCEPT !.status = s] \in Row
  <2>1. head \in Nat /\ head \in Head /\ run \in Run /\ job \in Job /\ rows \in [Head -> Row]
    BY DEF TypeOK, Head
  <2>2. pc # "idle" => job.cur \in Head
    BY DEF Claims, Claimed
  <2>3. \A row \in Row, s \in {"failed", "waiting", "completed"} :
           [row EXCEPT !.status = s] \in Row
    BY DEF Row
  <2>4. QED
    BY <2>1, <2>2, <2>3
<1>1. ASSUME NEW round \in 0..LastRound + 1, NEW fixPaused \in BOOLEAN,
             StartReview(round, fixPaused)
      PROVE  TypeOK'
  <2>1. ClaimedRun(round) \in Run /\ ClaimedRow(round) \in Row
    BY <1>1, PlannedRound, ClaimTyped DEF StartReview
  <2>2. [NoJob EXCEPT !.cur = head, !.fixPaused = fixPaused] \in Job
    <3>1. head \in 0..MaxHead
      BY <1>0 DEF Head
    <3>2. QED
      BY <3>1, InitialRecords DEF Job
  <2>3. QED
    BY <1>0, <1>1, <2>1, <2>2 DEF StartReview, TypeOK
<1>2. ASSUME NEW loose \in Loose, OpenWorktree(loose)
      PROVE  TypeOK'
  <2>1. head \in 0..MaxHead
    BY <1>0 DEF Head
  <2>2. [job EXCEPT !.tip = head, !.loose = loose] \in Job
    BY <1>0, <2>1 DEF Job
  <2>3. QED
    BY <1>0, <1>2, <2>2 DEF OpenWorktree, TypeOK
<1>3. ASSUME NEW r \in Run, NEW kind \in Audit, NEW resuming \in BOOLEAN,
             Audited(r, kind, resuming)
      PROVE  TypeOK'
  <2> DEFINE waits == kind = "findings" /\ ~resuming /\ ClaimWindow /\ ~job.fixPaused
  <2>1. [r EXCEPT !.audit = kind, !.auditRound = r.round, !.pending = @ \/ waits] \in Run
    BY <1>3 DEF Run
  <2>2. job' \in Job
    <3>1. (IF kind = "incomplete" THEN "none" ELSE kind) \in Audit
      BY DEF Audit
    <3>2. \A a, p \in BOOLEAN, v \in Audit :
            [job EXCEPT !.ok = a, !.verdict = v, !.fixes = FALSE, !.pending = p,
                        !.resuming = resuming] \in Job
      BY <1>0 DEF Job
    <3>3. QED
      BY <1>3, <3>1, <3>2 DEF Audited
  <2>3. QED
    BY <1>0, <1>3, <2>1, <2>2 DEF Audited, TypeOK
<1>4. CASE ResumeAudit \/ DiscardAudit
  <2>1. run.audit \in Audit
    BY <1>0 DEF Run
  <2>2. CASE ResumeAudit
    BY <1>0, <1>3, <2>1, <2>2 DEF ResumeAudit
  <2>3. CASE DiscardAudit
    <3>1. [run EXCEPT !.pending = FALSE, !.resume = FALSE] \in Run
      BY <1>0 DEF Run
    <3>2. QED
      BY <1>0, <2>3, <3>1 DEF DiscardAudit, TypeOK
  <2>4. QED
    BY <1>4, <2>2, <2>3
<1>5. ASSUME NEW kind \in Audit \ {"none"}, NewAudit(kind)
      PROVE  TypeOK'
  BY <1>0, <1>3, <1>5 DEF NewAudit
<1>6. ASSUME NEW last \in BOOLEAN, NEW loose \in Loose, AuditFails(last, loose)
      PROVE  TypeOK'
  <2>1. [run EXCEPT !.audit = "none"] \in Run
    BY <1>0 DEF Run, Audit
  <2>2. [job EXCEPT !.ok = FALSE, !.last = last, !.loose = loose,
                    !.verdict = "none", !.fixes = FALSE] \in Job
    BY <1>0 DEF Job, Audit
  <2>3. QED
    BY <1>0, <1>6, <2>1, <2>2 DEF AuditFails, TypeOK
<1>7. ASSUME NEW cancelled \in BOOLEAN, RepairGate(cancelled)
      PROVE  TypeOK'
  <2>1. run' \in Run
    BY <1>0, <1>7 DEF RepairGate, Run, Job
  <2>2. rows' \in [Head -> Row]
    <3>1. \A row \in Row : [row EXCEPT !.repairs = @ + 1] \in Row
      BY DEF Row
    <3>2. QED
      BY <1>0, <1>7, <3>1 DEF RepairGate
  <2>3. job' \in Job
    <3>1. \A b, c, d, e \in BOOLEAN :
            [job EXCEPT !.ok = FALSE, !.superseded = b, !.last = c,
                        !.halted = d, !.fixing = e] \in Job
      BY <1>0 DEF Job
    <3>2. QED
      BY <1>0, <1>7, <3>1 DEF RepairGate, Job
  <2>4. QED
    BY <1>0, <1>7, <2>1, <2>2, <2>3 DEF RepairGate, TypeOK
<1>8. CASE FixerPush
  <2>1. head + 1 \in Head /\ head + 1 \in 0..MaxHead
    BY <1>0, <1>8 DEF FixerPush, Head
  <2>2. [job EXCEPT !.tip = head + 1, !.loose = "none", !.last = TRUE] \in Job
    BY <1>0, <2>1 DEF Job, Loose
  <2>3. QED
    BY <1>0, <1>8, <2>1, <2>2 DEF FixerPush, TypeOK
<1>9. ASSUME NEW outcome \in {"disputed", "unreported", "fixed"},
             NEW ok \in BOOLEAN, NEW last \in BOOLEAN, NEW loose \in Loose,
             FixerEnd(outcome, ok, last, loose)
      PROVE  TypeOK'
  <2>1. job' \in Job
    <3>1. \A a, b, c \in BOOLEAN, v \in {"none", "findings"} :
            [job EXCEPT !.ok = ok, !.loose = loose, !.last = a, !.halted = b,
                        !.fixes = c, !.verdict = v] \in Job
      BY <1>0 DEF Job, Audit
    <3>2. QED
      BY <1>9, <3>1 DEF FixerEnd
  <2>2. QED
    BY <1>0, <1>9, <2>1 DEF FixerEnd, TypeOK
<1>10. ASSUME NEW pushes \in BOOLEAN, Verify(pushes)
       PROVE  TypeOK'
  <2> DEFINE h == IF pushes THEN head + 1 ELSE head
  <2>1. h \in Head /\ head' = h /\ author' \in {"human", "own"}
    BY <1>0, <1>10 DEF Verify, PushesForFixer, Head, TypeOK
  <2>2. job' \in Job
    <3>1. \A p \in 1..2 : [job EXCEPT !.provider = p] \in Job
      BY <1>0 DEF Job
    <3>2. \A tip \in 0..MaxHead, b, c \in BOOLEAN :
            [NoJob EXCEPT !.cur = job.cur, !.tip = tip, !.superseded = b,
                          !.halted = job.halted, !.pending = job.pending,
                          !.fixes = job.fixes, !.verdict = job.verdict,
                          !.accepted = c] \in Job
      BY <1>0, InitialRecords DEF Job
    <3>3. job.tip \in 0..MaxHead /\ job.provider \in 1..2 /\ job.superseded \in BOOLEAN
      BY <1>0 DEF Job
    <3>4. h \in 0..MaxHead /\ Providers \in 1..2
      BY <2>1 DEF Head
    <3>5. CASE job' = [job EXCEPT !.provider = @ + 1] /\ job.provider < Providers
      BY <3>1, <3>3, <3>4, <3>5
    <3>6. ASSUME NEW tip \in 0..MaxHead, NEW b \in BOOLEAN, NEW c \in BOOLEAN,
                 job' = [NoJob EXCEPT
                           !.cur = job.cur, !.tip = tip, !.superseded = b,
                           !.halted = job.halted, !.pending = job.pending,
                           !.fixes = job.fixes, !.verdict = job.verdict,
                           !.accepted = c]
          PROVE  job' \in Job
      BY <3>2, <3>6
    <3>7. QED
      BY <1>10, <3>3, <3>4, <3>5, <3>6 DEF Verify
  <2>3. QED
    BY <1>0, <1>10, <2>1, <2>2 DEF Verify, TypeOK
<1>11. CASE PassBreaks
  <2>1. job' \in Job
    BY <1>0, <1>11, InitialRecords DEF PassBreaks, Job
  <2>2. run' \in Run
    BY <1>0, <1>11 DEF PassBreaks, Run, Job
  <2>3. QED
    BY <1>0, <1>11, <2>1, <2>2 DEF PassBreaks, TypeOK
<1>12. ASSUME NEW row \in Row, EndRun(row), run' \in Run, paused' \in BOOLEAN
       PROVE  TypeOK'
  BY <1>0, <1>12, InitialRecords DEF EndRun, TypeOK
<1>13. CASE Finalize
  <2>1. rows[job.cur] \in Row \/ pc = "idle"
    BY <1>0
  <2>2. Own(job) \in SUBSET Head
    BY <1>0 DEF Own, Job, Head
  <2>3. CASE SaveHalt
    <3>1. \A row \in Row : [row EXCEPT !.halted = TRUE, !.verdict = "none",
                                       !.own = Own(job)] \in Row
      BY <2>2 DEF Row, Audit
    <3>2. run' \in Run
      BY <1>0, <2>3 DEF SaveHalt, Run
    <3>3. rows' \in [Head -> Row]
      BY <1>0, <2>1, <2>3, <3>1 DEF SaveHalt
    <3>4. QED
      BY <1>0, <2>3, <3>2, <3>3 DEF SaveHalt, TypeOK
  <2>4. CASE FinalizeHalted
    BY <1>0, <1>12, <2>1, <2>4 DEF FinalizeHalted, TypeOK
  <2>5. CASE FinalizeWaiting
    <3>1. run' \in Run
      BY <1>0, <2>5 DEF FinalizeWaiting, Run
    <3>2. QED
      BY <1>0, <1>12, <2>1, <2>5, <3>1 DEF FinalizeWaiting, EndRun, TypeOK
  <2>6. CASE FinalizeSuperseded
    BY <1>0, <1>12, <2>1, <2>6 DEF FinalizeSuperseded, EndRun, TypeOK
  <2>7. ASSUME NEW answered \in BOOLEAN, NEW labels \in BOOLEAN,
               FinalizeFailed(answered, labels)
        PROVE  TypeOK'
    <3> DEFINE row == [rows[job.cur] EXCEPT !.status = "failed"]
               shown == [row EXCEPT !.fixPushed = TRUE, !.verdict = job.verdict,
                                    !.exhausted = IF run.round > 0 THEN head ELSE 0]
    <3>1. pc # "idle" /\ job.verdict \in Audit
      BY <1>0, <2>7 DEF FinalizeFailed, EndRun, Job
    <3>2. row \in Row
      BY <1>0, <2>1, <3>1
    <3>3. shown \in Row
      <4>1. (IF run.round > 0 THEN head ELSE 0) \in 0..MaxHead
        BY <1>0 DEF Head
      <4>2. QED
        BY <3>1, <3>2, <4>1 DEF Row
    <3>4. run' \in Run /\ paused' \in BOOLEAN
      BY <1>0, <2>7 DEF FinalizeFailed, TypeOK
    <3>5. EndRun(row) \/ EndRun(shown)
      BY <2>7 DEF FinalizeFailed
    <3>6. QED
      BY <1>12, <3>2, <3>3, <3>4, <3>5
  <2>8. CASE FinalizeReviewed
    <3>1. job.verdict \in Audit
      BY <1>0 DEF Job
    <3>2. \A old \in Row, b \in BOOLEAN, e \in 0..MaxHead :
            [old EXCEPT !.status = "completed", !.fixPushed = b,
                        !.verdict = job.verdict, !.exhausted = e] \in Row
      BY <3>1 DEF Row
    <3>3. head \in 0..MaxHead /\ rows[job.cur] \in Row
      BY <1>0, <2>1, <2>8 DEF FinalizeReviewed, EndRun, Head
    <3>4. ASSUME NEW b \in BOOLEAN, NEW e \in 0..MaxHead,
                 EndRun([rows[job.cur] EXCEPT !.status = "completed", !.fixPushed = b,
                           !.verdict = job.verdict, !.exhausted = e]),
                 UNCHANGED <<run, paused>>
          PROVE  TypeOK'
      BY <1>0, <1>12, <3>2, <3>3, <3>4 DEF TypeOK
    <3> DEFINE pushed == head # job.cur
               e == IF RoundEndedChain(run.round, pushed, job.verdict)
                    THEN head ELSE 0
    <3>5. EndRun([rows[job.cur] EXCEPT !.status = "completed", !.fixPushed = pushed,
                    !.verdict = job.verdict, !.exhausted = e])
      BY <2>8 DEF FinalizeReviewed
    <3>6. pushed \in BOOLEAN /\ e \in 0..MaxHead /\ UNCHANGED <<run, paused>>
      BY <2>8, <3>3 DEF FinalizeReviewed
    <3> HIDE DEF pushed, e
    <3>7. QED
      BY <3>4, <3>5, <3>6
  <2>9. CASE FinalizeRaises
    BY <1>0, <2>9, InitialRecords DEF FinalizeRaises, TypeOK
  <2>10. QED
    BY <1>13, <2>3, <2>4, <2>5, <2>6, <2>7, <2>8, <2>9 DEF Finalize
<1>14. CASE Restart
  <2>1. rows' \in [Head -> Row]
    BY <1>0, <1>14 DEF Restart, Running
  <2>2. run' \in Run
    BY <1>0, <1>14 DEF Restart, Run
  <2>3. QED
    BY <1>0, <1>14, <2>1, <2>2, InitialRecords DEF Restart, TypeOK
<1>15. CASE EnsureAutoMerge
  BY <1>0, <1>15 DEF EnsureAutoMerge, TypeOK, Head
<1>16. CASE UserPush \/ FeedbackFixPush
  BY <1>0, <1>16 DEF UserPush, FeedbackFixPush, TypeOK, Head
<1>17. CASE UNCHANGED vars
  BY <1>17 DEF TypeOK, vars
<1>18. QED
  BY <1>1, <1>2, <1>4, <1>5, <1>6, <1>7, <1>8, <1>9, <1>10, <1>11, <1>13,
     <1>14, <1>15, <1>16, <1>17 DEF Next, Review, ProviderPass

\* A step keeps the rows of the heads it is not about, and claims only the head.
LEMMA ClaimsInductive == TypeOK /\ Claims /\ [Next]_vars => Claims'
<1> SUFFICES ASSUME TypeOK, Claims, [Next]_vars
             PROVE  Claims'
  OBVIOUS
<1>0. /\ head \in Nat /\ head \in Head /\ rows \in [Head -> Row]
      /\ pc # "idle" => job.cur \in Head /\ rows[job.cur].status # "absent"
      /\ job \in Job /\ NoJob \in Job
  BY InitialRecords DEF TypeOK, Claims, Claimed, Head
<1> DEFINE Untouched == rows' = rows /\ (pc' # "idle" => pc # "idle" /\ job'.cur = job.cur)
<1>1. ASSUME Untouched, head' \in {head, head + 1}
      PROVE  Claims'
  BY <1>0, <1>1 DEF Claims, Claimed, Halted
<1>2. ASSUME NEW round \in 0..LastRound + 1, NEW fixPaused \in BOOLEAN,
             StartReview(round, fixPaused)
      PROVE  Claims'
  <2>1. /\ ClaimedRow(round).status # "absent"
        /\ rows' = [rows EXCEPT ![head] = ClaimedRow(round)]
        /\ head' = head
    <3>1. \A row \in Row : [row EXCEPT !.status = "running"].status # "absent"
      BY DEF Row
    <3>2. NoRow \in Row /\ rows[head] \in Row
      BY <1>0, InitialRecords
    <3>3. [NoRow EXCEPT !.repairs = rows[head].repairs] \in Row
      BY <3>2 DEF Row
    <3>4. QED
      BY <1>2, <3>1, <3>2, <3>3 DEF StartReview, ClaimedRow
  <2>2. job'.cur = head
    BY <1>0, <1>2 DEF StartReview, Job
  <2>3. QED
    BY <1>0, <2>1, <2>2 DEF Claims, Claimed, Halted
<1>3. ASSUME NEW loose \in Loose, OpenWorktree(loose)
      PROVE  Claims'
  BY <1>0, <1>1, <1>3 DEF OpenWorktree, Job
<1>4. ASSUME NEW r, NEW kind, NEW resuming, Audited(r, kind, resuming), pc = "audit"
      PROVE  Claims'
  BY <1>0, <1>1, <1>4 DEF Audited, Job
<1>5. CASE \/ ResumeAudit \/ DiscardAudit
           \/ \E kind \in Audit \ {"none"} : NewAudit(kind)
  BY <1>1, <1>4, <1>5 DEF ResumeAudit, DiscardAudit, NewAudit, AuditorRuns
<1>6. ASSUME NEW last \in BOOLEAN, NEW loose \in Loose, AuditFails(last, loose)
      PROVE  Claims'
  BY <1>0, <1>1, <1>6 DEF AuditFails, AuditorRuns, Job
<1>7. ASSUME NEW cancelled \in BOOLEAN, RepairGate(cancelled)
      PROVE  Claims'
  <2>1. /\ pc # "idle" /\ job'.cur = job.cur /\ head' = head
        /\ rows' = rows \/ rows' = [rows EXCEPT ![job.cur].repairs = @ + 1]
    BY <1>0, <1>7 DEF RepairGate, Job
  <2>2. \A h \in Head : /\ rows'[h].status = rows[h].status
                        /\ rows'[h].halted = rows[h].halted
    BY <1>0, <2>1 DEF Row
  <2>3. QED
    BY <1>0, <2>1, <2>2 DEF Claims, Claimed, Halted
<1>8. CASE FixerPush
  BY <1>0, <1>1, <1>8 DEF FixerPush, Job
<1>9. ASSUME NEW outcome, NEW ok, NEW last, NEW loose,
             FixerEnd(outcome, ok, last, loose)
      PROVE  Claims'
  BY <1>0, <1>1, <1>9 DEF FixerEnd, Job
<1>10. ASSUME NEW pushes \in BOOLEAN, Verify(pushes)
       PROVE  Claims'
  <2>1. /\ pc # "idle" /\ job'.cur = job.cur /\ rows' = rows
        /\ head' \in {head, head + 1}
    BY <1>0, <1>10 DEF Verify, Job
  <2>2. QED
    BY <1>1, <2>1
<1>11. CASE PassBreaks
  BY <1>0, <1>1, <1>11 DEF PassBreaks, Job
<1>12. CASE SaveHalt
  <2>1. \A h \in Head : /\ rows'[h].status = rows[h].status
                        /\ rows'[h].halted => rows[h].halted \/ h = job.cur
    BY <1>0, <1>12 DEF SaveHalt, Row
  <2>2. QED
    BY <1>0, <1>12, <2>1 DEF SaveHalt, Claims, Claimed, Halted
<1>13. ASSUME NEW row, EndRun(row), row.status # "absent"
       PROVE  Claims'
  BY <1>0, <1>13 DEF EndRun, Claims, Claimed, Halted
<1>14. CASE Finalize
  <2>1. pc # "idle" => rows[job.cur] \in Row
    BY <1>0
  <2>2. \A old \in Row, s \in {"failed", "waiting", "completed"} :
          [old EXCEPT !.status = s].status # "absent"
    BY DEF Row
  <2>3. CASE FinalizeHalted \/ FinalizeWaiting \/ FinalizeSuperseded
    BY <1>13, <2>1, <2>2, <2>3
       DEF FinalizeHalted, FinalizeWaiting, FinalizeSuperseded, EndRun
  <2>4. ASSUME NEW answered, NEW labels, FinalizeFailed(answered, labels)
        PROVE  Claims'
    <3>1. \A old \in Row : \A v, e :
            [[old EXCEPT !.status = "failed"] EXCEPT !.fixPushed = TRUE,
               !.verdict = v, !.exhausted = e].status # "absent"
      BY DEF Row
    <3>2. pc # "idle"
      BY <2>4 DEF FinalizeFailed, EndRun
    <3>3. QED
      BY <1>13, <2>1, <2>2, <2>4, <3>1, <3>2 DEF FinalizeFailed
  <2>5. CASE FinalizeReviewed
    <3>1. \A old \in Row : \A b, v, e :
            [old EXCEPT !.status = "completed", !.fixPushed = b,
               !.verdict = v, !.exhausted = e].status # "absent"
      BY DEF Row
    <3>2. pc # "idle"
      BY <2>5 DEF FinalizeReviewed, EndRun
    <3> DEFINE pushed == head # job.cur
               e == IF RoundEndedChain(run.round, pushed, job.verdict)
                    THEN head ELSE 0
               row == [rows[job.cur] EXCEPT !.status = "completed",
                         !.fixPushed = pushed, !.verdict = job.verdict,
                         !.exhausted = e]
    <3>3. EndRun(row)
      BY <2>5 DEF FinalizeReviewed
    <3> HIDE DEF pushed, e
    <3>4. row.status # "absent"
      BY <2>1, <3>1, <3>2
    <3>5. QED
      BY <1>13, <3>3, <3>4
  <2>6. CASE FinalizeRaises
    BY <1>1, <2>6 DEF FinalizeRaises
  <2>7. QED
    BY <1>12, <1>14, <2>3, <2>4, <2>5, <2>6 DEF Finalize
<1>15. CASE Restart
  <2>1. \A h \in Head : /\ rows'[h].status = "absent" <=> rows[h].status = "absent"
                        /\ rows'[h].halted = rows[h].halted
    BY <1>0, <1>15 DEF Restart, Running, Row
  <2>2. QED
    BY <1>0, <1>15, <2>1 DEF Restart, Claims, Claimed, Halted
<1>16. CASE EnsureAutoMerge \/ UserPush \/ FeedbackFixPush
  BY <1>1, <1>16 DEF EnsureAutoMerge, UserPush, FeedbackFixPush
<1>17. CASE UNCHANGED vars
  BY <1>1, <1>17 DEF vars
<1>18. QED
  BY <1>2, <1>3, <1>5, <1>6, <1>7, <1>8, <1>9, <1>10, <1>11, <1>14, <1>15,
     <1>16, <1>17 DEF Next, Review, ProviderPass

-----------------------------------------------------------------------------
(* Results.                                                                *)

\* Every row, run and job keeps its type, and halts and jobs belong to claimed
\* heads.
LEMMA Invariant == Spec => []IInv
<1>1. Init => IInv
  <2> SUFFICES ASSUME Init
               PROVE  IInv
    OBVIOUS
  <2>1. TypeOK
    <3>1. 1 \in Head /\ 0 \in 0..MaxHead
      BY ReviewChainAssumption DEF Head
    <3>2. QED
      BY <3>1, InitialRecords DEF Init, TypeOK
  <2>2. Claims
    BY DEF Init, Claims, Claimed, Halted, NoRow
  <2>3. QED
    BY <2>1, <2>2 DEF IInv
<1>2. IInv /\ [Next]_vars => IInv'
  BY TypedStep, ClaimsInductive DEF IInv
<1>3. QED
  BY <1>1, <1>2, PTL DEF Spec

\* Whatever heads are pushed and whatever their reviews do: no round, claim or
\* budget leaves its range, and no row is written that the planner does not expect.
THEOREM TypeCorrect == Spec => []TypeOK
<1>1. IInv => TypeOK
  BY DEF IInv
<1>2. QED
  BY <1>1, Invariant, PTL

-----------------------------------------------------------------------------
(* What auto-merge asks of a review.                                       *)

\* The run started last is that of the greatest claimed head.
LatestIs ==
  /\ Latest \in Nat
  /\ \A g \in Claimed : g <= Latest
  /\ Claimed # {} => Latest \in Claimed

\* The report of the provider in use and the audit it was made from.
Reported ==
  /\ job.verdict = "clean" => run.audit = "clean" /\ ~job.fixes
  /\ job.verdict = "findings" =>
       /\ run.audit = "findings"
       /\ (job.ok \/ job.accepted) /\ ~job.pending => rows[job.cur].repairs > 0

\* A review at work is that of the latest run, which nobody has judged.
AtWork ==
  /\ pc # "idle" => job.cur = Latest /\ rows[job.cur].status = "running"
  /\ pc \in {"open", "audit", "verify", "finalize"} => Reported
  /\ job.accepted => pc \in {"finalize", "halted"}
  /\ pc = "open" => job.verdict = "none"
  /\ pc \in {"gate", "fixer"} => run.audit = "findings" /\ job.verdict = "findings"
  /\ job.verdict # "incomplete"
  /\ pc = "fixer" => rows[job.cur].repairs > 0
  /\ pc = "halted" =>
       job.halted /\ rows[job.cur].halted /\ rows[job.cur].verdict = "none"

\* The audit of the latest run is clean, or its findings went to a fixer.
Backed ==
  run.audit = "clean" \/ (run.audit = "findings" /\ rows[Latest].repairs > 0)

\* A completed review that is clean is its own head's, and the latest one is
\* backed by its audit unless it halted.
Judged ==
  \A h \in Head : rows[h].status = "completed" =>
    /\ rows[h].verdict = "clean" => rows[h].exhausted \in {0, h}
    /\ h = Latest /\ ~rows[h].halted => Backed

Chain == LatestIs /\ AtWork /\ Judged /\ MergeIsReviewed

LEMMA NewestIs ==
  ASSUME NEW S \in SUBSET Nat, NEW t \in S \cup {0}, \A s \in S : s <= t
  PROVE  Newest(S) = t
<1> DEFINE T == S \cup {0}
<1>1. t \in T /\ \A y \in T : t >= y
  OBVIOUS
<1>2. \A x \in T : (\A y \in T : x >= y) => x = t
  BY <1>1
<1> HIDE DEF T
<1>3. (CHOOSE x \in T : \A y \in T : x >= y) = t
  BY <1>1, <1>2
<1>4. QED
  BY <1>3 DEF Newest, Max, T

\* Steps that claim no head leave the latest run what it is.
LEMMA LatestStays ==
  ASSUME \A h \in Head : rows'[h].status = "absent" <=> rows[h].status = "absent",
         LatestIs
  PROVE  LatestIs' /\ Latest' = Latest
<1>1. Claimed' = Claimed
  BY DEF Claimed
<1>2. Latest' = Latest
  BY <1>1 DEF Latest
<1>3. QED
  BY <1>1, <1>2 DEF LatestIs

\* Steps of a review at work that leave the rows alone, and steps of others that
\* leave its run alone too.
LEMMA RowsStay ==
  ASSUME Chain, rows' = rows, asked' = asked, run' = run \/ pc # "idle"
  PROVE  LatestIs' /\ Latest' = Latest /\ Judged' /\ MergeIsReviewed'
<1>1. LatestIs' /\ Latest' = Latest
  BY LatestStays DEF Chain
<1>2. CASE run' = run
  BY <1>1, <1>2 DEF Chain, Judged, Backed, MergeIsReviewed
<1>3. CASE pc # "idle"
  <2>1. rows[Latest].status = "running"
    BY <1>3 DEF Chain, AtWork
  <2>2. QED
    BY <1>1, <2>1 DEF Chain, Judged, MergeIsReviewed
<1>4. QED
  BY <1>2, <1>3

\* The review ends: only its own row, which nobody had judged, is written.
LEMMA ReviewEnds ==
  ASSUME TypeOK, Claims, Chain, NEW row \in Row, EndRun(row), row.status # "absent",
         row.status = "completed" =>
           /\ row.verdict = "clean" => row.exhausted \in {0, job.cur}
           /\ row.halted \/ run'.audit = "clean"
              \/ (run'.audit = "findings" /\ row.repairs > 0)
  PROVE  Chain'
<1>1. /\ pc # "idle" /\ job.cur \in Head /\ job.cur = Latest
      /\ rows[job.cur].status = "running" /\ rows \in [Head -> Row]
  BY DEF EndRun, Claims, Claimed, Chain, AtWork, TypeOK
<1>2. /\ rows'[job.cur] = row /\ \A h \in Head : h # job.cur => rows'[h] = rows[h]
      /\ pc' = "idle" /\ asked' = asked /\ job'.verdict = "none" /\ ~job'.accepted
  BY <1>1 DEF EndRun, NoJob
<1>3. LatestIs' /\ Latest' = Latest
  BY <1>1, <1>2, LatestStays DEF Chain
<1>4. AtWork'
  BY <1>2 DEF AtWork
<1>5. Judged'
  BY <1>1, <1>2, <1>3 DEF Chain, Judged, Backed
<1>6. MergeIsReviewed'
  <2>1. asked # 0 => asked # job.cur /\ asked \in Head
    BY <1>1 DEF Chain, MergeIsReviewed, TypeOK, Head
  <2>2. QED
    BY <1>1, <1>2, <1>3, <2>1 DEF Chain, MergeIsReviewed
<1>7. QED
  BY <1>3, <1>4, <1>5, <1>6 DEF Chain

\* Claiming, the worktree and the provider pass.
LEMMA ReviewKeepsChain ==
  ASSUME TypeOK, Claims, Chain, TypeOK'
  PROVE  /\ \A round \in 0..LastRound + 1, fixPaused \in BOOLEAN :
              StartReview(round, fixPaused) => Chain'
         /\ \A loose \in Loose : OpenWorktree(loose) => Chain'
         /\ ProviderPass => Chain'
<1> USE ReviewChainAssumption
<1>0. /\ job \in Job /\ run \in Run /\ rows \in [Head -> Row] /\ head \in Head
      /\ pc # "idle" => /\ job.cur \in Head /\ job.cur = Latest
                        /\ rows[job.cur].status = "running"
  BY DEF TypeOK, Claims, Claimed, Chain, AtWork
<1>1. ASSUME rows' = rows, asked' = asked, pc # "idle", AtWork'
      PROVE  Chain'
  BY <1>1, RowsStay DEF Chain
<1>2. ASSUME NEW round \in 0..LastRound + 1, NEW fixPaused \in BOOLEAN,
             StartReview(round, fixPaused)
      PROVE  Chain'
  <2> DEFINE row == ClaimedRow(round)
  <2>1. row.status = "running"
    <3>1. \A old \in Row : [old EXCEPT !.status = "running"].status = "running"
      BY DEF Row
    <3>2. NoRow \in Row /\ rows[head] \in Row
      BY <1>0, InitialRecords
    <3>3. [NoRow EXCEPT !.repairs = rows[head].repairs] \in Row
      BY <3>2 DEF Row
    <3>4. QED
      BY <3>1, <3>2, <3>3 DEF ClaimedRow
  <2> HIDE DEF row
  <2>2. /\ rows'[head] = row /\ \A h \in Head : h # head => rows'[h] = rows[h]
        /\ head' = head /\ asked' = asked /\ pc' = "open"
        /\ job'.cur = head /\ job'.verdict = "none" /\ ~job'.accepted
        /\ rows[head].status # "completed"
    BY <1>0, <1>2 DEF StartReview, NoJob, row
  <2>3. Claimed' = Claimed \cup {head}
    BY <1>0, <2>1, <2>2 DEF Claimed
  <2>4. Latest' = head
    <3>1. Claimed' \in SUBSET Nat /\ \A g \in Claimed' : g <= head
      BY <1>0, <2>3 DEF Claims, Claimed, Head
    <3>2. QED
      BY <2>2, <2>3, <3>1, NewestIs DEF Latest
  <2>5. LatestIs'
    BY <1>0, <2>3, <2>4 DEF LatestIs, Claims, Claimed, Head
  <2>6. AtWork'
    BY <2>1, <2>2, <2>4 DEF AtWork, Reported
  <2>7. Judged'
    BY <1>0, <2>1, <2>2, <2>4 DEF Chain, Judged
  <2>8. MergeIsReviewed'
    <3>1. asked # 0 => asked # head /\ asked \in Head
      BY <2>2 DEF Chain, MergeIsReviewed, TypeOK, Head
    <3>2. QED
      BY <2>2, <2>4, <3>1 DEF Chain, MergeIsReviewed
  <2>9. QED
    BY <2>5, <2>6, <2>7, <2>8 DEF Chain
<1>3. ASSUME NEW loose \in Loose, OpenWorktree(loose)
      PROVE  Chain'
  <2>1. /\ rows' = rows /\ run' = run /\ asked' = asked /\ pc = "open" /\ pc' = "audit"
        /\ job'.cur = job.cur /\ job'.verdict = job.verdict /\ job'.accepted = job.accepted
    BY <1>0, <1>3 DEF OpenWorktree, Job
  <2>2. Latest' = Latest
    BY <2>1, RowsStay
  <2>3. AtWork'
    BY <2>1, <2>2 DEF Chain, AtWork, Reported
  <2>4. QED
    BY <1>1, <2>1, <2>3
<1>4. ASSUME NEW r \in Run, NEW kind \in Audit, NEW resuming \in BOOLEAN,
             Audited(r, kind, resuming), pc = "audit"
      PROVE  Chain'
  <2>1. /\ rows' = rows /\ asked' = asked /\ run'.audit = kind /\ job'.cur = job.cur
        /\ job'.fixes = FALSE /\ job'.accepted = job.accepted
        /\ job'.verdict = IF kind = "incomplete" THEN "none" ELSE kind
        /\ pc' \in {"gate", "verify"} /\ (pc' = "gate" => kind = "findings")
        /\ pc' = "verify" /\ kind = "findings" => job'.pending
    BY <1>0, <1>4 DEF Audited, Job, Run
  <2>2. Latest' = Latest
    BY <1>4, <2>1, RowsStay
  <2>3. AtWork'
    BY <1>0, <1>4, <2>1, <2>2 DEF Chain, AtWork, Reported
  <2>4. QED
    BY <1>1, <1>4, <2>1, <2>3
<1>5. CASE ResumeAudit \/ \E kind \in Audit \ {"none"} : NewAudit(kind)
  <2>1. run.audit \in Audit
    BY <1>0 DEF Run
  <2>2. QED
    BY <1>0, <1>4, <1>5, <2>1 DEF ResumeAudit, NewAudit, AuditorRuns
<1>6. CASE DiscardAudit
  <2>1. /\ rows' = rows /\ asked' = asked /\ pc = "audit" /\ pc' = pc /\ job' = job
        /\ run'.audit = run.audit
    BY <1>0, <1>6 DEF DiscardAudit, Run
  <2>2. Latest' = Latest
    BY <2>1, RowsStay
  <2>3. AtWork'
    BY <2>1, <2>2 DEF Chain, AtWork, Reported
  <2>4. QED
    BY <1>1, <2>1, <2>3
<1>7. ASSUME NEW last \in BOOLEAN, NEW loose \in Loose, AuditFails(last, loose)
      PROVE  Chain'
  <2>1. /\ rows' = rows /\ asked' = asked /\ pc = "audit" /\ pc' = "verify"
        /\ job'.cur = job.cur /\ job'.verdict = "none" /\ job'.accepted = job.accepted
    BY <1>0, <1>7 DEF AuditFails, AuditorRuns, Job
  <2>2. Latest' = Latest
    BY <2>1, RowsStay
  <2>3. AtWork'
    BY <1>0, <2>1, <2>2 DEF Chain, AtWork, Reported
  <2>4. QED
    BY <1>1, <2>1, <2>3
<1>8. ASSUME NEW cancelled \in BOOLEAN, RepairGate(cancelled)
      PROVE  Chain'
  <2>1. /\ pc = "gate" /\ pc' \in {"fixer", "verify"} /\ asked' = asked
        /\ run'.audit = run.audit /\ job'.cur = job.cur /\ job'.ok = FALSE
        /\ job'.verdict = job.verdict /\ job'.accepted = job.accepted
    BY <1>0, <1>8 DEF RepairGate, Job, Run
  <2>2. CASE rows' = rows /\ pc' = "verify"
    <3>1. Latest' = Latest
      BY <2>1, <2>2, RowsStay
    <3>2. ~job.accepted
      BY <2>1 DEF Chain, AtWork
    <3>3. AtWork'
      BY <1>0, <2>1, <2>2, <3>1, <3>2 DEF Chain, AtWork, Reported
    <3>4. QED
      BY <1>1, <2>1, <2>2, <3>3
  <2>3. CASE pc' = "fixer" /\ rows' = [rows EXCEPT ![job.cur].repairs = @ + 1]
    <3>1. \A h \in Head :
            /\ rows'[h].status = rows[h].status /\ rows'[h].halted = rows[h].halted
            /\ rows'[h].verdict = rows[h].verdict
            /\ rows'[h].exhausted = rows[h].exhausted
            /\ h # job.cur => rows'[h].repairs = rows[h].repairs
      BY <1>0, <2>1, <2>3 DEF Row
    <3>2. rows'[job.cur].repairs > 0
      BY <1>0, <2>1, <2>3 DEF Row
    <3>3. LatestIs' /\ Latest' = Latest
      BY <3>1, LatestStays DEF Chain
    <3>4. AtWork'
      BY <1>0, <2>1, <2>3, <3>1, <3>2, <3>3 DEF Chain, AtWork
    <3>5. Judged'
      BY <1>0, <2>1, <3>1, <3>3 DEF Chain, Judged
    <3>6. MergeIsReviewed'
      <4>1. asked # 0 => asked # job.cur /\ asked \in Head
        BY <1>0, <2>1 DEF Chain, MergeIsReviewed, TypeOK, Head
      <4>2. QED
        BY <1>0, <2>1, <3>1, <3>3, <4>1 DEF Chain, MergeIsReviewed
    <3>7. QED
      BY <3>3, <3>4, <3>5, <3>6 DEF Chain
  <2>4. QED
    BY <1>8, <2>2, <2>3 DEF RepairGate
<1>9. CASE FixerPush
  <2>1. /\ rows' = rows /\ asked' = asked /\ run' = run /\ pc = "fixer" /\ pc' = pc
        /\ job'.cur = job.cur /\ job'.verdict = job.verdict /\ job'.accepted = job.accepted
    BY <1>0, <1>9 DEF FixerPush, Job
  <2>2. Latest' = Latest
    BY <2>1, RowsStay
  <2>3. AtWork'
    BY <2>1, <2>2 DEF Chain, AtWork
  <2>4. QED
    BY <1>1, <2>1, <2>3
<1>10. ASSUME NEW outcome \in {"disputed", "unreported", "fixed"},
              NEW ok \in BOOLEAN, NEW last \in BOOLEAN, NEW loose \in Loose,
              FixerEnd(outcome, ok, last, loose)
       PROVE  Chain'
  <2>1. /\ rows' = rows /\ asked' = asked /\ run' = run /\ pc = "fixer" /\ pc' = "verify"
        /\ job'.cur = job.cur /\ job'.verdict \in {"none", "findings"}
        /\ job'.accepted = job.accepted
    BY <1>0, <1>10 DEF FixerEnd, Job
  <2>2. Latest' = Latest
    BY <2>1, RowsStay
  <2>3. AtWork'
    BY <2>1, <2>2 DEF Chain, AtWork, Reported
  <2>4. QED
    BY <1>1, <2>1, <2>3
<1>11. ASSUME NEW pushes \in BOOLEAN, Verify(pushes)
       PROVE  Chain'
  <2>1. /\ rows' = rows /\ asked' = asked /\ run' = run /\ pc = "verify"
        /\ pc' \in {"audit", "finalize"}
        /\ job'.cur = job.cur /\ job'.verdict = job.verdict /\ job'.fixes = job.fixes
        /\ job'.pending = job.pending
        /\ (job'.ok \/ job'.accepted) => job.ok \/ job.accepted
        /\ pc' = "audit" => job'.accepted = job.accepted
    BY <1>0, <1>11 DEF Verify, Job, NoJob
  <2>2. Latest' = Latest
    BY <2>1, RowsStay
  <2>3. AtWork'
    BY <2>1, <2>2 DEF Chain, AtWork, Reported
  <2>4. QED
    BY <1>1, <2>1, <2>3
<1>12. CASE PassBreaks
  <2>1. /\ rows' = rows /\ asked' = asked /\ run'.audit = run.audit
        /\ pc \in {"open", "audit", "gate", "verify"} /\ pc' = "finalize"
        /\ job'.cur = job.cur /\ job'.verdict = job.verdict /\ job'.fixes = job.fixes
        /\ ~job'.ok /\ ~job'.accepted
    BY <1>0, <1>12 DEF PassBreaks, Job, NoJob, Run
  <2>2. Latest' = Latest
    BY <2>1, RowsStay
  <2>3. AtWork'
    BY <2>1, <2>2 DEF Chain, AtWork, Reported
  <2>4. QED
    BY <1>1, <2>1, <2>3
<1>13. QED
  BY <1>2, <1>3, <1>5, <1>6, <1>7, <1>8, <1>9, <1>10, <1>11, <1>12 DEF ProviderPass

\* The exits of _finalize.
LEMMA FinalizeKeepsChain ==
  ASSUME TypeOK, Claims, Chain, TypeOK', Finalize
  PROVE  Chain'
<1>0. /\ job \in Job /\ run \in Run /\ rows \in [Head -> Row] /\ head \in Head
      /\ pc # "idle" => /\ job.cur \in Head /\ job.cur = Latest
                        /\ rows[job.cur].status = "running" /\ rows[job.cur] \in Row
  BY DEF TypeOK, Claims, Claimed, Chain, AtWork
<1>1. CASE SaveHalt
  <2>1. \A h \in Head :
          /\ rows'[h].status = rows[h].status
          /\ h # job.cur => rows'[h] = rows[h]
    BY <1>0, <1>1 DEF SaveHalt, Row
  <2>2. /\ pc = "finalize" /\ pc' = "halted" /\ job.halted /\ job' = job /\ asked' = asked
        /\ run'.audit = run.audit
        /\ rows'[job.cur].halted /\ rows'[job.cur].verdict = "none"
    BY <1>0, <1>1 DEF SaveHalt, Row, Run
  <2>3. LatestIs' /\ Latest' = Latest
    BY <2>1, LatestStays DEF Chain
  <2>4. AtWork'
    <3>1. rows'[job.cur].status = "running" /\ job.cur = Latest
      BY <1>0, <2>1, <2>2
    <3>2. job.verdict # "incomplete"
      BY DEF Chain, AtWork
    <3>3. QED
      BY <2>2, <2>3, <3>1, <3>2 DEF AtWork
  <2>5. Judged'
    BY <1>0, <2>1, <2>2, <2>3 DEF Chain, Judged
  <2>6. MergeIsReviewed'
    <3>1. asked # 0 => asked # job.cur /\ asked \in Head
      BY <1>0, <2>2 DEF Chain, MergeIsReviewed, TypeOK, Head
    <3>2. QED
      BY <1>0, <2>1, <2>2, <2>3, <3>1 DEF Chain, MergeIsReviewed
  <2>7. QED
    BY <2>3, <2>4, <2>5, <2>6 DEF Chain
<1>2. CASE FinalizeHalted
  <2> DEFINE row == [rows[job.cur] EXCEPT !.status = "completed"]
  <2>1. EndRun(row) /\ pc = "halted"
    BY <1>2 DEF FinalizeHalted
  <2>2. row \in Row /\ row.status = "completed" /\ row.halted /\ row.verdict = "none"
    BY <1>0, <2>1 DEF Row, Chain, AtWork
  <2> HIDE DEF row
  <2>3. QED
    BY <2>1, <2>2, ReviewEnds
<1>3. ASSUME NEW status \in {"waiting", "failed"},
             EndRun([rows[job.cur] EXCEPT !.status = status])
      PROVE  Chain'
  <2> DEFINE row == [rows[job.cur] EXCEPT !.status = status]
  <2>1. row \in Row /\ row.status = status
    <3>1. pc # "idle"
      BY <1>3 DEF EndRun
    <3>2. QED
      BY <1>0, <3>1 DEF Row
  <2> HIDE DEF row
  <2>2. EndRun(row)
    BY <1>3 DEF row
  <2>3. QED
    BY <2>1, <2>2, ReviewEnds
<1>4. CASE FinalizeWaiting \/ FinalizeSuperseded
  BY <1>3, <1>4 DEF FinalizeWaiting, FinalizeSuperseded
<1>5. ASSUME NEW answered \in BOOLEAN, NEW labels \in BOOLEAN,
             FinalizeFailed(answered, labels)
      PROVE  Chain'
  <2> DEFINE row == [rows[job.cur] EXCEPT !.status = "failed"]
             e == IF run.round > 0 THEN head ELSE 0
             shown == [row EXCEPT !.fixPushed = TRUE, !.verdict = job.verdict, !.exhausted = e]
  <2>1. row \in Row /\ job.verdict \in Audit /\ e \in 0..MaxHead
    <3>1. pc # "idle"
      BY <1>5 DEF FinalizeFailed, EndRun
    <3>2. row \in Row
      BY <1>0, <3>1 DEF Row
    <3>3. job.verdict \in Audit
      BY <1>0 DEF Job
    <3>4. head \in 0..MaxHead /\ 0 \in 0..MaxHead
      BY <1>0, ReviewChainAssumption DEF Head
    <3>5. QED
      BY <3>2, <3>3, <3>4
  <2>2. shown \in Row /\ shown.status = "failed"
    <3>1. row.status = "failed"
      <4>1. rows[job.cur] \in Row
        BY <1>0, <1>5 DEF FinalizeFailed, EndRun
      <4>2. QED
        BY <4>1 DEF Row
    <3> HIDE DEF row, e
    <3>2. QED
      BY <2>1, <3>1 DEF Row
  <2>3. EndRun(row) \/ EndRun(shown)
    BY <1>5 DEF FinalizeFailed
  <2>4. CASE EndRun(row)
    BY <1>3, <2>4
  <2>5. CASE EndRun(shown)
    <3> HIDE DEF shown
    <3>1. QED
      BY <2>2, <2>5, ReviewEnds
  <2>6. QED
    BY <2>3, <2>4, <2>5
<1>6. CASE FinalizeReviewed
  <2> DEFINE pushed == head # job.cur
             e == IF RoundEndedChain(run.round, pushed, job.verdict) THEN head ELSE 0
             row == [rows[job.cur] EXCEPT !.status = "completed", !.fixPushed = pushed,
                       !.verdict = job.verdict, !.exhausted = e]
  <2>1. /\ EndRun(row) /\ run' = run /\ Fixed /\ ~job.pending /\ ~job.halted
        /\ pc \in {"finalize", "halted"}
        /\ pushed => job.fixes
    BY <1>6 DEF FinalizeReviewed, EndRun
  <2>2. pushed \in BOOLEAN /\ e \in {0, head} /\ e \in 0..MaxHead /\ job.verdict \in Audit
    <3>1. head \in 0..MaxHead /\ 0 \in 0..MaxHead
      BY <1>0, ReviewChainAssumption DEF Head
    <3>2. e \in {0, head}
      OBVIOUS
    <3> HIDE DEF e
    <3>3. QED
      BY <1>0, <3>1, <3>2 DEF Job
  <2>3. e \in {0, head} /\ (job.verdict = "clean" => head = job.cur)
        /\ (job.verdict = "clean" => run.audit = "clean")
        /\ (job.verdict = "findings" =>
              run.audit = "findings" /\ rows[job.cur].repairs > 0)
        /\ job.verdict \in {"clean", "findings"}
    <3>1. job.accepted /\ job.verdict # "none" /\ pc = "finalize"
      BY <2>1 DEF Fixed, Chain, AtWork
    <3>2. Reported
      BY <3>1 DEF Chain, AtWork
    <3>3. job.verdict # "incomplete"
      BY <3>1 DEF Chain, AtWork
    <3>4. QED
      BY <2>1, <2>2, <3>1, <3>2, <3>3 DEF Reported, Audit
  <2> HIDE DEF pushed, e
  <2>4. /\ row \in Row /\ row.status = "completed" /\ row.verdict = job.verdict
        /\ row.exhausted = e /\ row.repairs = rows[job.cur].repairs
    BY <1>0, <2>1, <2>2 DEF Row
  <2> HIDE DEF row
  <2>5. QED
    BY <2>1, <2>3, <2>4, ReviewEnds
<1>7. CASE FinalizeRaises
  <2>1. /\ rows' = rows /\ asked' = asked /\ run' = run /\ pc' = "idle"
        /\ ~job'.accepted /\ job'.verdict = "none"
    BY <1>7 DEF FinalizeRaises, NoJob
  <2>2. AtWork'
    BY <2>1 DEF AtWork
  <2>3. QED
    BY <2>1, <2>2, RowsStay DEF Chain
<1>8. QED
  BY <1>1, <1>2, <1>4, <1>5, <1>6, <1>7 DEF Finalize

\* A head has a completed review only as its own: no other run's row vouches for it.
LEMMA ReviewIsOwn ==
  ASSUME TypeOK, Chain, HasCompletedReview(head)
  PROVE  rows[head].status = "completed" /\ head \notin Halted
<1>0. head \in Head /\ Head \subseteq Nat /\ 0 \notin Head
  BY DEF TypeOK, Head
<1>1. CASE rows[head].status = "completed"
  BY <1>0, <1>1 DEF HasCompletedReview, Halted
<1>2. ASSUME NEW g \in Claimed, rows[g].status = "completed",
             rows[g].exhausted = head, rows[g].verdict = "clean"
      PROVE  g = head
  <2>1. g \in Head /\ head # 0
    BY <1>0 DEF Claimed
  <2>2. QED
    BY <1>2, <2>1 DEF Chain, Judged
<1>3. QED
  BY <1>1, <1>2 DEF HasCompletedReview

LEMMA ChainInductive ==
  ASSUME TypeOK, Claims, Chain, TypeOK', Claims', [Next]_vars
  PROVE  Chain'
<1>0. rows \in [Head -> Row] /\ head \in Head /\ Head \subseteq Nat
  BY DEF TypeOK, Head
<1>1. CASE Review
  BY <1>1, ReviewKeepsChain, FinalizeKeepsChain DEF Review
<1>2. CASE Restart
  <2>1. \A h \in Head :
          /\ rows'[h].status = "absent" <=> rows[h].status = "absent"
          /\ rows'[h].status = "completed" <=> rows[h].status = "completed"
          /\ rows'[h].halted = rows[h].halted /\ rows'[h].verdict = rows[h].verdict
          /\ rows'[h].exhausted = rows[h].exhausted /\ rows'[h].repairs = rows[h].repairs
    BY <1>0, <1>2 DEF Restart, Running, Row
  <2>2. /\ run'.audit = run.audit /\ pc' = "idle" /\ asked' = asked
        /\ ~job'.accepted /\ job'.verdict = "none"
    BY <1>2 DEF Restart, NoJob, TypeOK, Run
  <2>3. LatestIs' /\ Latest' = Latest
    BY <2>1, LatestStays DEF Chain
  <2>4. AtWork'
    BY <2>2 DEF AtWork
  <2>5. Judged'
    BY <2>1, <2>2, <2>3 DEF Chain, Judged, Backed
  <2>6. MergeIsReviewed'
    <3>1. asked # 0 => asked \in Head
      BY DEF TypeOK, Head
    <3>2. QED
      BY <2>1, <2>2, <2>3, <3>1 DEF Chain, MergeIsReviewed
  <2>7. QED
    BY <2>3, <2>4, <2>5, <2>6 DEF Chain
<1>3. CASE EnsureAutoMerge
  <2>1. /\ rows' = rows /\ run' = run /\ pc' = pc /\ job' = job /\ asked' = head
        /\ HasCompletedReview(head)
    BY <1>3 DEF EnsureAutoMerge
  <2>2. LatestIs' /\ Latest' = Latest
    BY <2>1, LatestStays DEF Chain
  <2>3. AtWork' /\ Judged'
    BY <2>1, <2>2 DEF Chain, AtWork, Reported, Judged, Backed
  <2>4. rows[head].status = "completed" /\ ~rows[head].halted
    BY <1>0, <2>1, ReviewIsOwn DEF Halted
  <2>5. MergeIsReviewed'
    BY <1>0, <2>1, <2>2, <2>4 DEF Chain, Judged, Backed, MergeIsReviewed
  <2>6. QED
    BY <2>2, <2>3, <2>5 DEF Chain
<1>4. CASE UserPush \/ FeedbackFixPush \/ UNCHANGED vars
  <2>1. rows' = rows /\ asked' = asked /\ run' = run /\ pc' = pc /\ job' = job
    BY <1>4 DEF UserPush, FeedbackFixPush, vars
  <2>2. LatestIs' /\ Latest' = Latest /\ Judged' /\ MergeIsReviewed'
    BY <2>1, RowsStay
  <2>3. AtWork'
    BY <2>1, <2>2 DEF Chain, AtWork, Reported
  <2>4. QED
    BY <2>2, <2>3 DEF Chain
<1>5. QED
  BY <1>1, <1>2, <1>3, <1>4 DEF Next

LEMMA ChainHolds == Spec => []Chain
<1>1. Init => Chain
  <2> SUFFICES ASSUME Init
               PROVE  Chain
    OBVIOUS
  <2>1. Claimed = {} /\ Latest = 0
    <3>1. Claimed = {}
      BY DEF Init, Claimed, NoRow
    <3>2. QED
      BY <3>1, NewestIs DEF Latest
  <2>2. QED
    BY <2>1 DEF Init, Chain, LatestIs, AtWork, Judged, MergeIsReviewed, NoRow, NoJob
<1>2. IInv /\ IInv' /\ Chain /\ [Next]_vars => Chain'
  BY ChainInductive DEF IInv
<1>3. QED
  BY <1>1, <1>2, Invariant, PTL DEF Spec

\* Whatever is pushed, superseded, interrupted or retried, auto-merge is only
\* requested for a head whose own review completed without a halt, with a clean
\* audit or one whose findings went to a fixer.
THEOREM MergesAreReviewed == Spec => []MergeIsReviewed
  BY ChainHolds, PTL DEF Chain

-----------------------------------------------------------------------------
(* The budget of writers.                                                  *)

\* The heads after every halt, and the writers their rows still count.
Window == {h \in Head : \A x \in Halted : x < h}
Kept == UNION {Writers(h) : h \in Window}

\* The runs _review_repairs_used counts for the run of head h, and their writers.
Counted(h) == {g \in Claimed \ (Halted \ {h}) : \A x \in Halted \ {h} : x < g}
Used(h) == UNION {Charged(g) : g \in Counted(h)}

Unhalted == pc \notin {"idle", "halted"} => job.cur \notin Halted

\* Until a claim forgets one, the rows count every writer that started since the
\* last halt.
Budgeted ==
  /\ Unhalted
  /\ IsFiniteSet(Kept)
  /\ \A h \in Head \ Claimed : rows[h].repairs = 0
  /\ ~forgot => started <= MaxRepairs /\ started <= Cardinality(Kept)

\* A pair is a writer of the run it names.
LEMMA KeptIs ==
  ASSUME NEW w
  PROVE  w \in Kept <=>
           \E h \in Window : \E n \in 1..rows[h].repairs : w = <<h, n>>
BY DEF Kept, Writers

\* Steps that start no writer: what the rows count stays, unless a claim forgets
\* or a halt begins a new budget.
LEMMA BudgetStays ==
  ASSUME TypeOK, TypeOK', Budgeted, Unhalted',
         \A h \in Head :
           /\ rows'[h].repairs <= rows[h].repairs
           /\ rows[h].halted => rows'[h].halted
           /\ rows'[h].status = "absent" => rows[h].status = "absent",
         \/ forgot' \/ started' = 0
         \/ /\ forgot' = forgot /\ started' = started
            /\ \A h \in Head : /\ rows'[h].repairs = rows[h].repairs
                               /\ rows'[h].halted = rows[h].halted
  PROVE  Budgeted'
<1>1. \A h \in Head : rows[h].repairs \in Nat /\ rows'[h].repairs \in Nat
  BY DEF TypeOK, Row
<1>2. IsFiniteSet(Kept')
  <2>1. Window' \subseteq Window
    BY DEF Window, Halted
  <2>2. \A h \in Head : 1..rows'[h].repairs \subseteq 1..rows[h].repairs
    BY <1>1
  <2>3. Window \subseteq Head
    BY DEF Window
  <2>4. Kept' \subseteq Kept
    BY <2>1, <2>2, <2>3 DEF Kept, Writers
  <2>5. QED
    BY <2>4, FS_Subset DEF Budgeted
<1>3. ASSUME NEW h \in Head \ Claimed'
      PROVE  rows'[h].repairs = 0
  <2>1. h \in Head \ Claimed
    BY <1>3 DEF Claimed
  <2>2. QED
    BY <1>1, <2>1 DEF Budgeted
<1>4. ASSUME ~forgot'
      PROVE  started' <= MaxRepairs /\ started' <= Cardinality(Kept')
  <2>1. CASE started' = 0
    <3>1. Cardinality(Kept') \in Nat
      BY <1>2, FS_CardinalityType
    <3>2. QED
      BY <2>1, <3>1 DEF MaxRepairs
  <2>2. CASE /\ forgot' = forgot /\ started' = started
             /\ \A h \in Head : /\ rows'[h].repairs = rows[h].repairs
                                /\ rows'[h].halted = rows[h].halted
    <3>1. Window' = Window /\ Window \subseteq Head
      BY <2>2 DEF Window, Halted
    <3>2. \A h \in Head : Writers(h)' = Writers(h)
      BY <2>2 DEF Writers
    <3>3. Kept' = Kept
      BY <3>1, <3>2 DEF Kept
    <3>4. QED
      BY <1>4, <2>2, <3>3 DEF Budgeted, MaxRepairs
  <2>3. QED
    BY <1>4, <2>1, <2>2
<1>5. QED
  BY <1>2, <1>3, <1>4 DEF Budgeted, MaxRepairs

\* The gate counts at least what the rows keep of the writers since the last halt.
LEMMA GateCounts ==
  ASSUME TypeOK, Claims, LatestIs, Budgeted, Latest \in Head \ Halted
  PROVE  /\ Kept \subseteq Used(Latest)
         /\ IsFiniteSet(Used(Latest))
<1>0. /\ Head \subseteq Nat /\ Latest \in Nat
      /\ Halted \subseteq Claimed /\ Claimed \subseteq Head
  BY DEF Head, Claimed, Claims, LatestIs
<1>1. ASSUME NEW h \in Window, h \in Claimed
      PROVE  h \in Counted(Latest)
  <2>1. h \in Nat /\ ~(h < h)
    BY <1>0, <1>1
  <2>2. QED
    BY <1>1, <2>1 DEF Counted, Window
<1>2. Kept \subseteq Used(Latest)
  <2> SUFFICES ASSUME NEW w \in Kept
               PROVE  w \in Used(Latest)
    OBVIOUS
  <2>1. PICK h \in Window : \E n \in 1..rows[h].repairs : w = <<h, n>>
    BY KeptIs
  <2>2. h \in Head /\ rows[h].repairs # 0
    BY <2>1 DEF Window
  <2>3. h \in Claimed
    BY <2>2 DEF Budgeted
  <2>4. w \in Charged(h)
    BY <2>1 DEF Charged, Writers
  <2>5. QED
    BY <1>1, <2>3, <2>4 DEF Used
<1>3. Used(Latest) \subseteq Kept \cup (Head \X {1})
  <2>1. Counted(Latest) \subseteq Window
    BY <1>0 DEF Counted, Window
  <2>2. \A h \in Counted(Latest) :
          Charged(h) \subseteq Writers(h) \cup {<<h, 1>>} /\ h \in Head
    BY DEF Charged, Counted, Claimed
  <2>3. \A h \in Counted(Latest) : Writers(h) \subseteq Kept
    BY <2>1 DEF Kept
  <2>4. \A h \in Head : <<h, 1>> \in Head \X {1}
    OBVIOUS
  <2>5. ASSUME NEW h \in Counted(Latest), NEW w \in Charged(h)
        PROVE  w \in Kept \cup (Head \X {1})
    BY <2>2, <2>3, <2>4
  <2>6. QED
    BY <2>5 DEF Used
<1>4. IsFiniteSet(Kept \cup (Head \X {1}))
  <2>1. IsFiniteSet(Head) /\ IsFiniteSet({1})
    <3>1. 1 \in Int /\ MaxHead \in Int
      BY ReviewChainAssumption
    <3>2. IsFiniteSet(1..MaxHead)
      BY <3>1, FS_Interval
    <3>3. QED
      BY <3>2, FS_Singleton DEF Head
  <2>2. IsFiniteSet(Head \X {1})
    BY <2>1, FS_Product
  <2>3. IsFiniteSet(Kept)
    BY DEF Budgeted
  <2>4. QED
    BY <2>2, <2>3, FS_Union
<1>5. IsFiniteSet(Used(Latest))
  BY <1>3, <1>4, FS_Subset
<1>6. QED
  BY <1>2, <1>5

\* The writer that the gate starts fits, and the rows count it.
LEMMA GateFits ==
  ASSUME TypeOK, TypeOK', Claims, LatestIs, Budgeted, Unhalted',
         NEW l \in Head, l = Latest, l \notin Halted,
         rows[l].status # "absent", RepairsUsed(l) < MaxRepairs,
         rows' = [rows EXCEPT ![l].repairs = @ + 1],
         started' \in {started, started + 1}, forgot' = forgot
  PROVE  Budgeted'
<1>0. rows \in [Head -> Row] /\ rows[l].repairs \in Nat
  BY DEF TypeOK, Row
<1> DEFINE new == <<l, rows[l].repairs + 1>>
<1>1. \A h \in Head : /\ rows'[h].halted = rows[h].halted
                      /\ rows'[h].status = rows[h].status
                      /\ h # l => rows'[h].repairs = rows[h].repairs
                      /\ h = l => rows'[h].repairs = rows[h].repairs + 1
  BY <1>0 DEF Row
<1>2. Window' = Window /\ Window \subseteq Head
  BY <1>1 DEF Window, Halted
<1>3. l \in Window
  <2>1. \A x \in Halted : x \in Nat /\ x <= l /\ x # l /\ l \in Nat
    BY DEF Claims, LatestIs, Claimed, Head
  <2>2. QED
    BY <2>1 DEF Window
<1>4. Kept' = Kept \cup {new}
  <2>1. \A h \in Window : h # l => Writers(h)' = Writers(h)
    BY <1>1, <1>2 DEF Writers
  <2>2. Writers(l)' = Writers(l) \cup {new}
    <3>1. 1..(rows[l].repairs + 1) = 1..rows[l].repairs \cup {rows[l].repairs + 1}
      BY <1>0
    <3>2. ASSUME NEW x, NEW A, NEW b
          PROVE  {x} \X (A \cup {b}) = ({x} \X A) \cup {<<x, b>>}
      OBVIOUS
    <3>3. rows'[l].repairs = rows[l].repairs + 1
      BY <1>1
    <3>4. QED
      BY <3>1, <3>2, <3>3 DEF Writers
  <2>3. QED
    BY <1>2, <1>3, <2>1, <2>2 DEF Kept
<1>5. new \notin Kept
  <2> SUFFICES ASSUME new \in Kept
               PROVE  FALSE
    OBVIOUS
  <2>1. PICK h \in Window : \E n \in 1..rows[h].repairs : new = <<h, n>>
    BY KeptIs
  <2>2. rows[l].repairs + 1 \in 1..rows[l].repairs
    BY <2>1
  <2>3. QED
    BY <1>0, <2>2
<1> HIDE DEF new
<1>6. /\ IsFiniteSet(Kept) /\ IsFiniteSet(Kept')
      /\ Cardinality(Kept') = Cardinality(Kept) + 1
  BY <1>4, <1>5, FS_AddElement DEF Budgeted
<1>7. /\ Cardinality(Kept) <= Cardinality(Used(l))
      /\ Cardinality(Used(l)) \in Nat /\ Cardinality(Kept) \in Nat
  BY <1>6, GateCounts, FS_Subset, FS_CardinalityType
<1>8. Cardinality(Used(l)) < MaxRepairs
  BY DEF RepairsUsed, Used, Counted
<1>9. ~forgot' => started' <= MaxRepairs /\ started' <= Cardinality(Kept')
  <2>1. started \in Nat
    BY DEF TypeOK
  <2>2. QED
    BY <1>6, <1>7, <1>8, <2>1 DEF Budgeted, MaxRepairs
<1>10. ASSUME NEW h \in Head \ Claimed'
       PROVE  rows'[h].repairs = 0
  BY <1>1, <1>10 DEF Claimed, Budgeted
<1>11. QED
  BY <1>6, <1>9, <1>10 DEF Budgeted, MaxRepairs

\* A claim of the head keeps what its row counts or forgets it, and never takes a
\* halt back: a plan for a head that halted is empty.
LEMMA ClaimFits ==
  ASSUME TypeOK, TypeOK', Claims, Budgeted,
         NEW round \in 0..LastRound + 1, NEW fixPaused \in BOOLEAN,
         StartReview(round, fixPaused)
  PROVE  Budgeted'
<1>0. rows \in [Head -> Row] /\ rows[head] \in Row /\ head \in Head
  BY DEF TypeOK
<1>1. ~rows[head].halted
  <2>1. rows[head].halted => Claimed # {} /\ HaltForbids
    BY <1>0 DEF Halted, HaltForbids, Claims
  <2>2. QED
    BY <2>1 DEF StartReview, ReviewPlan
<1>2. ClaimedRow(round).status = "running" /\ ~ClaimedRow(round).halted
  BY <1>0, <1>1 DEF ClaimedRow, NoRow, Row
<1>3. /\ rows[head].repairs \in Nat
      /\ ClaimedRow(round).repairs \in {0, rows[head].repairs}
  BY <1>0 DEF ClaimedRow, NoRow, Row
<1>4. \A h \in Head : /\ rows[h].repairs \in Nat
                      /\ rows'[h] = IF h = head THEN ClaimedRow(round) ELSE rows[h]
  BY <1>0 DEF StartReview, Row
<1>5. Unhalted'
  <2>1. job'.cur = head
    BY DEF StartReview, NoJob
  <2>2. QED
    BY <1>0, <1>2, <1>4, <2>1 DEF Unhalted, Halted
<1>6. CASE ClaimedRow(round).repairs = rows[head].repairs
  <2>1. forgot' = forgot /\ started' = started
    BY <1>3, <1>6 DEF StartReview, TypeOK
  <2>2. \A h \in Head : /\ rows'[h].repairs = rows[h].repairs
                        /\ rows'[h].halted = rows[h].halted
                        /\ rows'[h].status = "absent" => rows[h].status = "absent"
    <3>1. ClaimedRow(round).halted = rows[head].halted
      <4>1. rows'[head] \in Row /\ rows'[head] = ClaimedRow(round)
        BY <1>0, <1>4 DEF TypeOK
      <4>2. ClaimedRow(round).halted \in BOOLEAN /\ rows[head].halted \in BOOLEAN
        BY <1>0, <4>1 DEF Row
      <4>3. QED
        BY <1>1, <1>2, <4>2
    <3>2. QED
      BY <1>2, <1>4, <1>6, <3>1
  <2>3. \A h \in Head : rows'[h].repairs <= rows[h].repairs
    BY <1>4, <2>2
  <2>4. QED
    BY <1>5, <2>1, <2>2, <2>3, BudgetStays
<1>7. CASE ClaimedRow(round).repairs # rows[head].repairs
  <2>1. forgot'
    <3>1. ClaimedRow(round).repairs < rows[head].repairs
      BY <1>3, <1>7
    <3>2. QED
      BY <3>1 DEF StartReview
  <2>2. \A h \in Head : /\ rows'[h].repairs <= rows[h].repairs
                        /\ rows[h].halted => rows'[h].halted
                        /\ rows'[h].status = "absent" => rows[h].status = "absent"
    BY <1>1, <1>2, <1>3, <1>4
  <2>3. QED
    BY <1>5, <2>1, <2>2, BudgetStays
<1>8. QED
  BY <1>6, <1>7

\* What a run's last word changes of a row counts no writer and takes no halt back.
LEMMA EndFits ==
  ASSUME TypeOK, TypeOK', Budgeted, job.cur \in Head, NEW row, EndRun(row),
         row.repairs = rows[job.cur].repairs, row.halted = rows[job.cur].halted,
         row.status # "absent"
  PROVE  Budgeted'
<1>1. rows \in [Head -> Row] /\ \A h \in Head : rows[h].repairs \in Nat
  BY DEF TypeOK, Row
<1>2. \A h \in Head : rows'[h] = IF h = job.cur THEN row ELSE rows[h]
  BY <1>1 DEF EndRun
<1>3. started' = started /\ forgot' = forgot /\ Unhalted'
  BY DEF EndRun, history, Unhalted
<1>4. \A h \in Head : /\ rows'[h].repairs <= rows[h].repairs
                      /\ rows'[h].repairs = rows[h].repairs
                      /\ rows'[h].halted = rows[h].halted
                      /\ rows'[h].status = "absent" => rows[h].status = "absent"
  BY <1>1, <1>2
<1>5. QED
  BY <1>3, <1>4, BudgetStays

\* Steps that leave the rows and the history alone.
LEMMA QuietStep ==
  ASSUME TypeOK, TypeOK', Budgeted, Unhalted', rows' = rows, UNCHANGED history
  PROVE  Budgeted'
<1>1. \A h \in Head : rows[h].repairs \in Nat
  BY DEF TypeOK, Row
<1>2. \A h \in Head : rows[h].repairs <= rows[h].repairs
  BY <1>1
<1>3. QED
  BY <1>2, BudgetStays DEF history

\* The steps of a provider pass.
LEMMA PassFits ==
  ASSUME TypeOK, TypeOK', Claims, Chain, Budgeted, ProviderPass
  PROVE  Budgeted'
<1>0. job \in Job
  BY DEF TypeOK
<1>1. ASSUME rows' = rows, UNCHANGED history, pc # "idle", pc # "halted",
             job'.cur = job.cur
      PROVE  Budgeted'
  <2>1. Unhalted'
    BY <1>1 DEF Budgeted, Unhalted, Halted
  <2>2. QED
    BY <1>1, <2>1, QuietStep
<1>2. ASSUME NEW cancelled \in BOOLEAN, RepairGate(cancelled)
      PROVE  Budgeted'
  <2>1. /\ job.cur = Latest /\ Latest \in Head
        /\ rows[Latest].status # "absent" /\ Latest \notin Halted
        /\ job'.cur = job.cur /\ pc = "gate" /\ forgot' = forgot
    BY <1>0, <1>2 DEF RepairGate, Chain, AtWork, Claims, Claimed, Budgeted, Unhalted, Job
  <2>2. CASE rows' = rows /\ started' = started
    BY <1>1, <2>1, <2>2 DEF history
  <2>3. CASE /\ rows' = [rows EXCEPT ![Latest].repairs = @ + 1]
             /\ started' \in {started, started + 1}
             /\ ~(RepairsUsed(Latest) >= MaxRepairs)
    <3>1. Cardinality(Used(Latest)) \in Nat /\ LatestIs
      BY <2>1, GateCounts, FS_CardinalityType DEF Chain
    <3>2. RepairsUsed(Latest) < MaxRepairs
      BY <2>3, <3>1 DEF RepairsUsed, Used, Counted, MaxRepairs
    <3>3. Unhalted'
      <4>1. \A h \in Head : rows'[h].halted = rows[h].halted
        BY <2>3 DEF TypeOK, Row
      <4>2. QED
        BY <2>1, <4>1 DEF Unhalted, Halted
    <3>4. QED
      BY <2>1, <2>3, <3>1, <3>2, <3>3, GateFits
  <2>4. QED
    BY <1>2, <2>1, <2>2, <2>3 DEF RepairGate
<1>3. CASE ResumeAudit \/ \E kind \in Audit \ {"none"} : NewAudit(kind)
  BY <1>0, <1>1, <1>3 DEF ResumeAudit, NewAudit, AuditorRuns, Audited, Job
<1>4. CASE DiscardAudit
  BY <1>1, <1>4 DEF DiscardAudit
<1>5. CASE \E last \in BOOLEAN, loose \in Loose : AuditFails(last, loose)
  BY <1>0, <1>1, <1>5 DEF AuditFails, AuditorRuns, Job
<1>6. CASE FixerPush
  BY <1>0, <1>1, <1>6 DEF FixerPush, Job
<1>7. CASE \E outcome \in {"disputed", "unreported", "fixed"},
              ok, last \in BOOLEAN, loose \in Loose :
             FixerEnd(outcome, ok, last, loose)
  BY <1>0, <1>1, <1>7 DEF FixerEnd, Job
<1>8. CASE \E pushes \in BOOLEAN : Verify(pushes)
  <2>1. rows' = rows /\ UNCHANGED history /\ pc = "verify" /\ job'.cur = job.cur
    BY <1>0, <1>8 DEF Verify, Job, NoJob
  <2>2. QED
    BY <1>1, <2>1
<1>9. CASE PassBreaks
  BY <1>0, <1>1, <1>9 DEF PassBreaks, NoJob
<1>10. QED
  BY <1>2, <1>3, <1>4, <1>5, <1>6, <1>7, <1>8, <1>9 DEF ProviderPass

\* The exits of _finalize.
LEMMA FinalizeFits ==
  ASSUME TypeOK, TypeOK', Claims, Chain, Budgeted, Finalize
  PROVE  Budgeted'
<1> DEFINE cur == rows[job.cur]
<1>0. /\ rows \in [Head -> Row] /\ \A h \in Head : rows[h].repairs \in Nat
      /\ pc # "idle" => job.cur \in Head /\ cur \in Row
  BY DEF TypeOK, Row, Claims, Claimed
<1>1. CASE SaveHalt
  <2>1. \A h \in Head :
          /\ rows'[h].repairs = rows[h].repairs /\ rows'[h].status = rows[h].status
          /\ rows[h].halted => rows'[h].halted
    BY <1>0, <1>1 DEF SaveHalt, Row
  <2>2. \A h \in Head : rows'[h].repairs <= rows[h].repairs
    BY <1>0, <2>1
  <2>3. started' = 0 /\ Unhalted'
    BY <1>1 DEF SaveHalt, Unhalted
  <2>4. QED
    BY <2>1, <2>2, <2>3, BudgetStays
<1>2. CASE FinalizeRaises
  <2>1. rows' = rows /\ UNCHANGED history /\ Unhalted'
    BY <1>2 DEF FinalizeRaises, Unhalted
  <2>2. QED
    BY <2>1, QuietStep
<1>3. ASSUME NEW row, EndRun(row), row.repairs = cur.repairs,
             row.halted = cur.halted, row.status # "absent"
      PROVE  Budgeted'
  <2>1. pc # "idle"
    BY <1>3 DEF EndRun
  <2>2. QED
    BY <1>0, <1>3, <2>1, EndFits
<1> HIDE DEF cur
<1>4. CASE FinalizeHalted
  BY <1>0, <1>3, <1>4 DEF FinalizeHalted, Row, cur
<1>5. CASE FinalizeWaiting
  <2>1. EndRun([cur EXCEPT !.status = "waiting"]) /\ cur \in Row
    BY <1>0, <1>5 DEF FinalizeWaiting, EndRun, cur
  <2>2. QED
    BY <1>3, <2>1 DEF Row
<1>6. CASE FinalizeSuperseded
  <2>1. EndRun([cur EXCEPT !.status = "failed"]) /\ cur \in Row
    BY <1>0, <1>6 DEF FinalizeSuperseded, EndRun, cur
  <2>2. QED
    BY <1>3, <2>1 DEF Row
<1>7. ASSUME NEW answered \in BOOLEAN, NEW labels \in BOOLEAN,
             FinalizeFailed(answered, labels)
      PROVE  Budgeted'
  <2> DEFINE failed == [cur EXCEPT !.status = "failed"]
             followed == [failed EXCEPT
                            !.fixPushed = TRUE, !.verdict = job.verdict,
                            !.exhausted = IF run.round > 0 THEN head ELSE 0]
  <2>1. EndRun(failed) \/ EndRun(followed)
    BY <1>7 DEF FinalizeFailed, cur
  <2>2. pc # "idle"
    BY <2>1 DEF EndRun
  <2>3. \A row \in {failed, followed} :
          /\ row.repairs = cur.repairs /\ row.halted = cur.halted
          /\ row.status = "failed"
    BY <1>0, <2>2 DEF Row
  <2> HIDE DEF failed, followed
  <2>4. QED
    BY <1>3, <2>1, <2>3
<1>8. CASE FinalizeReviewed
  <2>1. PICK pushed, ended :
          EndRun([cur EXCEPT !.status = "completed", !.fixPushed = pushed,
                             !.verdict = job.verdict,
                             !.exhausted = IF ended THEN head ELSE 0])
    BY <1>8 DEF FinalizeReviewed, cur
  <2>2. cur \in Row
    BY <1>0, <2>1 DEF EndRun
  <2>3. QED
    BY <1>3, <2>1, <2>2 DEF Row
<1>9. QED
  BY <1>1, <1>2, <1>4, <1>5, <1>6, <1>7, <1>8 DEF Finalize

\* Every step keeps the budget.
LEMMA BudgetInductive ==
  ASSUME TypeOK, TypeOK', Claims, Chain, Budgeted, [Next]_vars
  PROVE  Budgeted'
<1>0. rows \in [Head -> Row] /\ \A h \in Head : rows[h].repairs \in Nat
  BY DEF TypeOK, Row
<1>1. ASSUME rows' = rows, UNCHANGED history, pc' = pc, job' = job
      PROVE  Budgeted'
  <2>1. Unhalted'
    BY <1>1 DEF Budgeted, Unhalted, Halted
  <2>2. QED
    BY <1>1, <2>1, QuietStep
<1>2. CASE \E loose \in Loose : OpenWorktree(loose)
  <2>1. rows' = rows /\ UNCHANGED history /\ pc = "open" /\ job'.cur = job.cur
    BY <1>2 DEF OpenWorktree, TypeOK, Job
  <2>2. Unhalted'
    BY <2>1 DEF Budgeted, Unhalted, Halted
  <2>3. QED
    BY <2>1, <2>2, QuietStep
<1>3. CASE Restart
  <2>1. \A h \in Head :
          /\ rows'[h].repairs = rows[h].repairs /\ rows'[h].halted = rows[h].halted
          /\ rows'[h].status = "absent" <=> rows[h].status = "absent"
    BY <1>0, <1>3 DEF Restart, Running, Row
  <2>2. \A h \in Head : rows'[h].repairs <= rows[h].repairs
    BY <1>0, <2>1
  <2>3. started' = started /\ forgot' = forgot /\ Unhalted'
    BY <1>3 DEF Restart, history, Unhalted
  <2>4. QED
    BY <2>1, <2>2, <2>3, BudgetStays
<1>4. CASE Review
  BY <1>2, <1>4, ClaimFits, PassFits, FinalizeFits DEF Review
<1>5. QED
  BY <1>1, <1>3, <1>4 DEF Next, EnsureAutoMerge, UserPush, FeedbackFixPush, vars

LEMMA BudgetHolds == Spec => []Budgeted
<1>1. Init => Budgeted
  <2> SUFFICES ASSUME Init
               PROVE  Budgeted
    OBVIOUS
  <2>1. \A h \in Head : rows[h].repairs = 0
    BY DEF Init, NoRow
  <2>2. Kept = {}
    <3>1. \A h \in Head : 1..rows[h].repairs = {}
      BY <2>1
    <3>2. Window \subseteq Head
      BY DEF Window
    <3>3. QED
      BY <3>1, <3>2 DEF Kept, Writers
  <2>3. IsFiniteSet({}) /\ Cardinality({}) = 0 /\ 0 <= MaxRepairs
    BY FS_EmptySet DEF MaxRepairs
  <2>4. QED
    BY <2>1, <2>2, <2>3 DEF Init, Budgeted, Unhalted
<1>2. ASSUME IInv, IInv', Chain, Budgeted, [Next]_vars
      PROVE  Budgeted'
  BY <1>2, BudgetInductive DEF IInv
<1>3. QED
  BY <1>1, <1>2, Invariant, ChainHolds, PTL DEF Spec

\* Whatever is cut off, handed over, resumed or pushed in between, two writers at
\* most start from one halt to the next, as long as no claim has forgotten one.
THEOREM RepairsStayInBudget == Spec => []RepairBudget
<1>1. Budgeted => RepairBudget
  BY DEF Budgeted, RepairBudget
<1>2. QED
  BY <1>1, BudgetHolds, PTL

-----------------------------------------------------------------------------
(* What a halt stops.                                                      *)

\* While a halt stands, the latest review is of a halted or of a person's head, or
\* its head is not the branch's any more.
Lifted == Halted # {} /\ Latest = head /\ head \notin Halted => author = "human"

\* A plan for a head, while a halt stands, is for a person's newer head.
LEMMA PlanIsLifted ==
  ASSUME ~OwnLooksHuman, IInv, Halted # {}, ReviewPlan # {}
  PROVE  author = "human" /\ \A g \in Halted : g < head
<1>1. ~HaltForbids
  BY DEF IInv, Claims, ReviewPlan
<1>2. author = "human" /\ head \notin Halted
  BY <1>1 DEF HaltForbids, HumanHead
<1>3. \A g \in Halted : g <= head /\ g \in Nat /\ head \in Nat
  BY DEF IInv, Claims, Halted, TypeOK, Head
<1>4. QED
  BY <1>2, <1>3

\* No exit of _finalize claims a head, and none but the halt itself halts one.
LEMMA HaltsStay ==
  ASSUME TypeOK, Claims, Finalize, ~SaveHalt
  PROVE  Halted' = Halted /\ Claimed' = Claimed
<1> DEFINE cur == rows[job.cur]
<1>0. /\ rows \in [Head -> Row]
      /\ pc # "idle" => /\ job.cur \in Head /\ cur \in Row
                        /\ cur.status # "absent"
  BY DEF TypeOK, Claims, Claimed
<1>1. ASSUME NEW row, EndRun(row), row.halted = cur.halted, row.status # "absent"
      PROVE  Halted' = Halted /\ Claimed' = Claimed
  <2>1. \A h \in Head : rows'[h] = IF h = job.cur THEN row ELSE rows[h]
    BY <1>0, <1>1 DEF EndRun
  <2>2. pc # "idle"
    BY <1>1 DEF EndRun
  <2>3. QED
    BY <1>0, <1>1, <2>1, <2>2 DEF Halted, Claimed
<1> HIDE DEF cur
<1>2. CASE FinalizeHalted \/ FinalizeWaiting \/ FinalizeSuperseded
  <2>1. PICK status \in {"completed", "waiting", "failed"} :
          EndRun([cur EXCEPT !.status = status])
    BY <1>2 DEF FinalizeHalted, FinalizeWaiting, FinalizeSuperseded, cur
  <2>2. cur \in Row
    BY <1>0, <2>1 DEF EndRun
  <2>3. /\ [cur EXCEPT !.status = status].halted = cur.halted
        /\ [cur EXCEPT !.status = status].status # "absent"
    BY <2>2 DEF Row
  <2>4. QED
    BY <1>1, <2>1, <2>3
<1>3. ASSUME NEW answered \in BOOLEAN, NEW labels \in BOOLEAN,
             FinalizeFailed(answered, labels)
      PROVE  Halted' = Halted /\ Claimed' = Claimed
  <2> DEFINE failed == [cur EXCEPT !.status = "failed"]
             followed == [failed EXCEPT
                            !.fixPushed = TRUE, !.verdict = job.verdict,
                            !.exhausted = IF run.round > 0 THEN head ELSE 0]
  <2>1. EndRun(failed) \/ EndRun(followed)
    BY <1>3 DEF FinalizeFailed, cur
  <2>2. pc # "idle"
    BY <2>1 DEF EndRun
  <2>3. \A row \in {failed, followed} :
          row.halted = cur.halted /\ row.status = "failed"
    BY <1>0, <2>2 DEF Row
  <2> HIDE DEF failed, followed
  <2>4. QED
    BY <1>1, <2>1, <2>3
<1>4. CASE FinalizeReviewed
  <2>1. PICK pushed, ended :
          EndRun([cur EXCEPT !.status = "completed", !.fixPushed = pushed,
                             !.verdict = job.verdict,
                             !.exhausted = IF ended THEN head ELSE 0])
    BY <1>4 DEF FinalizeReviewed, cur
  <2>2. cur \in Row
    BY <1>0, <2>1 DEF EndRun
  <2>3. QED
    BY <1>1, <2>1, <2>2 DEF Row
<1>5. CASE FinalizeRaises
  BY <1>5 DEF FinalizeRaises, Halted, Claimed
<1>6. QED
  BY <1>2, <1>3, <1>4, <1>5 DEF Finalize

\* Pushes leave the latest review behind, and a claim is for a person's head.
LEMMA LiftedInductive ==
  ASSUME ~OwnLooksHuman, IInv, TypeOK', Chain, Chain', Lifted, [Next]_vars
  PROVE  Lifted'
<1>0. /\ head \in Head /\ head \in Nat /\ rows \in [Head -> Row] /\ job \in Job
      /\ pc # "idle" => job.cur = Latest /\ job.cur \in Head
      /\ Latest <= head /\ Latest \in Nat
  <2>1. head \in Head /\ head \in Nat /\ rows \in [Head -> Row] /\ job \in Job
    BY DEF IInv, TypeOK, Head
  <2>2. pc # "idle" => job.cur = Latest /\ job.cur \in Head
    BY DEF Chain, AtWork, IInv, Claims, Claimed
  <2>3. Latest \in Nat /\ (Claimed # {} => Latest \in Claimed)
    BY DEF Chain, LatestIs
  <2>4. Claimed = {} => Latest = 0
    BY NewestIs DEF Latest
  <2>5. Latest <= head
    BY <2>1, <2>3, <2>4 DEF IInv, Claims
  <2>6. QED
    BY <2>1, <2>2, <2>3, <2>5
<1>1. ASSUME \A h \in Head : rows'[h].status = "absent" <=> rows[h].status = "absent",
             Halted' = Halted,
             \/ head' = head /\ author' = author
             \/ head' = head + 1
      PROVE  Lifted'
  <2>1. Latest' = Latest
    BY <1>1, LatestStays DEF Chain
  <2>2. QED
    BY <1>0, <1>1, <2>1 DEF Lifted
<1>2. ASSUME rows' = rows, (head' = head /\ author' = author) \/ head' = head + 1
      PROVE  Lifted'
  <2>1. Halted' = Halted
    BY <1>2 DEF Halted
  <2>2. QED
    BY <1>1, <1>2, <2>1
<1>3. ASSUME NEW round \in 0..LastRound + 1, NEW fixPaused \in BOOLEAN,
             StartReview(round, fixPaused)
      PROVE  Lifted'
  <2>1. ReviewPlan # {} /\ author' = author
    BY <1>3 DEF StartReview
  <2>2. CASE Halted # {}
    BY <2>1, <2>2, PlanIsLifted DEF Lifted
  <2>3. CASE Halted = {}
    <3>1. ~ClaimedRow(round).halted
      BY <1>0, <2>3 DEF ClaimedRow, NoRow, Row, Halted
    <3>2. Halted' = {}
      BY <1>0, <1>3, <2>3, <3>1 DEF StartReview, Halted
    <3>3. QED
      BY <3>2 DEF Lifted
  <2>4. QED
    BY <2>2, <2>3
<1>4. ASSUME NEW cancelled \in BOOLEAN, RepairGate(cancelled)
      PROVE  Lifted'
  <2>1. /\ pc # "idle" /\ head' = head /\ author' = author
        /\ rows' = rows \/ rows' = [rows EXCEPT ![job.cur].repairs = @ + 1]
    BY <1>4 DEF RepairGate
  <2>2. \A h \in Head : /\ rows'[h].status = rows[h].status
                        /\ rows'[h].halted = rows[h].halted
    BY <1>0, <2>1 DEF Row
  <2>3. Halted' = Halted
    BY <2>2 DEF Halted
  <2>4. QED
    BY <1>1, <2>1, <2>2, <2>3
<1>5. CASE ProviderPass
  BY <1>2, <1>4, <1>5
     DEF ProviderPass, ResumeAudit, DiscardAudit, NewAudit, Audited, AuditFails,
         FixerPush, FixerEnd, Verify, PassBreaks
<1>6. CASE SaveHalt
  <2>1. /\ pc # "idle" /\ head' = head
        /\ \A h \in Head : rows'[h].status = rows[h].status
        /\ rows'[job.cur].halted
    BY <1>0, <1>6 DEF SaveHalt, Row
  <2>2. Latest' = Latest
    BY <2>1, LatestStays DEF Chain
  <2>3. QED
    BY <1>0, <2>1, <2>2 DEF Lifted, Halted
<1>7. CASE Finalize /\ ~SaveHalt
  <2>1. Halted' = Halted /\ Claimed' = Claimed
    BY <1>7, HaltsStay DEF IInv
  <2>2. head' = head /\ author' = author
    BY <1>7 DEF Finalize, FinalizeHalted, FinalizeWaiting, FinalizeSuperseded,
                FinalizeFailed, FinalizeReviewed, FinalizeRaises, EndRun
  <2>3. \A h \in Head : rows'[h].status = "absent" <=> rows[h].status = "absent"
    BY <2>1 DEF Claimed
  <2>4. QED
    BY <1>1, <2>1, <2>2, <2>3
<1>8. CASE Restart
  <2>1. /\ \A h \in Head : /\ rows'[h].status = "absent" <=> rows[h].status = "absent"
                           /\ rows'[h].halted = rows[h].halted
        /\ head' = head /\ author' = author
    BY <1>0, <1>8 DEF Restart, Running, Row
  <2>2. Halted' = Halted
    BY <2>1 DEF Halted
  <2>3. QED
    BY <1>1, <2>1, <2>2
<1>9. CASE \/ \E loose \in Loose : OpenWorktree(loose)
           \/ EnsureAutoMerge \/ UserPush \/ FeedbackFixPush \/ UNCHANGED vars
  BY <1>2, <1>9 DEF OpenWorktree, EnsureAutoMerge, UserPush, FeedbackFixPush, vars
<1>10. QED
  BY <1>3, <1>5, <1>6, <1>7, <1>8, <1>9 DEF Next, Review

\* When the agents' commits can be told from a person's, a halt holds: after it
\* no review, no writer and no request of auto-merge concerns a head but a newer one
\* that a person pushed, however many rounds, failures, restarts and pushes of the
\* daemon's own lie in between.
THEOREM HaltsHold ==
  ASSUME ~OwnLooksHuman
  PROVE  Spec => HaltHolds
<1> DEFINE starts == (pc = "idle" /\ pc' = "open") \/ (pc = "gate" /\ pc' = "fixer")
           merges == asked' # asked
           Held == Halted # {} /\ (starts \/ merges) =>
                     author = "human" /\ \A g \in Halted : g < head
<1>1. IInv /\ Chain /\ Budgeted /\ Lifted /\ [Next]_vars => [Held]_vars
  <2> SUFFICES ASSUME IInv, Chain, Budgeted, Lifted, [Next]_vars, Halted # {},
                      starts \/ merges
               PROVE  author = "human" /\ \A g \in Halted : g < head
    OBVIOUS
  <2>1. CASE pc = "idle" /\ pc' = "open"
    <3>1. PICK round \in 0..LastRound + 1, fixPaused \in BOOLEAN :
            StartReview(round, fixPaused)
      BY <2>1
         DEF Next, Review, OpenWorktree, ProviderPass, ResumeAudit, DiscardAudit, NewAudit,
             AuditorRuns, AuditFails, RepairGate, FixerPush, FixerEnd, Verify,
             PassBreaks, Finalize, SaveHalt, FinalizeHalted, FinalizeWaiting,
             FinalizeSuperseded, FinalizeFailed, FinalizeReviewed, FinalizeRaises,
             EndRun, Restart, EnsureAutoMerge, UserPush, FeedbackFixPush, vars
    <3>2. QED
      BY <3>1, PlanIsLifted DEF StartReview
  <2>2. ASSUME head \in Claimed, head \notin Halted
        PROVE  author = "human" /\ \A g \in Halted : g < head
    <3>1. head \in Nat /\ \A g \in Halted : g \in Nat /\ g <= head
      BY DEF IInv, TypeOK, Claims, Halted, Head
    <3>2. Latest = head
      BY <2>2, <3>1, NewestIs DEF Latest, IInv, Claims, Claimed, Head
    <3>3. QED
      BY <2>2, <3>1, <3>2 DEF Lifted
  <2>3. CASE pc = "gate" /\ pc' = "fixer"
    <3>1. PICK cancelled \in BOOLEAN : RepairGate(cancelled)
      BY <2>3
         DEF Next, Review, StartReview, OpenWorktree, ProviderPass, ResumeAudit,
             DiscardAudit, NewAudit, AuditorRuns, AuditFails, FixerPush, FixerEnd,
             Verify, PassBreaks, Finalize, SaveHalt, FinalizeHalted, FinalizeWaiting,
             FinalizeSuperseded, FinalizeFailed, FinalizeReviewed, FinalizeRaises,
             EndRun, Restart, EnsureAutoMerge, UserPush, FeedbackFixPush, vars
    <3>2. job.cur = head
      BY <2>3, <3>1 DEF RepairGate
    <3>3. head \in Claimed /\ head \notin Halted
      BY <2>3, <3>2 DEF IInv, Claims, Budgeted, Unhalted
    <3>4. QED
      BY <2>2, <3>3
  <2>4. CASE asked' # asked
    <3>1. EnsureAutoMerge
      BY <2>4
         DEF Next, Review, StartReview, OpenWorktree, ProviderPass, ResumeAudit,
             DiscardAudit, NewAudit, Audited, AuditFails, RepairGate, FixerPush,
             FixerEnd, Verify, PassBreaks, Finalize, SaveHalt, FinalizeHalted,
             FinalizeWaiting, FinalizeSuperseded, FinalizeFailed, FinalizeReviewed,
             FinalizeRaises, EndRun, Restart, UserPush, FeedbackFixPush, vars
    <3>2. HasCompletedReview(head)
      BY <3>1 DEF EnsureAutoMerge
    <3>3. rows[head].status = "completed" /\ head \notin Halted
      BY <3>2, ReviewIsOwn DEF IInv
    <3>4. head \in Claimed
      BY <3>3 DEF IInv, TypeOK, Claimed
    <3>5. QED
      BY <2>2, <3>3, <3>4
  <2>5. QED
    BY <2>1, <2>3, <2>4
<1>2. Init => Lifted
  BY DEF Init, Lifted, Halted, NoRow
<1>3. IInv /\ IInv' /\ Chain /\ Chain' /\ Lifted /\ [Next]_vars => Lifted'
  BY LiftedInductive DEF IInv
<1>4. QED
  BY <1>1, <1>2, <1>3, Invariant, ChainHolds, BudgetHolds, PTL DEF Spec, HaltHolds

=============================================================================
