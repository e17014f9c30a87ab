--------------------------- MODULE IssueFixer_proofs ---------------------------
(***************************************************************************)
(* Proofs about IssueFixer, for any number of issues, edits, reopenings    *)
(* and restarts.                                                           *)
(***************************************************************************)
EXTENDS IssueFixer, TLAPS

Row == [status : {"absent", "running", "stale", "failed", "completed"},
        attempt : 0..MaxFailures]
IssueRecord == [open : BOOLEAN, paused : BOOLEAN, text : 0..MaxEdits, cycle : 0..MaxCycle]

-----------------------------------------------------------------------------
(* Types.                                                                  *)

LEMMA Records ==
  /\ NoRow \in Row
  /\ \A x \in Row, s \in {"absent", "running", "stale", "failed", "completed"} :
       [x EXCEPT !.status = s] \in Row
  /\ \A x \in Row, b \in BOOLEAN :
       [x EXCEPT !.status = IF b THEN "completed" ELSE "failed"] \in Row
  /\ \A x \in Row : [status |-> "running", attempt |-> Least(x.attempt + 1, MaxFailures)] \in Row
<1> USE IssueFixerAssumption
<1>1. NoRow \in Row
  BY DEF NoRow, Row
<1>2. \A x \in Row, s \in {"absent", "running", "stale", "failed", "completed"} :
        [x EXCEPT !.status = s] \in Row
  BY DEF Row
<1>3. \A x \in Row, b \in BOOLEAN :
        [x EXCEPT !.status = IF b THEN "completed" ELSE "failed"] \in Row
  BY DEF Row
<1>4. \A x \in Row : Least(x.attempt + 1, MaxFailures) \in 0..MaxFailures
  BY DEF Row, Least
<1>5. \A x \in Row : [status |-> "running", attempt |-> Least(x.attempt + 1, MaxFailures)] \in Row
  BY <1>4 DEF Row
<1>6. QED
  BY <1>1, <1>2, <1>3, <1>5

LEMMA IssueRecords ==
  ASSUME NEW x \in IssueRecord, NEW b \in BOOLEAN
  PROVE  /\ [x EXCEPT !.paused = b] \in IssueRecord
         /\ [x EXCEPT !.open = b] \in IssueRecord
         /\ x.text < MaxEdits => [x EXCEPT !.text = @ + 1] \in IssueRecord
         /\ x.cycle < MaxCycle => [x EXCEPT !.open = TRUE, !.cycle = @ + 1] \in IssueRecord
<1> USE IssueFixerAssumption DEF IssueRecord
<1>1. [x EXCEPT !.paused = b] \in IssueRecord
  OBVIOUS
<1>2. [x EXCEPT !.open = b] \in IssueRecord
  OBVIOUS
<1>3. ASSUME x.text < MaxEdits PROVE [x EXCEPT !.text = @ + 1] \in IssueRecord
  BY <1>3
<1>4. ASSUME x.cycle < MaxCycle PROVE [x EXCEPT !.open = TRUE, !.cycle = @ + 1] \in IssueRecord
  <2>1. x.cycle + 1 \in 0..MaxCycle
    BY <1>4
  <2>2. \A n \in 0..MaxCycle : [x EXCEPT !.open = TRUE, !.cycle = n] \in IssueRecord
    OBVIOUS
  <2>3. QED
    BY <2>1, <2>2, Zenon
<1>5. QED
  BY <1>1, <1>2, <1>3, <1>4

\* TypeOK, with the names of the records.
LEMMA Types ==
  TypeOK <=>
    /\ issue \in [Issue -> IssueRecord] /\ prs \in SUBSET Branch /\ opened \in SUBSET Branch
    /\ run \in [Issue -> Run]
    /\ remote \in [Issue -> {"absent", "ahead", "behind"}]
    /\ sound \in [Issue -> BOOLEAN] /\ unpushed \in [Issue -> BOOLEAN]
    /\ left \in [Issue -> BOOLEAN] /\ row \in [Issue -> Row]
    /\ saved \in [Issue -> BOOLEAN] /\ planned \in [Issue -> 0..2]
    /\ quota \in SUBSET Provider /\ pc \in [Issue -> Place]
    /\ tree \in [Issue -> {"none", "attached", "detached"}]
    /\ head \in [Issue -> {"base", "unpushed", "pushed"}]
    /\ provider \in [Issue -> Provider \cup {NoProvider}] /\ last \in [Issue -> Result]
    /\ turns \in [Issue -> Nat] /\ fixed \in [Issue -> BOOLEAN]
    /\ crashes \in Nat /\ acts \in Nat
BY DEF TypeOK, Row, IssueRecord

LEMMA RunTyped ==
  ASSUME TypeOK, NEW i \in Issue
  PROVE  /\ Current(i) \in Run /\ Head(i) \in Branch
         /\ BranchOf(Current(i)) = <<i, issue[i].cycle>> /\ Head(i) = <<run[i][1], run[i][3]>>
         /\ Current(i)[1] = i /\ Current(i)[3] = issue[i].cycle
<1>1. Current(i) = <<i, issue[i].text, issue[i].cycle>>
  BY DEF Current
<1>2. issue[i].text \in 0..MaxEdits /\ issue[i].cycle \in 0..MaxCycle /\ run[i] \in Run
  BY DEF TypeOK
<1>3. Current(i) \in Run
  BY <1>1, <1>2 DEF Run
<1>4. Head(i) \in Branch
  BY <1>2 DEF Head, BranchOf, Branch, Run
<1>5. QED
  BY <1>1, <1>3, <1>4 DEF BranchOf, Head

LEMMA EndTyped ==
  ASSUME TypeOK, NEW i \in Issue, End(i)
  PROVE  /\ pc' \in [Issue -> Place] /\ tree' \in [Issue -> {"none", "attached", "detached"}]
         /\ head' \in [Issue -> {"base", "unpushed", "pushed"}]
         /\ provider' \in [Issue -> Provider \cup {NoProvider}]
         /\ last' \in [Issue -> Result] /\ turns' \in [Issue -> Nat]
         /\ fixed' \in [Issue -> BOOLEAN]
BY DEF TypeOK, End, Go, Place, Result

LEMMA AgentTyped ==
  ASSUME TypeOK, NEW i \in Issue, NEW result \in Result, NEW h \in {"base", "unpushed", "pushed"},
         AgentRuns(i, result, h), provider[i] \in Provider
  PROVE  /\ quota' \in SUBSET Provider /\ last' \in [Issue -> Result]
         /\ head' \in [Issue -> {"base", "unpushed", "pushed"}]
         /\ remote' \in [Issue -> {"absent", "ahead", "behind"}] /\ sound' \in [Issue -> BOOLEAN]
         /\ last'[i] = result
BY DEF AgentRuns, TypeOK

\* A provider is in use until the attempt is judged.
Provided == \A i \in Issue : pc[i] \in Agents \cup {"judge"} => provider[i] \in Provider

LEMMA TypedStep ==
  ASSUME TypeOK, Provided, [Next]_vars
  PROVE  TypeOK'
<1> USE IssueFixerAssumption
<1>1. ASSUME NEW i \in Issue, Collect(i)
      PROVE  TypeOK'
  <2>1. run' \in [Issue -> Run] /\ pc' \in [Issue -> Place]
    BY <1>1, RunTyped DEF Collect, TypeOK, Go, Place
  <2>2. row' \in [Issue -> Row] /\ saved' \in [Issue -> BOOLEAN] /\ planned' \in [Issue -> 0..2]
    <3>1. \/ UNCHANGED <<row, saved, planned>>
          \/ Fresh(row, i, NoRow) /\ Fresh(saved, i, FALSE) /\ Fresh(planned, i, 0)
      BY <1>1, Zenon DEF Collect
    <3>2. CASE UNCHANGED <<row, saved, planned>>
      BY <3>2, Types
    <3>3. CASE Fresh(row, i, NoRow) /\ Fresh(saved, i, FALSE) /\ Fresh(planned, i, 0)
      <4>1. row' \in [Issue -> Row]
        BY <3>3, Types, Records DEF Fresh
      <4>2. QED
        BY <3>3, <4>1 DEF Fresh, TypeOK
    <3>4. QED
      BY <3>1, <3>2, <3>3
  <2>3. /\ remote' \in [Issue -> {"absent", "ahead", "behind"}] /\ sound' \in [Issue -> BOOLEAN]
        /\ unpushed' \in [Issue -> BOOLEAN] /\ left' \in [Issue -> BOOLEAN]
    <3>1. \/ UNCHANGED branches
          \/ /\ Fresh(remote, i, "absent") /\ Fresh(sound, i, FALSE)
             /\ Fresh(unpushed, i, FALSE) /\ Fresh(left, i, FALSE)
      BY <1>1, Zenon DEF Collect
    <3>2. QED
      BY <3>1 DEF Fresh, TypeOK, branches
  <2>4. QED
    BY <1>1, <2>1, <2>2, <2>3 DEF TypeOK, Row, IssueRecord, Collect, github, bounds
<1>2. ASSUME NEW i \in Issue, Claim(i)
      PROVE  TypeOK'
  <2>1. CASE End(i) /\ UNCHANGED row
    BY <1>2, <2>1, EndTyped DEF TypeOK, Row, IssueRecord, Claim, github, branches, bounds
  <2>2. CASE Claimed(i)
    <3>1. row' \in [Issue -> Row]
      <4> DEFINE x == [status |-> "running", attempt |-> Least(row[i].attempt + 1, MaxFailures)]
      <4>1. x \in Row
        BY Types, Records
      <4>2. row' = [row EXCEPT ![i] = x]
        BY <2>2 DEF Claimed
      <4> HIDE DEF x
      <4>3. QED
        BY <4>1, <4>2, Types
    <3>2. QED
      BY <1>2, <2>2, <3>1 DEF TypeOK, Row, IssueRecord, Claim, Claimed, Go, Place, github, branches, bounds
  <2>3. QED
    BY <1>2, <2>1, <2>2, Zenon DEF Claim
<1>3. ASSUME NEW i \in Issue, Enter(i)
      PROVE  TypeOK'
  <2>1. \E kind \in {"attached", "detached"} : \E h \in {"base", "unpushed", "pushed"} :
          Opens(i, kind, h)
    <3>1. \/ \E h \in {"base", "unpushed", "pushed"} : Opens(i, "attached", h)
          \/ Opens(i, "detached", IF remote[i] = "ahead" THEN "pushed" ELSE "unpushed")
          \/ Opens(i, "attached", IF unpushed[i] THEN "unpushed" ELSE "base")
      BY <1>3, Zenon DEF Enter
    <3>2. QED
      BY <3>1
  <2>2. /\ tree' \in [Issue -> {"none", "attached", "detached"}]
        /\ head' \in [Issue -> {"base", "unpushed", "pushed"}]
        /\ fixed' \in [Issue -> BOOLEAN] /\ pc' \in [Issue -> Place]
    BY <2>1 DEF Opens, TypeOK, Go, Place, FirstStep
  <2>3. left' \in [Issue -> BOOLEAN] /\ provider' \in [Issue -> Provider \cup {NoProvider}]
    BY <1>3 DEF Enter, TypeOK, Provider
  <2>4. QED
    BY <1>3, <2>2, <2>3 DEF Enter, TypeOK, github, disk, bounds
<1>4. ASSUME NEW i \in Issue, EnterFails(i)
      PROVE  TypeOK'
  BY <1>4 DEF EnterFails, TypeOK, Go, Place, github, disk, bounds
<1>5. ASSUME NEW i \in Issue, Agent(i), pc[i] \in Agents
      PROVE  /\ quota' \in SUBSET Provider /\ last' \in [Issue -> Result]
             /\ head' \in [Issue -> {"base", "unpushed", "pushed"}]
             /\ remote' \in [Issue -> {"absent", "ahead", "behind"}] /\ sound' \in [Issue -> BOOLEAN]
  <2>1. PICK result \in Result, h \in {"base", "unpushed", "pushed"} : AgentRuns(i, result, h)
    <3>1. head[i] \in {"base", "unpushed", "pushed"}
      BY DEF TypeOK
    <3>2. PICK result \in Result, h \in {head[i], "unpushed", "pushed"} : AgentRuns(i, result, h)
      BY <1>5, Zenon DEF Agent
    <3>3. QED
      BY <3>1, <3>2
  <2>2. QED
    BY <1>5, <2>1, AgentTyped DEF Provided
<1>6. ASSUME NEW i \in Issue, Assess(i) \/ Build(i) \/ Resume(i) \/ HandOff(i)
      PROVE  TypeOK'
  <2>1. Agent(i) /\ pc[i] \in Agents
    BY <1>6 DEF Assess, Build, Resume, HandOff, Agents
  <2>2. pc' \in [Issue -> Place] /\ turns' \in [Issue -> Nat]
    <3>1. \E place \in Place : Go(i, place)
      BY <1>6 DEF Assess, Build, Resume, HandOff, Place
    <3>2. turns' = turns \/ turns' = [turns EXCEPT ![i] = @ + 1]
      BY <1>6 DEF Assess, Build, Resume, HandOff
    <3>3. pc' \in [Issue -> Place]
      BY <3>1 DEF Go, TypeOK
    <3>4. turns' \in [Issue -> Nat]
      <4>1. turns \in [Issue -> Nat] /\ turns[i] + 1 \in Nat
        BY DEF TypeOK
      <4>2. [turns EXCEPT ![i] = @ + 1] \in [Issue -> Nat]
        BY <4>1
      <4>3. QED
        BY <3>2, <4>1, <4>2, Zenon
    <3>5. QED
      BY <3>3, <3>4
  <2>3. UNCHANGED <<github, unpushed, left, run, row, tree, provider, bounds, saved, planned, fixed>>
    BY <1>6 DEF Assess, Build, Resume, HandOff, Elsewhere
  <2>4. QED
    BY <1>5, <2>1, <2>2, <2>3 DEF TypeOK, github, bounds
<1>7. ASSUME NEW i \in Issue, Plan(i)
      PROVE  TypeOK'
  <2>1. PICK result \in Result :
          /\ AgentRuns(i, result, head[i])
          /\ \/ /\ saved' = [saved EXCEPT ![i] = TRUE]
                /\ planned' = [planned EXCEPT ![i] = Least(@ + 1, 2)]
                /\ Go(i, "build")
             \/ Go(i, "judge") /\ UNCHANGED <<saved, planned>>
    BY <1>7, Zenon DEF Plan
  <2>2. provider[i] \in Provider /\ head[i] \in {"base", "unpushed", "pushed"}
    BY <1>7 DEF Plan, Provided, Agents, TypeOK
  <2>3. Least(planned[i] + 1, 2) \in 0..2
    <3>1. planned[i] \in 0..2
      BY DEF TypeOK
    <3>2. QED
      BY <3>1 DEF Least
  <2>4. /\ saved' \in [Issue -> BOOLEAN] /\ planned' \in [Issue -> 0..2] /\ pc' \in [Issue -> Place]
    <3>1. \/ UNCHANGED <<saved, planned>>
          \/ saved' = [saved EXCEPT ![i] = TRUE] /\ planned' = [planned EXCEPT ![i] = Least(@ + 1, 2)]
      BY <2>1
    <3>2. Go(i, "build") \/ Go(i, "judge")
      BY <2>1
    <3>3. pc' \in [Issue -> Place]
      BY <3>2 DEF TypeOK, Go, Place
    <3>4. [planned EXCEPT ![i] = Least(@ + 1, 2)] \in [Issue -> 0..2]
      BY <2>3 DEF TypeOK
    <3>5. QED
      BY <3>1, <3>3, <3>4 DEF TypeOK
  <2>5. QED
    BY <1>7, <2>1, <2>2, <2>4, AgentTyped DEF Plan, Elsewhere, TypeOK, github, bounds
<1>8. ASSUME NEW i \in Issue, StopHere(i) \/ Accept(i) \/ Reject(i) \/ ReviewEnds(i)
                              \/ CleanupFails(i)
      PROVE  TypeOK'
  <2>1. CASE StopHere(i)
    BY <2>1 DEF StopHere, NoAgent, Elsewhere, TypeOK, Go, Place, github, bounds
  <2>2. CASE Accept(i)
    BY <2>2 DEF Accept, TypeOK, Go, Place, github, disk, bounds
  <2>3. CASE Reject(i)
    BY <2>3 DEF Reject, GiveBack, TypeOK, Go, Place, Result, github, branches, disk, bounds
  <2>4. CASE ReviewEnds(i)
    BY <2>4 DEF ReviewEnds, GiveBack, TypeOK, Go, Place, Result, github, disk, bounds
  <2>5. CASE CleanupFails(i)
    BY <2>5 DEF CleanupFails, GiveBack, TypeOK, Go, Place, Result, github, branches, disk, bounds
  <2>6. QED
    BY <1>8, <2>1, <2>2, <2>3, <2>4, <2>5
<1>9. ASSUME NEW i \in Issue, FallBack(i)
      PROVE  TypeOK'
  <2>1. pc' \in [Issue -> Place] /\ provider' \in [Issue -> Provider \cup {NoProvider}]
    BY <1>9 DEF FallBack, FirstStep, TypeOK, Go, Place, Provider
  <2>2. remote' \in [Issue -> {"absent", "ahead", "behind"}] /\ sound' \in [Issue -> BOOLEAN]
    BY <1>9 DEF FallBack, TypeOK
  <2>3. unpushed' \in [Issue -> BOOLEAN]
    BY <1>9 DEF FallBack, TypeOK
  <2>4. last' \in [Issue -> Result] /\ turns' \in [Issue -> Nat]
        /\ head' \in [Issue -> {"base", "unpushed", "pushed"}]
    BY <1>9 DEF FallBack, TypeOK, Result
  <2>5. QED
    BY <1>9, <2>1, <2>2, <2>3, <2>4 DEF FallBack, TypeOK, github, disk, bounds
<1>10. ASSUME NEW i \in Issue, Revise(i)
       PROVE  TypeOK'
  <2>1. /\ Agent(i) /\ pc[i] \in Agents
        /\ \E verified \in BOOLEAN :
             /\ fixed' = [fixed EXCEPT ![i] = verified]
             /\ Go(i, IF verified THEN "review" ELSE "leave")
        /\ turns' = [turns EXCEPT ![i] = @ + 1]
        /\ Elsewhere(i) /\ UNCHANGED <<saved, planned>>
    BY <1>10 DEF Revise, Agents
  <2>2. pc' \in [Issue -> Place] /\ turns' \in [Issue -> Nat] /\ fixed' \in [Issue -> BOOLEAN]
    BY <2>1 DEF TypeOK, Go, Place
  <2>3. QED
    BY <1>5, <2>1, <2>2 DEF Elsewhere, TypeOK, github, bounds
<1>11. ASSUME NEW i \in Issue, Leave(i)
       PROVE  TypeOK'
  <2>1. unpushed' \in [Issue -> BOOLEAN] /\ left' \in [Issue -> BOOLEAN]
    BY <1>11 DEF Leave, Commits, TypeOK
  <2>2. pc' \in [Issue -> Place] /\ fixed' \in [Issue -> BOOLEAN]
    BY <1>11 DEF Leave, TypeOK, Go, Place
  <2>3. QED
    BY <1>11, <2>1, <2>2 DEF Leave, TypeOK, github, disk, bounds
<1>12. ASSUME NEW i \in Issue, Escape(i)
       PROVE  TypeOK'
  <2>1. unpushed' \in [Issue -> BOOLEAN]
    BY <1>12 DEF Escape, Commits, TypeOK
  <2>2. QED
    BY <1>12, <2>1, EndTyped DEF Escape, TypeOK, github, disk, bounds
<1>13. ASSUME NEW i \in Issue, Create(i)
       PROVE  TypeOK'
  <2>1. /\ \/ prs' = prs \cup {Head(i)} /\ opened' = opened \cup {Head(i)}
           \/ UNCHANGED <<prs, opened>>
        /\ fixed' \in {fixed, [fixed EXCEPT ![i] = FALSE]}
    BY <1>13 DEF Create
  <2>2. prs' \in SUBSET Branch /\ opened' \in SUBSET Branch /\ fixed' \in [Issue -> BOOLEAN]
    BY <2>1, RunTyped DEF TypeOK
  <2>3. pc' \in [Issue -> Place]
    BY <1>13 DEF Create, TypeOK, Go, Place
  <2>4. UNCHANGED <<issue, branches, disk, quota, tree, head, provider, last, turns, bounds>>
    BY <1>13 DEF Create
  <2>5. QED
    BY <2>2, <2>3, <2>4 DEF TypeOK, branches, disk, bounds
<1>14. ASSUME NEW i \in Issue, Finish(i)
       PROVE  TypeOK'
  <2> DEFINE x == [row[i] EXCEPT !.status = IF fixed[i] THEN "completed" ELSE "failed"]
  <2>1. x \in Row
    <3>1. row[i] \in Row /\ fixed[i] \in BOOLEAN
      BY Types
    <3>2. QED
      BY <3>1, Records
  <2>2. row' = [row EXCEPT ![i] = x]
    BY <1>14 DEF Finish
  <2> HIDE DEF x
  <2>3. row' \in [Issue -> Row]
    BY <2>1, <2>2, Types
  <2>4. QED
    BY <1>14, <2>3 DEF TypeOK, Row, IssueRecord, Finish, Go, Place, github, branches, bounds
<1>15. ASSUME NEW i \in Issue, NEW x \in IssueRecord, issue' = [issue EXCEPT ![i] = x]
       PROVE  issue' \in [Issue -> IssueRecord]
  BY <1>15, Types
<1>16. ASSUME NEW i \in Issue, Pause(i) \/ NoPause(i)
       PROVE  TypeOK'
  <2>1. [issue[i] EXCEPT !.paused = TRUE] \in IssueRecord
    BY Types, IssueRecords
  <2>2. issue' \in [Issue -> IssueRecord]
    BY <1>15, <1>16, <2>1, Types DEF Pause, NoPause, github
  <2>3. QED
    BY <1>16, <2>2, EndTyped DEF TypeOK, Row, IssueRecord, Pause, NoPause, github, branches, disk, bounds
<1>17. ASSUME NEW i \in Issue, Edit(i) \/ Close(i) \/ Reopen(i) \/ Unpause(i)
       PROVE  TypeOK'
  <2>1. issue[i] \in IssueRecord
    BY Types
  <2>2. issue' \in [Issue -> IssueRecord]
    <3>1. CASE Edit(i)
      BY <1>15, <2>1, <3>1, IssueRecords DEF Edit
    <3>2. CASE Close(i)
      BY <1>15, <2>1, <3>2, IssueRecords DEF Close
    <3>3. CASE Reopen(i)
      <4>1. issue[i].cycle < MaxCycle
            /\ issue' = [issue EXCEPT ![i] =
                           [@ EXCEPT !.open = TRUE, !.cycle = issue[i].cycle + 1]]
        BY <3>3 DEF Reopen
      <4>2. [issue[i] EXCEPT !.open = TRUE, !.cycle = @ + 1] \in IssueRecord
        BY <2>1, <4>1, IssueRecords
      <4> DEFINE x == [issue[i] EXCEPT !.open = TRUE, !.cycle = @ + 1]
      <4>3. x \in IssueRecord /\ issue' = [issue EXCEPT ![i] = x]
        BY <4>1, <4>2
      <4> HIDE DEF x
      <4>4. QED
        BY <1>15, <4>3
    <3>4. CASE Unpause(i)
      BY <1>15, <2>1, <3>4, IssueRecords DEF Unpause
    <3>5. QED
      BY <1>17, <3>1, <3>2, <3>3, <3>4
  <2>3. /\ UNCHANGED <<prs, opened, branches, disk, quota, thread, crashes>> /\ acts' \in Nat
    BY <1>17 DEF Edit, Close, Reopen, Unpause, Acts, bounds, TypeOK
  <2>4. QED
    BY <2>2, <2>3 DEF TypeOK, Row, IssueRecord, branches, disk, thread
<1>18. ASSUME NEW b \in Branch, EndPr(b)
       PROVE  TypeOK'
  <2>1. b[1] \in Issue
    BY DEF Branch
  <2>2. issue[b[1]] \in IssueRecord
    BY <2>1, Types
  <2>3. issue' \in [Issue -> IssueRecord]
    <3>1. [issue[b[1]] EXCEPT !.open = FALSE] \in IssueRecord
      BY <2>2, IssueRecords
    <3>2. issue' = issue \/ issue' = [issue EXCEPT ![b[1]] = [issue[b[1]] EXCEPT !.open = FALSE]]
      BY <1>18 DEF EndPr
    <3>3. QED
      BY <1>15, <2>1, <3>1, <3>2, Types
  <2>4. /\ UNCHANGED <<opened, branches, disk, quota, thread, crashes>> /\ acts' \in Nat
        /\ prs' \in SUBSET Branch
    BY <1>18 DEF EndPr, Acts, TypeOK
  <2>5. QED
    BY <2>3, <2>4 DEF TypeOK, Row, IssueRecord, branches, disk, thread
<1>19. ASSUME MoveBase \/ \E p \in Provider : LiftQuota(p)
       PROVE  TypeOK'
  BY <1>19 DEF MoveBase, LiftQuota, Acts, TypeOK, github, branches, disk, thread, bounds
<1>20. ASSUME NEW i \in Issue, GrowStale(i)
       PROVE  TypeOK'
  <2>1. [row[i] EXCEPT !.status = "stale"] \in Row
    BY Types, Records
  <2>2. row' \in [Issue -> Row]
    BY <1>20, <2>1, Types DEF GrowStale
  <2>3. QED
    BY <1>20, <2>2 DEF TypeOK, Row, IssueRecord, GrowStale, github, branches, thread, bounds
<1>21. CASE Restart
  <2>1. row' \in [Issue -> Row]
    BY <1>21, Types, Records DEF Restart
  <2>2. QED
    BY <1>21, <2>1 DEF TypeOK, Row, IssueRecord, Restart, Place, Result, github
<1>22. CASE UNCHANGED vars
  BY <1>22 DEF TypeOK, vars, github, branches, disk, thread, bounds
<1>23. ASSUME NEW i \in Issue, Handle(i)
       PROVE  TypeOK'
  BY <1>1, <1>2, <1>3, <1>4, <1>6, <1>7, <1>8, <1>9, <1>10, <1>11, <1>12, <1>13, <1>14,
     <1>16, <1>23, Zenon DEF Handle
<1>24. QED
  BY <1>17, <1>18, <1>19, <1>20, <1>21, <1>22, <1>23, Zenon DEF Next
-----------------------------------------------------------------------------
(* What an attempt relies on.                                              *)

\* The pull requests of an issue belong to this reopening or an earlier one.
OwnPrs(i) ==
  /\ \A b \in prs : b[1] = i => b[2] <= run[i][3]
  /\ \A b, c \in prs : b[1] = i /\ c[1] = i => b = c
  /\ Head(i) \in prs => remote[i] # "absent"

Attempt(i) ==
  /\ pc[i] \in Agents \cup {"judge"} => provider[i] \in Provider
  /\ run[i][1] = i /\ run[i][3] <= issue[i].cycle
  /\ planned[i] = 0 \/ (saved[i] /\ planned[i] = 1)
  /\ pc[i] \in {"assess", "plan"} => ~saved[i]
  /\ fixed[i] => pc[i] \in {"review", "leave", "create", "finish", "pause"}
  /\ fixed[i] /\ pc[i] \in {"finish", "pause"} => Head(i) \in opened
  /\ row[i].status = "completed" => Head(i) \in opened
  /\ pc[i] \notin {"idle", "claim", "finish", "pause"} => ~HasPr(i)

\* Nothing happens to the issue.
Kept(i) ==
  /\ issue'[i].cycle = issue[i].cycle /\ run'[i] = run[i] /\ remote'[i] = remote[i]
  /\ row'[i] = row[i] /\ saved'[i] = saved[i] /\ planned'[i] = planned[i]
  /\ pc'[i] = pc[i] /\ provider'[i] = provider[i] /\ fixed'[i] = fixed[i]

SamePrs(i) == (\A b : b[1] = i => (b \in prs' <=> b \in prs)) /\ opened \subseteq opened'

LEMMA AttemptKept ==
  ASSUME TypeOK, NEW i \in Issue, Attempt(i), OwnPrs(i), Kept(i), SamePrs(i)
  PROVE  Attempt(i)' /\ OwnPrs(i)'
<1>1. Head(i)' = Head(i) /\ Head(i)[1] = i
  BY RunTyped DEF Kept, Attempt, Head
<1>2. HasPr(i)' <=> HasPr(i)
  BY DEF SamePrs, HasPr
<1>3. Attempt(i)'
  BY <1>1, <1>2 DEF Attempt, Kept, SamePrs
<1>4. OwnPrs(i)'
  BY <1>1 DEF OwnPrs, Kept, SamePrs
<1>5. QED
  BY <1>3, <1>4

LEMMA AgentKept ==
  ASSUME TypeOK, NEW i \in Issue, Agent(i), NEW j \in Issue \ {i}
  PROVE  remote'[j] = remote[j]
BY DEF Agent, AgentRuns, TypeOK

\* An attempt leaves the other issues alone.
LEMMA OthersKept ==
  ASSUME TypeOK, NEW i \in Issue, Attempt(i), Handle(i), NEW j \in Issue \ {i}
  PROVE  Kept(j) /\ SamePrs(j)
<1>1. CASE Collect(i)
  <2>1. remote' = remote \/ Fresh(remote, i, "absent")
    BY <1>1, Zenon DEF Collect, branches
  <2>2. /\ row' = row \/ Fresh(row, i, NoRow)
        /\ saved' = saved \/ Fresh(saved, i, FALSE)
        /\ planned' = planned \/ Fresh(planned, i, 0)
    BY <1>1, Zenon DEF Collect
  <2>3. QED
    BY <1>1, <2>1, <2>2 DEF Collect, Fresh, TypeOK, Go, github, Kept, SamePrs
<1>2. CASE Claim(i)
  <2>1. CASE End(i) /\ UNCHANGED row
    BY <1>2, <2>1 DEF Claim, End, Go, TypeOK, github, branches, Kept, SamePrs
  <2>2. CASE Claimed(i)
    BY <1>2, <2>2 DEF Claim, Claimed, Go, TypeOK, github, branches, Kept, SamePrs
  <2>3. QED
    BY <1>2, <2>1, <2>2, Zenon DEF Claim
<1>3. CASE Enter(i)
  <2>1. \E kind, h : Opens(i, kind, h)
    BY <1>3, Zenon DEF Enter
  <2>2. QED
    BY <1>3, <2>1 DEF Enter, Opens, Go, TypeOK, github, disk, Kept, SamePrs
<1>4. CASE EnterFails(i)
  BY <1>4 DEF EnterFails, Go, TypeOK, github, disk, Kept, SamePrs
<1>5. CASE Assess(i) \/ Build(i) \/ Resume(i) \/ HandOff(i) \/ Revise(i)
  <2>1. /\ Agent(i) /\ Elsewhere(i) /\ UNCHANGED <<saved, planned>>
        /\ \E place : Go(i, place)
        /\ fixed' = fixed \/ \E b : fixed' = [fixed EXCEPT ![i] = b]
    <3>1. CASE Revise(i)
      BY <3>1 DEF Revise
    <3>2. CASE ~Revise(i)
      BY <1>5, <3>2, Zenon DEF Assess, Build, Resume, HandOff
    <3>3. QED
      BY <3>1, <3>2
  <2>2. QED
    BY <2>1, AgentKept DEF Elsewhere, Go, TypeOK, github, Kept, SamePrs
<1>6. CASE Plan(i)
  <2>1. PICK result : AgentRuns(i, result, head[i])
    BY <1>6, Zenon DEF Plan
  <2>2. /\ saved' = saved \/ saved' = [saved EXCEPT ![i] = TRUE]
        /\ planned' = planned \/ \E n : planned' = [planned EXCEPT ![i] = n]
        /\ \E place : Go(i, place)
        /\ Elsewhere(i) /\ UNCHANGED fixed
    BY <1>6, Zenon DEF Plan
  <2>3. remote'[j] = remote[j]
    BY <2>1 DEF AgentRuns, TypeOK
  <2>4. QED
    BY <2>2, <2>3 DEF Elsewhere, Go, TypeOK, github, Kept, SamePrs
<1>7. CASE StopHere(i)
  BY <1>7 DEF StopHere, NoAgent, Elsewhere, Go, TypeOK, github, Kept, SamePrs
<1>8. CASE FallBack(i)
  BY <1>8 DEF FallBack, Go, TypeOK, github, disk, Kept, SamePrs
<1>9. CASE Accept(i)
  BY <1>9 DEF Accept, Go, TypeOK, github, disk, Kept, SamePrs
<1>10. CASE Reject(i) \/ ReviewEnds(i) \/ CleanupFails(i)
  <2>1. /\ GiveBack(i) /\ UNCHANGED <<github, remote, disk>>
        /\ fixed' = fixed \/ fixed' = [fixed EXCEPT ![i] = FALSE]
    BY <1>10, Zenon DEF Reject, ReviewEnds, CleanupFails, branches
  <2>2. QED
    BY <2>1 DEF GiveBack, Go, TypeOK, github, disk, Kept, SamePrs
<1>11. CASE Leave(i)
  BY <1>11 DEF Leave, Go, TypeOK, github, disk, Kept, SamePrs
<1>12. CASE Escape(i)
  BY <1>12 DEF Escape, End, Go, TypeOK, github, disk, Kept, SamePrs
<1>13. CASE Create(i)
  <2>1. Head(i)[1] = i
    BY RunTyped DEF Attempt
  <2>2. /\ fixed' = fixed \/ fixed' = [fixed EXCEPT ![i] = FALSE]
        /\ \/ prs' = prs /\ opened' = opened
           \/ prs' = prs \cup {Head(i)} /\ opened' = opened \cup {Head(i)}
    BY <1>13 DEF Create
  <2>3. SamePrs(j)
    BY <2>1, <2>2 DEF SamePrs
  <2>4. QED
    BY <1>13, <2>2, <2>3 DEF Create, Go, TypeOK, branches, disk, Kept
<1>14. CASE Finish(i)
  BY <1>14 DEF Finish, Go, TypeOK, github, branches, Kept, SamePrs
<1>15. CASE Pause(i) \/ NoPause(i)
  <2>1. /\ End(i) /\ UNCHANGED <<prs, opened, branches, disk>>
        /\ issue' = issue \/ issue' = [issue EXCEPT ![i].paused = TRUE]
    BY <1>15, Zenon DEF Pause, NoPause, github
  <2>2. QED
    BY <2>1 DEF End, Go, TypeOK, branches, disk, Kept, SamePrs
<1>16. QED
  BY <1>1, <1>2, <1>3, <1>4, <1>5, <1>6, <1>7, <1>8, <1>9, <1>10, <1>11, <1>12, <1>13,
     <1>14, <1>15, Zenon DEF Handle

\* A step of the attempt that neither collects the issue nor opens a pull request.
LEMMA AttemptMoves ==
  ASSUME TypeOK, NEW i \in Issue, Attempt(i), OwnPrs(i),
         run'[i] = run[i], issue'[i].cycle = issue[i].cycle, UNCHANGED <<prs, opened>>,
         row'[i].status = "completed" => Head(i) \in opened,
         planned'[i] = 0 \/ (saved'[i] /\ planned'[i] = 1),
         pc'[i] \in {"assess", "plan"} => ~saved'[i],
         remote'[i] = "absent" => remote[i] = "absent" \/ ~HasPr(i),
         pc'[i] \in Agents \cup {"judge"} => provider'[i] \in Provider,
         fixed'[i] => pc'[i] \in {"review", "leave", "create", "finish", "pause"},
         fixed'[i] /\ pc'[i] \in {"finish", "pause"} => Head(i) \in opened,
         pc'[i] \notin {"idle", "claim", "finish", "pause"} => ~HasPr(i)
  PROVE  Attempt(i)' /\ OwnPrs(i)'
<1>1. Head(i)' = Head(i) /\ Head(i)[1] = i
  BY RunTyped DEF Attempt, Head
<1>2. HasPr(i)' <=> HasPr(i)
  BY DEF HasPr
<1>3. Attempt(i)'
  BY <1>1, <1>2 DEF Attempt
<1>4. Head(i) \in prs => HasPr(i)
  BY <1>1 DEF HasPr
<1>5. OwnPrs(i)'
  BY <1>1, <1>4 DEF OwnPrs
<1>6. QED
  BY <1>3, <1>5

LEMMA AttemptStep ==
  ASSUME TypeOK, NEW i \in Issue, Attempt(i), OwnPrs(i), Handle(i)
  PROVE  Attempt(i)' /\ OwnPrs(i)'
<1> USE IssueFixerAssumption
<1> DEFINE Goal == Attempt(i)' /\ OwnPrs(i)'
<1>1. CASE Collect(i)
  <2>1. /\ pc[i] = "idle" /\ pc'[i] = "claim" /\ ~fixed'[i] /\ UNCHANGED <<issue, prs, opened>>
        /\ run'[i] = Current(i)
    BY <1>1 DEF Collect, Go, TypeOK, Attempt, github
  <2>2. /\ Head(i)' = BranchOf(Current(i)) /\ BranchOf(Current(i)) = <<i, issue[i].cycle>>
        /\ Head(i) = <<i, run[i][3]>> /\ run'[i][1] = i /\ run'[i][3] = issue[i].cycle
    BY <2>1, RunTyped DEF Head, Attempt
  <2>3. run[i][3] \in 0..MaxCycle /\ issue[i].cycle \in 0..MaxCycle
    BY DEF TypeOK, Run
  <2>4. HasPr(i)' <=> HasPr(i)
    BY <2>1 DEF HasPr
  <2>5. \/ run'[i] = run[i] /\ row' = row /\ saved' = saved /\ planned' = planned
        \/ row'[i] = NoRow /\ planned'[i] = 0
    <3>1. CASE Current(i) = run[i] /\ UNCHANGED <<row, saved, planned>>
      BY <2>1, <3>1
    <3>2. CASE Fresh(row, i, NoRow) /\ Fresh(planned, i, 0)
      BY <3>2 DEF Fresh, TypeOK
    <3>3. QED
      BY <1>1, <3>1, <3>2, Zenon DEF Collect
  <2>6. NoRow.status # "completed"
    BY DEF NoRow
  <2>7. run'[i] = run[i] => Head(i)' = Head(i)
    BY DEF Head
  <2>8. Attempt(i)'
    <3>1. planned'[i] = 0 \/ (saved'[i] /\ planned'[i] = 1)
      BY <2>5 DEF Attempt
    <3>2. row'[i].status = "completed" => Head(i)' \in opened'
      BY <2>1, <2>5, <2>6, <2>7 DEF Attempt
    <3>3. QED
      BY <2>1, <2>2, <2>3, <2>4, <3>1, <3>2 DEF Attempt, Agents
  <2>9. \A b \in prs : b[1] = i => b[2] <= run'[i][3]
    <3> SUFFICES ASSUME NEW b \in prs, b[1] = i
                 PROVE  b[2] <= run'[i][3]
      OBVIOUS
    <3>1. b[2] <= run[i][3] /\ run[i][3] <= issue[i].cycle
      BY DEF OwnPrs, Attempt
    <3>2. b[2] \in 0..MaxCycle
      BY DEF TypeOK, Branch
    <3>3. QED
      BY <2>2, <2>3, <3>1, <3>2
  <2>10. Head(i)' \in prs => remote'[i] # "absent"
    <3>1. CASE BranchOf(Current(i)) = Head(i)
      <4>1. remote' = remote
        BY <1>1, <3>1 DEF Collect, branches
      <4>2. QED
        BY <2>2, <3>1, <4>1 DEF OwnPrs
    <3>2. CASE BranchOf(Current(i)) # Head(i)
      <4>1. issue[i].cycle > run[i][3]
        BY <2>2, <2>3, <3>2 DEF Attempt
      <4>2. <<i, issue[i].cycle>> \notin prs
        BY <2>3, <4>1 DEF OwnPrs
      <4>3. QED
        BY <2>2, <4>2
    <3>3. QED
      BY <3>1, <3>2
  <2>11. OwnPrs(i)'
    BY <2>1, <2>9, <2>10 DEF OwnPrs
  <2>12. QED
    BY <2>8, <2>11
<1>2. CASE Claim(i)
  <2>1. CASE End(i) /\ UNCHANGED row
    <3>1. pc'[i] = "idle" /\ ~fixed'[i]
      BY <2>1 DEF End, Go, TypeOK
    <3>2. QED
      BY <1>2, <2>1, <3>1, AttemptMoves DEF Claim, Attempt, Agents, github, branches
  <2>2. CASE Claimed(i) /\ ~HasPr(i)
    <3>1. pc'[i] = "enter" /\ row'[i].status = "running"
      BY <2>2 DEF Claimed, Go, TypeOK
    <3>2. fixed'[i] = fixed[i] /\ ~fixed[i]
      BY <1>2, <2>2 DEF Claim, Claimed, Attempt
    <3>3. QED
      BY <1>2, <2>2, <3>1, <3>2, AttemptMoves DEF Claim, Attempt, Agents, github, branches
  <2>3. QED
    BY <1>2, <2>1, <2>2, Zenon DEF Claim
<1>3. CASE Enter(i)
  <2>1. PICK kind, h : Opens(i, kind, h)
    BY <1>3, Zenon DEF Enter
  <2>2. /\ pc'[i] = IF h = "pushed" THEN "leave" ELSE FirstStep(Primary, i)
        /\ fixed'[i] <=> h = "pushed"
    BY <2>1 DEF Opens, Go, TypeOK
  <2>3. provider'[i] \in Provider
    BY <1>3 DEF Enter, TypeOK, Provider
  <2>4. ~HasPr(i)
    BY <1>3 DEF Enter, Attempt
  <2>5. pc'[i] \in {"assess", "plan"} => ~saved[i]
    BY <2>2 DEF FirstStep
  <2>6. fixed'[i] => pc'[i] = "leave"
    BY <2>2
  <2>7. QED
    BY <1>3, <2>3, <2>4, <2>5, <2>6, AttemptMoves DEF Enter, Attempt, github, disk
<1>4. CASE EnterFails(i)
  <2>1. pc'[i] = "finish" /\ ~fixed[i] /\ fixed' = fixed
    BY <1>4 DEF EnterFails, Go, TypeOK, Attempt
  <2>2. QED
    BY <1>4, <2>1, AttemptMoves DEF EnterFails, Attempt, Agents, github, disk
<1>5. ASSUME Agent(i)
      PROVE  remote'[i] = remote[i] \/ remote'[i] = "ahead"
  BY <1>5 DEF Agent, AgentRuns, TypeOK
<1>6. CASE Assess(i) \/ Build(i) \/ Resume(i) \/ HandOff(i)
  <2>1. /\ Agent(i) /\ Elsewhere(i) /\ UNCHANGED <<saved, planned, fixed>>
        /\ pc[i] \in Agents \ {"review"}
    BY <1>6 DEF Assess, Build, Resume, HandOff, Agents
  <2>2. pc'[i] \in {"more", "judge"} \/ (pc'[i] = "plan" /\ pc[i] = "assess")
    BY <1>6 DEF Assess, Build, Resume, HandOff, Go, TypeOK
  <2>3. ~fixed[i] /\ ~HasPr(i) /\ provider[i] \in Provider /\ (pc[i] = "assess" => ~saved[i])
    BY <2>1 DEF Attempt, Agents
  <2>4. QED
    BY <1>5, <2>1, <2>2, <2>3, AttemptMoves DEF Elsewhere, Attempt, Agents, github
<1>7. CASE Plan(i)
  <2>1. PICK result : AgentRuns(i, result, head[i])
    BY <1>7, Zenon DEF Plan
  <2>2. remote'[i] = remote[i] \/ remote'[i] = "ahead"
    BY <2>1 DEF AgentRuns, TypeOK
  <2>3. ~fixed[i] /\ ~HasPr(i) /\ provider[i] \in Provider /\ ~saved[i] /\ planned[i] = 0
    BY <1>7 DEF Plan, Attempt, Agents
  <2>4. /\ \/ /\ saved' = [saved EXCEPT ![i] = TRUE]
              /\ planned' = [planned EXCEPT ![i] = Least(@ + 1, 2)]
           \/ UNCHANGED <<saved, planned>>
        /\ (Go(i, "build") \/ Go(i, "judge"))
        /\ Elsewhere(i) /\ UNCHANGED fixed
    BY <1>7, Zenon DEF Plan
  <2>5. planned'[i] = 0 \/ (saved'[i] /\ planned'[i] = 1)
    BY <2>3, <2>4 DEF TypeOK, Least
  <2>6. pc'[i] \in {"build", "judge"}
    BY <2>4 DEF Go, TypeOK
  <2>7. QED
    BY <2>2, <2>3, <2>4, <2>5, <2>6, AttemptMoves DEF Elsewhere, Attempt, github
<1>8. CASE StopHere(i)
  <2>1. pc[i] = "more" /\ pc'[i] = "judge"
    BY <1>8 DEF StopHere, Go, TypeOK
  <2>2. QED
    BY <1>8, <2>1, AttemptMoves DEF StopHere, NoAgent, Elsewhere, Attempt, Agents, github
<1>9. CASE FallBack(i)
  <2>1. /\ pc[i] = "judge" /\ pc'[i] = FirstStep(Fallback, i) /\ provider'[i] = Fallback
        /\ Fallback \in Provider
    BY <1>9 DEF FallBack, Go, TypeOK, Provider
  <2>2. ~fixed[i] /\ ~HasPr(i)
    BY <2>1 DEF Attempt
  <2>3. pc'[i] \in {"assess", "plan"} => ~saved[i]
    BY <2>1 DEF FirstStep
  <2>4. QED
    BY <1>9, <2>1, <2>2, <2>3, AttemptMoves DEF FallBack, Attempt, github, disk
<1>10. CASE Accept(i)
  <2>1. pc[i] = "judge" /\ pc'[i] \in {"review", "leave"}
    BY <1>10 DEF Accept, Go, TypeOK
  <2>2. ~HasPr(i) /\ provider'[i] \in Provider
    BY <1>10, <2>1 DEF Accept, Attempt
  <2>3. QED
    BY <1>10, <2>1, <2>2, AttemptMoves DEF Accept, Attempt, github, disk
<1>11. CASE Reject(i) \/ ReviewEnds(i) \/ CleanupFails(i)
  <2>1. /\ GiveBack(i) /\ UNCHANGED <<github, remote, disk>>
        /\ pc[i] \in Agents \cup {"judge"}
    BY <1>11, Zenon DEF Reject, ReviewEnds, CleanupFails, Agents, branches
  <2>2. pc'[i] = "leave" /\ ~HasPr(i)
    BY <2>1 DEF GiveBack, Go, TypeOK, Attempt, Agents
  <2>3. QED
    BY <2>1, <2>2, AttemptMoves DEF Attempt, Agents, github, disk
<1>12. CASE Revise(i)
  <2>1. /\ Agent(i) /\ Elsewhere(i) /\ UNCHANGED <<saved, planned>> /\ pc[i] = "review"
        /\ pc'[i] \in {"review", "leave"}
    BY <1>12 DEF Revise, Go, TypeOK
  <2>2. ~HasPr(i) /\ provider[i] \in Provider
    BY <2>1 DEF Attempt, Agents
  <2>3. QED
    BY <1>5, <2>1, <2>2, AttemptMoves DEF Elsewhere, Attempt, Agents, github
<1>13. CASE Leave(i)
  <2>1. pc[i] = "leave" /\ (pc'[i] = "create" \/ (pc'[i] = "finish" /\ ~fixed'[i]))
    BY <1>13 DEF Leave, Go, TypeOK
  <2>2. ~HasPr(i)
    BY <1>13 DEF Leave, Attempt
  <2>3. QED
    BY <1>13, <2>1, <2>2, AttemptMoves DEF Leave, Attempt, Agents, github, disk
<1>14. CASE Escape(i)
  <2>1. pc'[i] = "idle" /\ ~fixed'[i]
    BY <1>14 DEF Escape, End, Go, TypeOK
  <2>2. QED
    BY <1>14, <2>1, AttemptMoves DEF Escape, Attempt, Agents, github, disk
<1>15. CASE Create(i)
  <2>1. /\ pc[i] = "create" /\ pc'[i] = "finish"
        /\ UNCHANGED <<issue, run, row, saved, planned, remote, provider>>
    BY <1>15 DEF Create, Go, TypeOK, branches, disk
  <2>2. CASE UNCHANGED <<prs, opened>> /\ fixed' = [fixed EXCEPT ![i] = FALSE]
    <3>1. ~fixed'[i]
      BY <2>2 DEF TypeOK
    <3>2. QED
      BY <2>1, <2>2, <3>1, AttemptMoves DEF Attempt, Agents
  <2>3. CASE /\ Head(i) \notin prs /\ remote[i] # "absent"
             /\ prs' = prs \cup {Head(i)} /\ opened' = opened \cup {Head(i)}
    <3>1. ~HasPr(i) /\ Head(i)' = Head(i)
      BY <2>1 DEF Attempt, Head
    <3>2. Head(i) = <<i, run[i][3]>> /\ run[i][3] \in 0..MaxCycle
      BY RunTyped DEF Attempt, TypeOK, Run
    <3>3. \A b \in prs' : b[1] = i => b = Head(i)
      BY <2>3, <3>1 DEF HasPr
    <3>4. OwnPrs(i)'
      BY <2>1, <2>3, <3>1, <3>2, <3>3 DEF OwnPrs
    <3>5. Attempt(i)'
      BY <2>1, <2>3, <3>1 DEF Attempt, Agents
    <3>6. QED
      BY <3>4, <3>5
  <2>4. QED
    BY <1>15, <2>2, <2>3, Zenon DEF Create
<1>16. CASE Finish(i)
  <2>1. pc[i] = "finish" /\ pc'[i] = "pause" /\ (row'[i].status = "completed" => fixed[i])
    BY <1>16 DEF Finish, Go, TypeOK
  <2>2. QED
    BY <1>16, <2>1, AttemptMoves DEF Finish, Attempt, Agents, github, branches
<1>17. CASE Pause(i) \/ NoPause(i)
  <2>1. /\ End(i) /\ UNCHANGED <<prs, opened, branches, disk>>
        /\ issue' = issue \/ issue' = [issue EXCEPT ![i].paused = TRUE]
    BY <1>17, Zenon DEF Pause, NoPause, github
  <2>2. pc'[i] = "idle" /\ ~fixed'[i] /\ issue'[i].cycle = issue[i].cycle
    BY <2>1 DEF End, Go, TypeOK
  <2>3. QED
    BY <2>1, <2>2, AttemptMoves DEF Attempt, Agents, branches, disk
<1>18. QED
  BY <1>1, <1>2, <1>3, <1>4, <1>6, <1>7, <1>8, <1>9, <1>10, <1>11, <1>12, <1>13,
     <1>14, <1>15, <1>16, <1>17, Zenon DEF Handle

-----------------------------------------------------------------------------
(* The theorems.                                                           *)

\* The inductive invariant.
IInv == TypeOK /\ \A i \in Issue : Attempt(i) /\ OwnPrs(i)

LEMMA InitIInv == Init => IInv
<1> SUFFICES ASSUME Init PROVE IInv
  OBVIOUS
<1> USE IssueFixerAssumption
<1>1. TypeOK
  BY DEF Init, TypeOK, Place, Result, Run, NoRow
<1>2. \A i \in Issue : Attempt(i) /\ OwnPrs(i)
  BY DEF Init, Attempt, OwnPrs, Agents, HasPr, NoRow
<1>3. QED
  BY <1>1, <1>2 DEF IInv

LEMMA NextIInv == IInv /\ [Next]_vars => IInv'
<1> SUFFICES ASSUME IInv, [Next]_vars PROVE IInv'
  OBVIOUS
<1>1. TypeOK'
  BY TypedStep DEF IInv, Provided, Attempt
<1>2. ASSUME NEW i \in Issue, Handle(i), NEW j \in Issue
      PROVE  Attempt(j)' /\ OwnPrs(j)'
  <2>1. CASE j = i
    BY <1>2, <2>1, AttemptStep DEF IInv
  <2>2. CASE j # i
    BY <1>2, <2>2, OthersKept, AttemptKept DEF IInv
  <2>3. QED
    BY <2>1, <2>2
<1>3. ASSUME NEW i \in Issue, Close(i) \/ Edit(i) \/ Unpause(i), NEW j \in Issue
      PROVE  Attempt(j)' /\ OwnPrs(j)'
  <2>1. issue'[j].cycle = issue[j].cycle
    <3>0. issue \in [Issue -> IssueRecord]
      BY Types DEF IInv
    <3>1. CASE Close(i)
      BY <3>0, <3>1 DEF Close, IssueRecord
    <3>2. CASE Edit(i)
      BY <3>0, <3>2 DEF Edit, IssueRecord
    <3>3. CASE Unpause(i)
      BY <3>0, <3>3 DEF Unpause, IssueRecord
    <3>4. QED
      BY <1>3, <3>1, <3>2, <3>3
  <2>2. UNCHANGED <<prs, opened, branches, disk, thread>>
    BY <1>3 DEF Close, Edit, Unpause
  <2>3. QED
    BY <2>1, <2>2, AttemptKept DEF IInv, Kept, SamePrs, branches, disk, thread
<1>4. ASSUME NEW i \in Issue, Reopen(i), NEW j \in Issue
      PROVE  Attempt(j)' /\ OwnPrs(j)'
  <2>1. UNCHANGED <<prs, opened, branches, disk, thread>> /\ Attempt(j) /\ OwnPrs(j) /\ TypeOK
    BY <1>4 DEF Reopen, IInv
  <2>2. issue[j].cycle \in Nat /\ run[j][3] \in Nat
    BY <2>1, IssueFixerAssumption DEF TypeOK, Run
  <2>3. issue'[j].cycle = issue[j].cycle \/ issue'[j].cycle = issue[j].cycle + 1
    <3>1. /\ issue' = [issue EXCEPT ![i] =
                         [@ EXCEPT !.open = TRUE, !.cycle = issue[i].cycle + 1]]
          /\ issue \in [Issue -> IssueRecord]
      BY <1>4, <2>1, Types DEF Reopen
    <3>2. QED
      BY <3>1 DEF IssueRecord
  <2>4. run[j][3] <= issue'[j].cycle
    BY <2>1, <2>2, <2>3 DEF Attempt
  <2>5. Head(j)' = Head(j) /\ (HasPr(j)' <=> HasPr(j))
    BY <2>1 DEF Head, HasPr, disk
  <2>6. QED
    BY <2>1, <2>4, <2>5 DEF Attempt, OwnPrs, branches, disk, thread
<1>5. ASSUME NEW i \in Issue, GrowStale(i), NEW j \in Issue
      PROVE  Attempt(j)' /\ OwnPrs(j)'
  <2>1. UNCHANGED <<github, branches, run, saved, planned, thread>> /\ TypeOK
        /\ row' = [row EXCEPT ![i].status = "stale"] /\ Attempt(j) /\ OwnPrs(j)
    BY <1>5 DEF GrowStale, IInv
  <2>2. row'[j].status = row[j].status \/ row'[j].status = "stale"
    BY <2>1 DEF TypeOK
  <2>3. QED
    BY <2>1, <2>2, AttemptMoves DEF Attempt, github, branches, thread
<1>6. ASSUME NEW b \in Branch, EndPr(b), NEW j \in Issue
      PROVE  Attempt(j)' /\ OwnPrs(j)'
  <2>1. /\ UNCHANGED <<opened, branches, disk, thread>> /\ TypeOK /\ prs' = prs \ {b}
        /\ issue' \in {issue, [issue EXCEPT ![b[1]].open = FALSE]} /\ Attempt(j) /\ OwnPrs(j)
    BY <1>6 DEF EndPr, IInv
  <2>2. issue'[j].cycle = issue[j].cycle
    <3>1. issue \in [Issue -> IssueRecord]
      BY <2>1, Types
    <3>2. QED
      BY <2>1, <3>1 DEF IssueRecord
  <2>3. Head(j)' = Head(j) /\ (HasPr(j)' => HasPr(j))
    BY <2>1 DEF Head, HasPr, disk
  <2>4. Attempt(j)'
    BY <2>1, <2>2, <2>3 DEF Attempt, branches, disk, thread
  <2>5. OwnPrs(j)'
    BY <2>1, <2>3 DEF OwnPrs, branches, disk
  <2>6. QED
    BY <2>4, <2>5
<1>7. ASSUME MoveBase, NEW j \in Issue
      PROVE  Attempt(j)' /\ OwnPrs(j)'
  <2>1. UNCHANGED <<github, disk, thread>> /\ TypeOK /\ Attempt(j) /\ OwnPrs(j)
    BY <1>7 DEF MoveBase, IInv
  <2>2. remote'[j] = "absent" => remote[j] = "absent"
    BY <1>7 DEF MoveBase
  <2>3. QED
    BY <2>1, <2>2, AttemptMoves DEF Attempt, github, disk, thread
<1>8. ASSUME Restart, NEW j \in Issue
      PROVE  Attempt(j)' /\ OwnPrs(j)'
  <2>1. /\ UNCHANGED <<github, remote, run, saved, planned>> /\ TypeOK /\ Attempt(j) /\ OwnPrs(j)
        /\ pc'[j] = "idle" /\ ~fixed'[j]
    BY <1>8 DEF Restart, IInv
  <2>2. row'[j].status = "failed" \/ row'[j] = row[j]
    BY <1>8, <2>1 DEF Restart, TypeOK
  <2>3. QED
    BY <2>1, <2>2, AttemptMoves DEF Attempt, Agents, github
<1>9. ASSUME (\E p \in Provider : LiftQuota(p)) \/ UNCHANGED vars, NEW j \in Issue
      PROVE  Attempt(j)' /\ OwnPrs(j)'
  <2>1. UNCHANGED <<github, branches, disk, thread>>
    BY <1>9 DEF LiftQuota, vars
  <2>2. QED
    BY <2>1, AttemptKept DEF IInv, Kept, SamePrs, github, branches, disk, thread
<1>10. \A j \in Issue : Attempt(j)' /\ OwnPrs(j)'
  BY <1>2, <1>3, <1>4, <1>5, <1>6, <1>7, <1>8, <1>9, Zenon DEF Next
<1>11. QED
  BY <1>1, <1>10 DEF IInv

LEMMA Invariance == Spec => []IInv
BY InitIInv, NextIInv, PTL DEF Spec

\* The variables have their types (what the issues, branches, rows and threads of
\* one queue may hold).
THEOREM TypeCorrect == Spec => []TypeOK
<1>1. IInv => TypeOK
  BY DEF IInv
<1>2. QED
  BY <1>1, Invariance, PTL

\* An issue never has two open pull requests (find_open_for_issue before the claim
\* and the branch of _create_pull_request).
THEOREM OnePr == Spec => []OnePrPerIssue
<1>1. IInv => OnePrPerIssue
  <2> SUFFICES ASSUME IInv, NEW b \in prs, NEW c \in prs, b[1] = c[1]
               PROVE  b = c
    BY DEF OnePrPerIssue
  <2>1. b[1] \in Issue
    BY DEF IInv, TypeOK, Branch
  <2>2. QED
    BY <2>1 DEF IInv, OwnPrs
<1>2. QED
  BY <1>1, Invariance, PTL

\* A completed run has had a pull request (_finalize).
THEOREM CompletedByPr == Spec => []CompletedHasPr
<1>1. IInv => CompletedHasPr
  BY DEF IInv, Attempt, CompletedHasPr
<1>2. QED
  BY <1>1, Invariance, PTL

\* A run is planned once (_plan_path, _post_plan).
THEOREM PlannedAtMostOnce == Spec => []PlannedOnce
<1>1. IInv => PlannedOnce
  <2> SUFFICES ASSUME IInv, NEW i \in Issue
               PROVE  planned[i] <= 1
    BY DEF PlannedOnce
  <2>1. planned[i] = 0 \/ planned[i] = 1
    BY DEF IInv, Attempt
  <2>2. QED
    BY <2>1
<1>2. QED
  BY <1>1, Invariance, PTL

\* The branch under an open pull request is not deleted
\* (_reset_worktree_for_fallback).
THEOREM BranchStays == Spec => []OpenPrHasBranch
<1>1. IInv => OpenPrHasBranch
  BY DEF IInv, OwnPrs, OpenPrHasBranch
<1>2. QED
  BY <1>1, Invariance, PTL
===============================================================================
