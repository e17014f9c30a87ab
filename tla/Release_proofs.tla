---------------------------- MODULE Release_proofs ----------------------------
(***************************************************************************)
(* Proofs about Release, for any number of runs, workers, messages and     *)
(* channels.                                                               *)
(*                                                                         *)
(* What makes the properties inductive is that a claimed run has one       *)
(* worker, and what that worker knows of the run's receipts and containers *)
(* at each of its places.                                                  *)
(***************************************************************************)
EXTENDS Release, TLAPS

\* A claimed run is running and has one worker.
Claims ==
  /\ \A w \in Worker : pc[w] # "idle" => job[w] \in Run
  /\ \A w \in Worker : Busy(w) =>
       row[job[w]].status = "running" /\ row[job[w]].preview = (mode[w] = "preview")
  /\ \A v, w \in Worker : Busy(v) /\ Busy(w) /\ job[v] = job[w] => v = w

\* What a worker knows of its run: everything that has a receipt or a container
\* until it chooses a batch; that nothing it still has to attempt has a receipt,
\* and which of it has a container, while it publishes the batch.  Whatever it
\* takes for published has a receipt, of this run or of another one.
Knows(w) ==
  /\ pc[w] \in {"draft", "art", "note", "choose"} =>
       receipts[job[w]] \subseteq known[w] /\ held[w] = boxes[job[w]]
  /\ pc[w] \in {"post", "record"} =>
       /\ batch[w] \in Message
       /\ \A c \in todo[w] :
            /\ ~Covers(receipts[job[w]], c, batch[w])
            /\ Covers(held[w], c, batch[w]) <=> Covers(boxes[job[w]], c, batch[w])
  /\ pc[w] \in {"draft", "art", "note", "choose", "post", "record"} =>
       /\ recent[w] \subseteq Recent(job[w])
       /\ \A k \in known[w] :
            k \in receipts[job[w]] \/ Suppressed(Recent(job[w]), k[1], k[2])

-----------------------------------------------------------------------------
(* What is put together from records.                                      *)

LEMMA InitialRecords == NoMetadata \in Metadata /\ AbsentRow \in Row
<1>1. NoMetadata \in Metadata
  BY ReleaseAssumption DEF NoMetadata, Metadata
<1>2. QED
  BY <1>1 DEF AbsentRow, Row, Status, Final

LEMMA ChangedMetadata ==
  \A md \in Metadata, b \in BOOLEAN : [md EXCEPT !.exhausted = b] \in Metadata
BY DEF Metadata

LEMMA ChangedStatus ==
  \A x \in Row, s \in Status : [x EXCEPT !.status = s] \in Row
BY DEF Row

LEMMA ChangedRow ==
  ASSUME NEW x \in Row, NEW s \in Status, NEW b \in BOOLEAN, NEW md \in Metadata,
         NEW n \in Nat
  PROVE  /\ [x EXCEPT !.meta = md] \in Row
         /\ [x EXCEPT !.due = b] \in Row
         /\ [x EXCEPT !.status = s] \in Row
         /\ [x EXCEPT !.status = s, !.due = b, !.meta = md] \in Row
         /\ [x EXCEPT !.status = s, !.attempt = n, !.preview = b, !.meta = md] \in Row
<1>1. [x EXCEPT !.meta = md] \in Row /\ [x EXCEPT !.due = b] \in Row
  BY DEF Row
<1>2. [x EXCEPT !.status = s] \in Row
  BY DEF Row
<1>3. [x EXCEPT !.status = s, !.due = b, !.meta = md] \in Row
  BY DEF Row
<1>4. [x EXCEPT !.status = s, !.attempt = n, !.preview = b, !.meta = md] \in Row
  BY DEF Row
<1>5. QED
  BY <1>1, <1>2, <1>3, <1>4

LEMMA TakenTyped ==
  ASSUME NEW w \in Worker, NEW x \in Row, saved[w] \in Metadata
  PROVE  Taken(w, x) \in Row /\ Taken(w, x).status = "running"
<1>1. x.attempt + 1 \in Nat
  BY DEF Row
<1>2. "running" \in Status
  BY DEF Status
<1>3. (mode[w] = "preview") \in BOOLEAN
  OBVIOUS
<1>4. [x EXCEPT !.status = "running", !.attempt = x.attempt + 1,
                !.preview = (mode[w] = "preview"), !.meta = saved[w]] \in Row
  BY <1>1, <1>2, <1>3, ChangedRow
<1>5. Taken(w, x) \in Row
  BY <1>4 DEF Taken
<1>6. Taken(w, x).status = "running"
  BY DEF Taken, Row
<1>7. QED
  BY <1>5, <1>6

-----------------------------------------------------------------------------
(* Types.                                                                  *)

\* A worker that leaves keeps nothing.
LEMMA LeaveTyped ==
  ASSUME TypeOK, NEW w \in Worker, Leave(w)
  PROVE  /\ pc' \in [Worker -> Place] /\ job' \in [Worker -> Run \cup {NoRun}]
         /\ mode' \in [Worker -> {"none", "scheduler", "publish", "preview"}]
         /\ saved' \in [Worker -> Metadata] /\ plan' \in [Worker -> Metadata]
         /\ handled' \in [Worker -> SUBSET Run]
         /\ recent' \in [Worker -> SUBSET Key] /\ known' \in [Worker -> SUBSET Key]
         /\ held' \in [Worker -> SUBSET Key]
         /\ batch' \in [Worker -> Message \cup {NoMessage}]
         /\ todo' \in [Worker -> SUBSET Channel] /\ failed' \in [Worker -> BOOLEAN]
BY InitialRecords DEF TypeOK, Leave, Go, Place

LEMMA CallTyped ==
  ASSUME TypeOK, NEW w \in Worker, NEW r \in Run,
         NEW who \in {"scheduler", "publish", "preview"}, Call(w, r, who),
         slotOpen' \in BOOLEAN, triggers' \in Nat
  PROVE  TypeOK'
BY DEF TypeOK, Call, Go, Place, ledger, public, loaded, work

\* The status, the attempts and the kind of a run stay as they are.
Steady(r) ==
  /\ row'[r].status = row[r].status /\ row'[r].preview = row[r].preview
  /\ row'[r].attempt = row[r].attempt

LEMMA ResolveStep ==
  ASSUME TypeOK, Claims, NEW w \in Worker, Resolve(w)
  PROVE  /\ row' \in [Run -> Row]
         /\ \A r \in Run : Steady(r)
         /\ \A r \in Run \ {job[w]} : row'[r] = row[r]
<1>1. job[w] \in Run
  BY DEF Resolve, Claims
<1> DEFINE x == [row[job[w]] EXCEPT !.resolved = TRUE]
<1>2. /\ x \in Row /\ x.status = row[job[w]].status /\ x.preview = row[job[w]].preview
      /\ x.attempt = row[job[w]].attempt
  <2>1. row[job[w]] \in Row
    BY <1>1 DEF TypeOK
  <2>2. QED
    BY <2>1 DEF Row
<1>3. row' = [row EXCEPT ![job[w]] = x]
  BY DEF Resolve
<1> HIDE DEF x
<1>4. QED
  BY <1>1, <1>2, <1>3 DEF TypeOK, Steady

LEMMA TypedStep ==
  ASSUME TypeOK, Claims, \A w \in Worker : Knows(w), [Next]_vars
  PROVE  TypeOK'
<1> USE ReleaseAssumption
<1>1. ASSUME NEW w \in Worker, NEW r \in Run, Trigger(w, r) \/ Preview(w, r)
      PROVE  TypeOK'
  <2>1. slotOpen' \in BOOLEAN /\ triggers' \in Nat
    BY <1>1 DEF Trigger, Preview, TypeOK
  <2>2. QED
    BY <1>1, <2>1, CallTyped DEF Trigger, Preview
<1>2. ASSUME NEW w \in Worker, NEW r \in Run, ResumeRun(w, r)
      PROVE  TypeOK'
  <2>1. slotOpen' \in BOOLEAN /\ triggers' \in Nat
    BY <1>2 DEF ResumeRun, TypeOK
  <2>2. QED
    BY <1>2, <2>1, CallTyped DEF ResumeRun
<1>3. ASSUME NEW r \in Run, GiveUp(r)
      PROVE  TypeOK'
  <2>1. row[r] \in Row /\ row[r].meta \in Metadata
    BY DEF TypeOK, Row
  <2>2. [row[r] EXCEPT !.meta = [@ EXCEPT !.exhausted = TRUE]] \in Row
    BY <2>1, ChangedMetadata DEF Row
  <2>3. row' \in [Run -> Row]
    BY <1>3, <2>2 DEF GiveUp, TypeOK
  <2>4. QED
    BY <1>3, <2>3 DEF GiveUp, TypeOK, public, loaded, work, bounds
<1>4. ASSUME NEW r \in Run, FallDue(r)
      PROVE  TypeOK'
  <2>1. [row[r] EXCEPT !.due = TRUE] \in Row
    <3>1. row[r] \in Row
      BY DEF TypeOK
    <3>2. [row[r] EXCEPT !.due = TRUE] \in Row
      BY <3>1 DEF Row
    <3>3. QED
      BY <3>2
  <2>2. row' \in [Run -> Row]
    BY <1>4, <2>1 DEF FallDue, TypeOK
  <2>3. QED
    BY <1>4, <2>2 DEF FallDue, TypeOK, public, loaded, work, bounds
<1>5. CASE OpenSlot
  BY <1>5 DEF OpenSlot, TypeOK, ledger, public, loaded, work, bounds
<1>6. ASSUME NEW w \in Worker, Crash(w)
      PROVE  TypeOK'
  BY <1>6, LeaveTyped DEF Crash, TypeOK, ledger, public
<1>7. ASSUME NEW w \in Worker, Read(w)
      PROVE  TypeOK'
  <2>1. job[w] \in Run
    BY <1>7 DEF Read, Claims
  <2>2. row[job[w]] \in Row /\ row[job[w]].meta \in Metadata
    BY <2>1 DEF TypeOK, Row
  <2>3. CASE Leave(w)
    BY <1>7, <2>3, LeaveTyped DEF Read, TypeOK, ledger, public, bounds
  <2>4. CASE ~Leave(w)
    <3> DEFINE md == IF Open(job[w]) THEN row[job[w]].meta ELSE NoMetadata
    <3>1. /\ saved' = [saved EXCEPT ![w] = md]
          /\ Go(w, "claim")
          /\ UNCHANGED <<job, mode, handled, recent, held, known, work>>
          /\ UNCHANGED <<ledger, public, slotOpen, bounds>>
      BY <1>7, <2>4, Zenon DEF Read
    <3>2. md \in Metadata
      BY <2>2, InitialRecords
    <3> HIDE DEF md
    <3>3. saved' \in [Worker -> Metadata]
      BY <3>1, <3>2 DEF TypeOK
    <3>4. pc' \in [Worker -> Place]
      BY <3>1 DEF TypeOK, Go, Place
    <3>5. QED
      BY <3>1, <3>3, <3>4 DEF TypeOK, ledger, public, work, bounds
  <2>5. QED
    BY <2>3, <2>4
<1>8. ASSUME NEW w \in Worker, Claim(w)
      PROVE  TypeOK'
  <2>1. job[w] \in Run /\ saved[w] \in Metadata
    BY <1>8 DEF Claim, Claims, TypeOK
  <2>2. CASE Leave(w) /\ UNCHANGED row
    BY <1>8, <2>2, LeaveTyped DEF Claim, TypeOK, public, bounds
  <2>3. CASE ~(Leave(w) /\ UNCHANGED row)
    <3>1. Taken(w, row[job[w]]) \in Row
      BY <2>1, TakenTyped DEF TypeOK
    <3>2. /\ row' = [row EXCEPT ![job[w]] = Taken(w, row[job[w]])]
          /\ Go(w, "load")
          /\ UNCHANGED <<job, mode, loaded, known, work>>
      BY <1>8, <2>3, Zenon DEF Claim
    <3>3. row' \in [Run -> Row]
      BY <2>1, <3>1, <3>2 DEF TypeOK
    <3>4. pc' \in [Worker -> Place]
      BY <3>2 DEF TypeOK, Go, Place
    <3>5. QED
      BY <1>8, <3>2, <3>3, <3>4 DEF Claim, TypeOK, public, loaded, work, bounds
  <2>4. QED
    BY <2>2, <2>3
<1>9. ASSUME NEW w \in Worker, Load(w)
      PROVE  TypeOK'
  <2>1. job[w] \in Run
    BY <1>9 DEF Load, Claims
  <2>2. Handled(job[w]) \in SUBSET Run /\ Recent(job[w]) \in SUBSET Key
    BY <2>1 DEF Handled, Recent, TypeOK
  <2>3. QED
    BY <1>9, <2>1, <2>2 DEF Load, TypeOK, Go, Place, ledger, public, work, bounds
<1>10. ASSUME NEW w \in Worker, NEW md \in Metadata, NEW place \in Place, Drafted(w, md, place)
       PROVE  TypeOK'
  <2>1. Repeats(w, md.drafts) \in SUBSET Key
    BY DEF Repeats
  <2>2. known' \in [Worker -> SUBSET Key]
    BY <1>10, <2>1 DEF Drafted, TypeOK
  <2>3. QED
    BY <1>10, <2>2 DEF Drafted, TypeOK, Go, Place, ledger, public, loaded, bounds
<1>11. ASSUME NEW w \in Worker, Reuse(w)
       PROVE  TypeOK'
  <2>1. Parsed(w) \in Metadata
    BY ChangedMetadata DEF Parsed, TypeOK
  <2>2. QED
    BY <1>10, <1>11, <2>1 DEF Reuse, Place
<1>12. ASSUME NEW w \in Worker, Write(w)
       PROVE  TypeOK'
  <2>1. job[w] \in Run /\ handled[w] \in SUBSET Run
    BY <1>12 DEF Write, Claims, TypeOK
  <2>2. PICK base \in 0..LastRun :
          \E D \in Announced(InRange(job[w], base)) :
            Drafted(w, [drafted |-> TRUE, drafts |-> D, base |-> base, exhausted |-> FALSE], "art")
    BY <1>12 DEF Write
  <2>3. PICK D \in SUBSET Message :
          Drafted(w, [drafted |-> TRUE, drafts |-> D, base |-> base, exhausted |-> FALSE], "art")
    BY <2>2 DEF Announced, InRange
  <2>4. [drafted |-> TRUE, drafts |-> D, base |-> base, exhausted |-> FALSE] \in Metadata
    BY DEF Metadata
  <2>5. "art" \in Place
    BY DEF Place
  <2>6. QED
    BY <1>10, <2>3, <2>4, <2>5
<1>13. ASSUME NEW w \in Worker, MakeArt(w) \/ SkipNote(w)
       PROVE  TypeOK'
  BY <1>13 DEF MakeArt, SkipNote, TypeOK, Go, Place, ledger, public, loaded, work, bounds
<1>14. ASSUME NEW w \in Worker, FailDraft(w)
       PROVE  TypeOK'
  <2>1. job[w] \in Run
    BY <1>14 DEF FailDraft, Claims
  <2>2. [row[job[w]] EXCEPT !.status = "failed"] \in Row
    <3>1. "failed" \in Status
      BY DEF Status
    <3>2. row[job[w]] \in Row
      BY <2>1 DEF TypeOK
    <3>3. QED
      BY <3>1, <3>2, ChangedStatus
  <2>3. row' \in [Run -> Row]
    BY <1>14, <2>1, <2>2 DEF FailDraft, TypeOK
  <2>4. QED
    BY <1>14, <2>3, LeaveTyped DEF FailDraft, TypeOK, public, bounds
<1>15. ASSUME NEW w \in Worker, PostNote(w)
       PROVE  TypeOK'
  <2>1. job[w] \in Run
    BY <1>15 DEF PostNote, Claims
  <2>2. noted' \in SUBSET Run
    BY <1>15, <2>1, Zenon DEF PostNote, TypeOK
  <2>3. More(notes[job[w]]) \in 0..2
    BY DEF More
  <2> DEFINE n == More(notes[job[w]])
  <2>4. notes' = [notes EXCEPT ![job[w]] = n] \/ notes' = notes
    BY <1>15, Zenon DEF PostNote
  <2>4a. n \in 0..2
    BY <2>3
  <2> HIDE DEF n
  <2>5. notes' \in [Run -> 0..2]
    <3>1. notes \in [Run -> 0..2]
      BY DEF TypeOK
    <3>2. [notes EXCEPT ![job[w]] = n] \in [Run -> 0..2]
      BY <2>1, <2>4a, <3>1
    <3>3. QED
      BY <2>4, <3>1, <3>2, Zenon
  <2>6. QED
    BY <1>15, <2>2, <2>5 DEF PostNote, TypeOK, Go, Place, loaded, work, bounds
<1>16. ASSUME NEW w \in Worker, StartBatch(w)
       PROVE  TypeOK'
  <2>1. plan[w].drafts \subseteq Message
    BY DEF TypeOK, Metadata
  <2>2. \A m : Missing(w, m) \in SUBSET Channel
    BY ReleaseAssumption DEF Missing, ChannelsOf
  <2>3a. PICK m \in plan[w].drafts :
           /\ batch' = [batch EXCEPT ![w] = m]
           /\ \/ todo' = [todo EXCEPT ![w] = Missing(w, m)]
              \/ todo' = [todo EXCEPT ![w] = Missing(w, m) \ Illustrated]
    BY <1>16, Zenon DEF StartBatch
  <2>3b. batch' \in [Worker -> Message \cup {NoMessage}]
    BY <2>1, <2>3a DEF TypeOK
  <2>3c. \E cs \in SUBSET Channel : todo' = [todo EXCEPT ![w] = cs]
    BY <2>2, <2>3a
  <2>3d. todo' \in [Worker -> SUBSET Channel]
    BY <2>3c DEF TypeOK
  <2>3. batch' \in [Worker -> Message \cup {NoMessage}] /\ todo' \in [Worker -> SUBSET Channel]
    BY <2>3b, <2>3d
  <2>4. failed' \in [Worker -> BOOLEAN] /\ pc' \in [Worker -> Place]
    BY <1>16 DEF StartBatch, TypeOK, Go, Place
  <2>5. QED
    BY <1>16, <2>3, <2>4 DEF StartBatch, TypeOK, ledger, public, loaded, bounds
<1>17. ASSUME NEW w \in Worker, NEW status \in Status, Park(w, status), pc[w] # "idle"
       PROVE  TypeOK'
  <2>1. job[w] \in Run
    BY <1>17 DEF Claims
  <2>2. row[job[w]] \in Row /\ row[job[w]].meta \in Metadata /\ plan[w] \in Metadata
    BY <2>1 DEF TypeOK, Row
  <2>3. row[job[w]].meta.exhausted \in BOOLEAN
    BY <2>2 DEF Metadata
  <2> DEFINE md == [plan[w] EXCEPT !.exhausted = row[job[w]].meta.exhausted]
  <2>4. md \in Metadata
    BY <2>2, <2>3, ChangedMetadata
  <2> DEFINE x == [row[job[w]] EXCEPT !.status = status, !.due = (status # "scheduled"), !.meta = md]
  <2>5. x \in Row
    BY <2>2, <2>4, ChangedRow
  <2>6. row' = [row EXCEPT ![job[w]] = x]
    BY <1>17 DEF Park
  <2> HIDE DEF x
  <2>7. row' \in [Run -> Row]
    BY <2>1, <2>5, <2>6 DEF TypeOK
  <2>8. QED
    BY <1>17, <2>7, LeaveTyped DEF Park, TypeOK, public, bounds
<1>18. ASSUME NEW w \in Worker, FailRun(w) \/ ScheduleRun(w) \/ CompleteRun(w) \/ CompletePreview(w)
       PROVE  TypeOK'
  <2>1. pc[w] # "idle"
    BY <1>18 DEF FailRun, ScheduleRun, CompleteRun, CompletePreview, Attempted
  <2>2. {"failed", "scheduled", "rejected", "completed"} \subseteq Status
    BY DEF Status, Final
  <2>3. \E status \in Status : Park(w, status)
    BY <1>18, <2>2 DEF FailRun, ScheduleRun, CompleteRun, CompletePreview
  <2>4. QED
    BY <1>17, <2>1, <2>3
<1>19. ASSUME NEW w \in Worker, NEW c \in Channel, ChannelFails(w, c), Turn(w, c),
              posts' \in [Run -> [Key -> 0..2]], spent' \in [Run -> SUBSET Key],
              UNCHANGED <<boxes, held, bounds>>
       PROVE  TypeOK'
  <2>1. todo' \in [Worker -> SUBSET Channel]
    BY <1>19 DEF ChannelFails, TypeOK
  <2>2. failed' \in [Worker -> BOOLEAN]
    BY <1>19 DEF ChannelFails, TypeOK
  <2>3. QED
    BY <1>19, <2>1, <2>2 DEF ChannelFails, TypeOK, bounds
<1>20. ASSUME NEW w \in Worker, NEW c \in Channel, Answered(w), Turn(w, c),
              posts' \in [Run -> [Key -> 0..2]], spent' \in [Run -> SUBSET Key],
              UNCHANGED <<boxes, held, bounds>>
       PROVE  TypeOK'
  BY <1>20 DEF Answered, TypeOK, Go, Place, work, bounds
<1>21. ASSUME NEW w \in Worker, NEW c \in Channel, Turn(w, c)
       PROVE  job[w] \in Run /\ batch[w] \in Message /\ <<c, batch[w]>> \in Key
  BY <1>21 DEF Turn, Claims, Knows, Key
<1>22. ASSUME NEW w \in Worker, NEW c \in Channel, Turn(w, c), Visible(w, c)
       PROVE  posts' \in [Run -> [Key -> 0..2]]
  <2>1. /\ job[w] \in Run /\ <<c, batch[w]>> \in Key
    BY <1>21, <1>22
  <2>2. \A n : More(n) \in 0..2
    BY DEF More
  <2> DEFINE q == [posts[job[w]] EXCEPT ![<<c, batch[w]>>] = More(@)]
  <2>3. q \in [Key -> 0..2]
    BY <2>1, <2>2 DEF TypeOK
  <2>4. posts' = [posts EXCEPT ![job[w]] = q]
    BY <1>22 DEF Visible
  <2> HIDE DEF q
  <2>5. QED
    BY <2>1, <2>3, <2>4 DEF TypeOK
<1>23. ASSUME NEW w \in Worker, NEW c \in Channel, Refused(w, c)
       PROVE  TypeOK'
  BY <1>19, <1>23 DEF Refused, ChannelFails, TypeOK
<1>24. ASSUME NEW w \in Worker, NEW c \in Channel, PostPlain(w, c)
       PROVE  TypeOK'
  BY <1>20, <1>22, <1>24 DEF PostPlain, Answered, TypeOK
<1>25. ASSUME NEW w \in Worker, NEW c \in Channel, LoseAnswer(w, c)
       PROVE  TypeOK'
  BY <1>19, <1>22, <1>25 DEF LoseAnswer, ChannelFails, TypeOK
<1>26. ASSUME NEW w \in Worker, NEW c \in Channel, PostPodcast(w, c)
       PROVE  TypeOK'
  <2>1. /\ job[w] \in Run /\ <<c, batch[w]>> \in Key /\ Turn(w, c)
    BY <1>21, <1>26 DEF PostPodcast
  <2> DEFINE q == [posts[job[w]] EXCEPT ![<<c, batch[w]>>] = 1]
  <2>2. q \in [Key -> 0..2]
    BY <2>1 DEF TypeOK
  <2>3. posts' = [posts EXCEPT ![job[w]] = q]
    BY <1>26 DEF PostPodcast
  <2> HIDE DEF q
  <2>4. posts' \in [Run -> [Key -> 0..2]]
    BY <2>1, <2>2, <2>3 DEF TypeOK
  <2>5. spent' \in [Run -> SUBSET Key] /\ UNCHANGED <<boxes, held>>
    BY <1>26 DEF PostPodcast, TypeOK
  <2>6. CASE Answered(w)
    <3>1. UNCHANGED bounds
      BY <2>6 DEF Answered
    <3>2. QED
      BY <1>20, <2>1, <2>4, <2>5, <2>6, <3>1
  <2>7. CASE ChannelFails(w, c)
    <3>1. UNCHANGED bounds
      BY <2>7 DEF ChannelFails
    <3>2. QED
      BY <1>19, <2>1, <2>4, <2>5, <2>7, <3>1
  <2>8. QED
    BY <1>26, <2>6, <2>7, Zenon DEF PostPodcast
<1>27. ASSUME NEW w \in Worker, NEW c \in Channel, OpenContainer(w, c)
       PROVE  TypeOK'
  <2>1. job[w] \in Run /\ <<c, batch[w]>> \in Key
    BY <1>21, <1>27 DEF OpenContainer
  <2>2. boxes' \in [Run -> SUBSET Key] /\ spent' \in [Run -> SUBSET Key]
    BY <1>27, <2>1 DEF OpenContainer, TypeOK
  <2>3. held' \in [Worker -> SUBSET Key]
    BY <1>27, <2>1 DEF OpenContainer, TypeOK
  <2>4. QED
    BY <1>27, <2>2, <2>3 DEF OpenContainer, TypeOK, work, bounds
<1>28. ASSUME NEW w \in Worker, NEW c \in Channel, PublishContainer(w, c)
       PROVE  TypeOK'
  <2>1. /\ job[w] \in Run /\ <<c, batch[w]>> \in Key /\ Turn(w, c)
    BY <1>21, <1>28 DEF PublishContainer
  <2>2. posts' \in [Run -> [Key -> 0..2]]
    BY <1>22, <1>28 DEF PublishContainer
  <2>3. spent' \in [Run -> SUBSET Key] /\ UNCHANGED <<boxes, held>>
    BY <1>28, <2>1 DEF PublishContainer, TypeOK
  <2>4. CASE Answered(w)
    <3>1. UNCHANGED bounds
      BY <2>4 DEF Answered
    <3>2. QED
      BY <1>20, <2>1, <2>2, <2>3, <2>4, <3>1
  <2>5. CASE ChannelFails(w, c)
    <3>1. UNCHANGED bounds
      BY <2>5 DEF ChannelFails
    <3>2. QED
      BY <1>19, <2>1, <2>2, <2>3, <2>5, <3>1
  <2>6. QED
    BY <1>28, <2>4, <2>5, Zenon DEF PublishContainer
<1>29. ASSUME NEW w \in Worker, NEW c \in Channel, Record(w, c)
       PROVE  TypeOK'
  <2>1. job[w] \in Run /\ <<c, batch[w]>> \in Key
    BY <1>29 DEF Record, Claims, Knows, Key
  <2> DEFINE k == <<c, batch[w]>>
  <2>2a. /\ receipts' = [receipts EXCEPT ![job[w]] = @ \cup {k}] \/ receipts' = receipts
         /\ boxes' = [boxes EXCEPT ![job[w]] = @ \ {k}] \/ boxes' = boxes
         /\ known' = [known EXCEPT ![w] = @ \cup {k}] \/ known' = known
         /\ failed' = [failed EXCEPT ![w] = TRUE] \/ failed' = failed
    BY <1>29, Zenon DEF Record
  <2> HIDE DEF k
  <2>2b. k \in Key
    BY <2>1 DEF k
  <2>2c. /\ receipts[job[w]] \cup {k} \in SUBSET Key
         /\ boxes[job[w]] \ {k} \in SUBSET Key
         /\ known[w] \cup {k} \in SUBSET Key
    BY <2>1, <2>2b DEF TypeOK
  <2>2d. /\ receipts \in [Run -> SUBSET Key] /\ boxes \in [Run -> SUBSET Key]
         /\ known \in [Worker -> SUBSET Key]
    BY DEF TypeOK
  <2>2e. [receipts EXCEPT ![job[w]] = @ \cup {k}] \in [Run -> SUBSET Key]
    BY <2>1, <2>2c, <2>2d
  <2>2f. [boxes EXCEPT ![job[w]] = @ \ {k}] \in [Run -> SUBSET Key]
    BY <2>1, <2>2c, <2>2d
  <2>2g. [known EXCEPT ![w] = @ \cup {k}] \in [Worker -> SUBSET Key]
    BY <2>2c, <2>2d
  <2>2. receipts' \in [Run -> SUBSET Key] /\ boxes' \in [Run -> SUBSET Key]
    BY <2>2a, <2>2d, <2>2e, <2>2f, Zenon
  <2>3a. known' \in [Worker -> SUBSET Key]
    BY <2>2a, <2>2d, <2>2g, Zenon
  <2>3. known' \in [Worker -> SUBSET Key] /\ failed' \in [Worker -> BOOLEAN]
    BY <2>2a, <2>3a DEF TypeOK
  <2>4. todo' \in [Worker -> SUBSET Channel]
    BY <1>29 DEF Record, TypeOK
  <2>5. pc' \in [Worker -> Place]
    BY <1>29 DEF Record, TypeOK, Go, Place
  <2>6. QED
    BY <1>29, <2>2, <2>3, <2>4, <2>5 DEF Record, TypeOK, public, loaded, bounds
<1>30. CASE UNCHANGED vars
  BY <1>30 DEF TypeOK, vars, ledger, public, loaded, work, bounds
<1>33. ASSUME NEW w \in Worker, Resolve(w)
       PROVE  TypeOK'
  <2>1. row' \in [Run -> Row]
    BY <1>33, ResolveStep
  <2>2. QED
    BY <1>33, <2>1 DEF Resolve, TypeOK, public, loaded, work, bounds
<1>31. ASSUME NEW w \in Worker, Work(w)
       PROVE  TypeOK'
  BY <1>7, <1>8, <1>9, <1>11, <1>33, <1>12, <1>13, <1>14, <1>15, <1>16, <1>18, <1>23, <1>24,
     <1>25, <1>26, <1>27, <1>28, <1>29, <1>31, Zenon DEF Work, Publish
<1>32. QED
  BY <1>1, <1>2, <1>3, <1>4, <1>5, <1>6, <1>30, <1>31, Zenon DEF Next
-----------------------------------------------------------------------------
(* A worker's step leaves the others alone.                                *)

Kept(v) ==
  /\ pc'[v] = pc[v] /\ job'[v] = job[v] /\ mode'[v] = mode[v]
  /\ recent'[v] = recent[v] /\ known'[v] = known[v] /\ held'[v] = held[v]
  /\ plan'[v] = plan[v] /\ batch'[v] = batch[v] /\ todo'[v] = todo[v]

Elsewhere(w) == \A v \in Worker \ {w} : Kept(v)

Step(w) ==
  \/ Work(w) \/ Crash(w)
  \/ \E r \in Run : Trigger(w, r) \/ Preview(w, r) \/ ResumeRun(w, r)

LEMMA LeaveElsewhere ==
  ASSUME TypeOK, NEW w \in Worker, Leave(w)
  PROVE  Elsewhere(w) /\ pc'[w] = "idle"
BY DEF TypeOK, Leave, Go, Elsewhere, Kept

LEMMA StepElsewhere ==
  ASSUME TypeOK, NEW w \in Worker, Step(w)
  PROVE  Elsewhere(w)
<1> DEFINE Same == UNCHANGED <<job, mode, loaded, known, work>>
<1>1. ASSUME NEW place, Go(w, place), Same
      PROVE  Elsewhere(w)
  BY <1>1 DEF Go, TypeOK, loaded, work, Elsewhere, Kept
<1>2. ASSUME NEW r \in Run, Trigger(w, r) \/ Preview(w, r) \/ ResumeRun(w, r)
      PROVE  Elsewhere(w)
  BY <1>2 DEF Trigger, Preview, ResumeRun, Call, Go, TypeOK, loaded, work, Elsewhere, Kept
<1>3. CASE Crash(w)
  BY <1>3, LeaveElsewhere DEF Crash
<1>4. CASE Read(w)
  <2>1. CASE Leave(w)
    BY <2>1, LeaveElsewhere
  <2>2. CASE ~Leave(w)
    <3>1. Go(w, "claim") /\ UNCHANGED <<job, mode, handled, recent, held, known, work>>
      BY <1>4, <2>2, Zenon DEF Read
    <3>2. QED
      BY <3>1 DEF Go, TypeOK, work, Elsewhere, Kept
  <2>3. QED
    BY <2>1, <2>2
<1>5. CASE Claim(w)
  <2>1. Leave(w) \/ (Go(w, "load") /\ Same)
    BY <1>5, Zenon DEF Claim
  <2>2. QED
    BY <1>1, <2>1, LeaveElsewhere
<1>6. CASE Load(w)
  BY <1>6 DEF Load, Go, TypeOK, work, Elsewhere, Kept
<1>7. CASE Reuse(w) \/ Write(w)
  <2>1. \E md, place : Drafted(w, md, place)
    BY <1>7, Zenon DEF Reuse, Write
  <2>2. QED
    BY <2>1 DEF Drafted, Go, TypeOK, loaded, Elsewhere, Kept
<1>8. CASE MakeArt(w) \/ SkipNote(w) \/ PostNote(w)
  <2>1. \E place : Go(w, place) /\ Same
    BY <1>8, Zenon DEF MakeArt, SkipNote, PostNote
  <2>2. QED
    BY <1>1, <2>1
<1>9. CASE FailDraft(w)
  BY <1>9, LeaveElsewhere DEF FailDraft
<1>10. CASE StartBatch(w)
  <2>1. PICK m : /\ batch' = [batch EXCEPT ![w] = m]
                 /\ \/ todo' = [todo EXCEPT ![w] = Missing(w, m)]
                    \/ todo' = [todo EXCEPT ![w] = Missing(w, m) \ Illustrated]
    BY <1>10, Zenon DEF StartBatch
  <2>2. QED
    BY <1>10, <2>1 DEF StartBatch, Go, TypeOK, loaded, Elsewhere, Kept
<1>11. ASSUME NEW c \in Channel, Refused(w, c) \/ PostPlain(w, c) \/ LoseAnswer(w, c)
                                   \/ PostPodcast(w, c) \/ PublishContainer(w, c)
       PROVE  Elsewhere(w)
  <2>1. UNCHANGED held /\ (Answered(w) \/ ChannelFails(w, c))
    BY <1>11, Zenon DEF Refused, PostPlain, LoseAnswer, PostPodcast, PublishContainer
  <2>2. CASE Answered(w)
    BY <2>1, <2>2 DEF Answered, Go, TypeOK, work, Elsewhere, Kept
  <2>3. CASE ChannelFails(w, c)
    BY <2>1, <2>3 DEF ChannelFails, TypeOK, Elsewhere, Kept
  <2>4. QED
    BY <2>1, <2>2, <2>3
<1>12. ASSUME NEW c \in Channel, OpenContainer(w, c)
       PROVE  Elsewhere(w)
  BY <1>12 DEF OpenContainer, TypeOK, work, Elsewhere, Kept
<1>13. ASSUME NEW c \in Channel, Record(w, c)
       PROVE  Elsewhere(w)
  <2>1. known' = known \/ \E x : known' = [known EXCEPT ![w] = x]
    BY <1>13, Zenon DEF Record
  <2>2. QED
    BY <1>13, <2>1 DEF Record, Go, TypeOK, loaded, Elsewhere, Kept
<1>14. CASE FailRun(w) \/ ScheduleRun(w) \/ CompleteRun(w) \/ CompletePreview(w)
  BY <1>14, LeaveElsewhere DEF FailRun, ScheduleRun, CompleteRun, CompletePreview, Park
<1>15. CASE Resolve(w)
  BY <1>15 DEF Resolve, loaded, work, Elsewhere, Kept
<1>16. QED
  BY <1>2, <1>3, <1>4, <1>5, <1>6, <1>7, <1>8, <1>9, <1>10, <1>11, <1>12, <1>13, <1>14,
     <1>15, Zenon DEF Step, Work, Publish
-----------------------------------------------------------------------------
(* What a step does to the ledger and to the public.                       *)

\* w takes run r.
Takes(w, r) ==
  /\ job[w] = r /\ row[r].status \notin Final /\ ~Held(r)
  /\ row' = [row EXCEPT ![r] = Taken(w, @)]
  /\ pc' = [pc EXCEPT ![w] = "load"] /\ UNCHANGED <<job, mode>>

\* A worker that holds no run changes nothing but for the claim.
LEMMA IdleStep ==
  ASSUME TypeOK, Claims, NEW w \in Worker, Step(w), ~Busy(w)
  PROVE  /\ UNCHANGED <<receipts, boxes, noted, public>>
         /\ \/ row' = row /\ ~Busy(w)' /\ (pc'[w] # "idle" => job'[w] \in Run)
            \/ pc[w] = "claim" /\ \E r \in Run : Takes(w, r)
<1>1. ASSUME NEW r \in Run, Trigger(w, r) \/ Preview(w, r) \/ ResumeRun(w, r)
      PROVE  /\ UNCHANGED <<receipts, boxes, noted, public>>
             /\ row' = row /\ ~Busy(w)' /\ job'[w] \in Run
  BY <1>1 DEF Trigger, Preview, ResumeRun, Call, Go, TypeOK, ledger, Busy
<1>2. CASE Crash(w)
  BY <1>2, LeaveElsewhere DEF Crash, ledger, Busy
<1>3. CASE Read(w)
  <2>1. UNCHANGED <<ledger, public>>
    BY <1>3 DEF Read
  <2>2. CASE Leave(w)
    BY <2>1, <2>2, LeaveElsewhere DEF ledger, Busy
  <2>3. CASE ~Leave(w)
    <3>1. Go(w, "claim") /\ UNCHANGED job /\ pc[w] = "read"
      BY <1>3, <2>3, Zenon DEF Read
    <3>2. QED
      BY <2>1, <3>1 DEF Go, TypeOK, ledger, Busy, Claims
  <2>4. QED
    BY <2>2, <2>3
<1>4. CASE Claim(w)
  <2>1. UNCHANGED <<receipts, boxes, noted, public>> /\ pc[w] = "claim"
    BY <1>4 DEF Claim
  <2>2. CASE Leave(w) /\ UNCHANGED row
    BY <2>1, <2>2, LeaveElsewhere DEF Busy
  <2>3. CASE ~(Leave(w) /\ UNCHANGED row)
    <3>1. /\ row[job[w]].status \notin Final /\ ~Held(job[w])
          /\ row' = [row EXCEPT ![job[w]] = Taken(w, @)]
          /\ Go(w, "load") /\ UNCHANGED <<job, mode>>
      BY <1>4, <2>3, Zenon DEF Claim
    <3>2. job[w] \in Run
      BY <2>1 DEF Claims
    <3>3. Takes(w, job[w])
      BY <3>1 DEF Takes, Go
    <3>4. QED
      BY <2>1, <3>2, <3>3
  <2>4. QED
    BY <2>2, <2>3
<1>5. ASSUME Load(w) \/ Resolve(w) \/ Reuse(w) \/ Write(w) \/ MakeArt(w) \/ SkipNote(w) \/ PostNote(w)
             \/ FailDraft(w) \/ StartBatch(w) \/ Publish(w) \/ FailRun(w)
             \/ ScheduleRun(w) \/ CompleteRun(w) \/ CompletePreview(w)
      PROVE  FALSE
  BY <1>5 DEF Load, Resolve, Reuse, Write, MakeArt, SkipNote, PostNote, FailDraft, StartBatch, Publish,
     Refused, PostPlain, LoseAnswer, PostPodcast, OpenContainer, PublishContainer, Record, Turn,
     FailRun, ScheduleRun, CompleteRun, CompletePreview, Attempted, Busy
<1>6. QED
  BY <1>1, <1>2, <1>3, <1>4, <1>5, Zenon DEF Step, Work

Untouched(r) ==
  /\ row'[r] = row[r] /\ receipts'[r] = receipts[r] /\ boxes'[r] = boxes[r]
  /\ spent'[r] = spent[r] /\ posts'[r] = posts[r] /\ notes'[r] = notes[r]

\* A worker that holds a run touches no other run, and keeps its own, with its
\* status and attempt, until it leaves.
LEMMA BusyStep ==
  ASSUME TypeOK, Claims, NEW w \in Worker, Step(w), Busy(w)
  PROVE  /\ \/ pc'[w] = "idle"
            \/ (\A r \in Run : Steady(r)) /\ job' = job /\ mode' = mode /\ Busy(w)'
         /\ \A r \in Run \ {job[w]} : Untouched(r)
<1> DEFINE Goal == /\ pc'[w] = "idle" \/ (row' = row /\ job' = job /\ mode' = mode /\ Busy(w)')
                   /\ \A r \in Run \ {job[w]} : Untouched(r)
<1>a. CASE Resolve(w)
  BY <1>a, ResolveStep DEF Resolve, Busy, public, Untouched
<1>b. row' = row => \A r \in Run : Steady(r)
  BY DEF Steady
<1> SUFFICES Goal \/ Resolve(w)
  BY <1>a, <1>b
<1>0. ASSUME NEW place \in {"draft", "art", "note", "choose", "post", "record"}, Go(w, place)
      PROVE  Busy(w)'
  BY <1>0 DEF Go, TypeOK, Busy
<1>1. CASE Crash(w)
  BY <1>1, LeaveElsewhere DEF Crash, ledger, public, Untouched
<1>2. CASE Load(w)
  BY <1>0, <1>2 DEF Load, ledger, public, Untouched
<1>3. CASE Reuse(w) \/ Write(w)
  <2>1. \E place \in {"note", "art"} : \E md : Drafted(w, md, place)
    BY <1>3, Zenon DEF Reuse, Write
  <2>2. QED
    BY <1>0, <2>1 DEF Drafted, ledger, public, Untouched
<1>4. CASE MakeArt(w) \/ SkipNote(w)
  BY <1>0, <1>4 DEF MakeArt, SkipNote, ledger, public, Untouched
<1>5. CASE PostNote(w)
  <2>1. notes' = notes \/ notes' = [notes EXCEPT ![job[w]] = More(@)]
    BY <1>5, Zenon DEF PostNote
  <2>2. QED
    BY <1>0, <1>5, <2>1 DEF PostNote, Untouched, TypeOK
<1>6. CASE FailDraft(w)
  BY <1>6, LeaveElsewhere DEF FailDraft, public, Untouched, TypeOK
<1>7. CASE StartBatch(w)
  BY <1>0, <1>7 DEF StartBatch, ledger, public, Untouched
<1>8. ASSUME NEW c \in Channel, Turn(w, c), Answered(w) \/ ChannelFails(w, c)
      PROVE  /\ row' = row /\ job' = job /\ mode' = mode /\ Busy(w)'
             /\ receipts' = receipts /\ notes' = notes
  <2>1. CASE Answered(w)
    BY <1>0, <2>1 DEF Answered
  <2>2. CASE ChannelFails(w, c)
    BY <2>2 DEF ChannelFails, Busy
  <2>3. QED
    BY <1>8, <2>1, <2>2
<1>9. ASSUME NEW c \in Channel, Refused(w, c)
      PROVE  Goal
  BY <1>8, <1>9 DEF Refused, Untouched
<1>10. ASSUME NEW c \in Channel, PostPlain(w, c) \/ LoseAnswer(w, c)
       PROVE  Goal
  <2>1. /\ Turn(w, c) /\ Visible(w, c) /\ (Answered(w) \/ ChannelFails(w, c))
        /\ UNCHANGED <<boxes, spent, held>>
    BY <1>10, Zenon DEF PostPlain, LoseAnswer
  <2>2. \A r \in Run \ {job[w]} : posts'[r] = posts[r]
    BY <2>1 DEF Visible, TypeOK
  <2>3. QED
    BY <1>8, <2>1, <2>2 DEF Untouched
<1>11. ASSUME NEW c \in Channel, PostPodcast(w, c)
       PROVE  Goal
  <2>1. \A r \in Run \ {job[w]} : posts'[r] = posts[r]
    BY <1>11 DEF PostPodcast, TypeOK
  <2>2. Turn(w, c) /\ (Answered(w) \/ ChannelFails(w, c)) /\ UNCHANGED <<boxes, spent>>
    BY <1>11, Zenon DEF PostPodcast
  <2>3. QED
    BY <1>8, <2>1, <2>2 DEF Untouched
<1>12. ASSUME NEW c \in Channel, PublishContainer(w, c)
       PROVE  Goal
  <2>1. Turn(w, c) /\ Visible(w, c) /\ (Answered(w) \/ ChannelFails(w, c)) /\ UNCHANGED boxes
    BY <1>12, Zenon DEF PublishContainer
  <2>2. \A r \in Run \ {job[w]} : posts'[r] = posts[r] /\ spent'[r] = spent[r]
    BY <1>12, <2>1 DEF PublishContainer, Visible, TypeOK
  <2>3. QED
    BY <1>8, <2>1, <2>2 DEF Untouched
<1>13. ASSUME NEW c \in Channel, OpenContainer(w, c)
       PROVE  Goal
  BY <1>13 DEF OpenContainer, TypeOK, Untouched, Busy
<1>14. ASSUME NEW c \in Channel, Record(w, c)
       PROVE  Goal
  <2>1. /\ receipts' = receipts \/ receipts' = [receipts EXCEPT ![job[w]] = @ \cup {<<c, batch[w]>>}]
        /\ boxes' = boxes \/ boxes' = [boxes EXCEPT ![job[w]] = @ \ {<<c, batch[w]>>}]
        /\ row' = row /\ job' = job /\ mode' = mode /\ UNCHANGED public /\ Go(w, "post")
    BY <1>14, Zenon DEF Record
  <2>2. \A r \in Run \ {job[w]} : receipts'[r] = receipts[r] /\ boxes'[r] = boxes[r]
    BY <2>1 DEF TypeOK
  <2>3. QED
    BY <1>0, <2>1, <2>2 DEF Untouched, public
<1>15. CASE FailRun(w) \/ ScheduleRun(w) \/ CompleteRun(w) \/ CompletePreview(w)
  <2>1. \E status : Park(w, status)
    BY <1>15, Zenon DEF FailRun, ScheduleRun, CompleteRun, CompletePreview
  <2>2. pc'[w] = "idle" /\ UNCHANGED <<receipts, boxes, public>>
    BY <2>1, LeaveElsewhere DEF Park
  <2>3. \A r \in Run \ {job[w]} : row'[r] = row[r]
    BY <2>1 DEF Park, TypeOK
  <2>4. QED
    BY <2>2, <2>3 DEF Untouched, public
<1>16. ASSUME (\E r \in Run : Trigger(w, r) \/ Preview(w, r) \/ ResumeRun(w, r))
              \/ Read(w) \/ Claim(w)
       PROVE  FALSE
  BY <1>16 DEF Trigger, Preview, ResumeRun, Call, Read, Claim, Busy
<1>17. QED
  BY <1>1, <1>2, <1>3, <1>4, <1>5, <1>6, <1>7, <1>9, <1>10, <1>11, <1>12, <1>13, <1>14,
     <1>15, <1>16, Zenon DEF Step, Work, Publish

\* What the scheduler does to the rows without a worker.
Polled ==
  /\ UNCHANGED <<receipts, boxes, noted, public, pc, job, mode, loaded, known, work>>
  /\ \A r \in Run : /\ row'[r].status = row[r].status /\ row'[r].preview = row[r].preview
                    /\ row'[r].attempt = row[r].attempt
                    /\ row[r].status \in Final => row'[r] = row[r]
                    /\ row'[r].meta.drafts = row[r].meta.drafts

LEMMA PollStep ==
  ASSUME TypeOK, (\E r \in Run : GiveUp(r) \/ FallDue(r)) \/ OpenSlot \/ UNCHANGED vars
  PROVE  Polled
<1> USE DEF Polled
<1>1. ASSUME NEW r \in Run, GiveUp(r)
      PROVE  Polled
  <2>1. UNCHANGED <<receipts, boxes, noted, public, pc, job, mode, loaded, known, work>>
    BY <1>1 DEF GiveUp
  <2>2. row[r] \in Row /\ row[r].meta \in Metadata
    BY DEF TypeOK, Row
  <2> DEFINE x == [row[r] EXCEPT !.meta = [@ EXCEPT !.exhausted = TRUE]]
  <2>3. x.status = row[r].status /\ x.preview = row[r].preview
        /\ x.attempt = row[r].attempt /\ x.meta.drafts = row[r].meta.drafts
    BY <2>2 DEF Row, Metadata
  <2>4. row' = [row EXCEPT ![r] = x] /\ row[r].status \notin Final
    BY <1>1 DEF GiveUp, Resumable, Final
  <2> HIDE DEF x
  <2>5. QED
    BY <2>1, <2>3, <2>4 DEF TypeOK
<1>2. ASSUME NEW r \in Run, FallDue(r)
      PROVE  Polled
  <2>1. UNCHANGED <<receipts, boxes, noted, public, pc, job, mode, loaded, known, work>>
    BY <1>2 DEF FallDue
  <2>2. row[r] \in Row
    BY DEF TypeOK, Row
  <2> DEFINE x == [row[r] EXCEPT !.due = TRUE]
  <2>3. x.status = row[r].status /\ x.preview = row[r].preview
        /\ x.attempt = row[r].attempt /\ x.meta = row[r].meta
    BY <2>2 DEF Row
  <2>4. row' = [row EXCEPT ![r] = x] /\ row[r].status \notin Final
    BY <1>2 DEF FallDue, Final
  <2> HIDE DEF x
  <2>5. QED
    BY <2>1, <2>3, <2>4 DEF TypeOK
<1>3. CASE OpenSlot \/ UNCHANGED vars
  BY <1>3 DEF OpenSlot, vars, ledger
<1>4. QED
  BY <1>1, <1>2, <1>3

\* A step is a worker's or leaves the workers as they are.
LEMMA Steps ==
  ASSUME TypeOK, [Next]_vars
  PROVE  Polled \/ \E w \in Worker : Step(w)
BY PollStep, Zenon DEF Next, Step

-----------------------------------------------------------------------------
(* A claimed run has one worker.                                           *)

LEMMA ClaimsStep ==
  ASSUME TypeOK, Claims, [Next]_vars
  PROVE  Claims'
<1>1. CASE Polled
  BY <1>1 DEF Polled, Claims, Busy
<1>2. ASSUME NEW w \in Worker, Step(w)
      PROVE  Claims'
  <2>0. \A v \in Worker \ {w} : /\ pc'[v] = pc[v] /\ job'[v] = job[v] /\ mode'[v] = mode[v]
                                /\ Busy(v)' <=> Busy(v)
    BY <1>2, StepElsewhere DEF Elsewhere, Kept, Busy
  <2>1. CASE Busy(w)
    <3>1. \/ pc'[w] = "idle"
          \/ (\A r \in Run : Steady(r)) /\ job' = job /\ mode' = mode /\ Busy(w)'
      BY <1>2, <2>1, BusyStep
    <3>2. \A v \in Worker \ {w} : Busy(v) => row'[job[v]] = row[job[v]]
      BY <1>2, <2>1, BusyStep DEF Untouched, Claims, Busy
    <3>3. CASE pc'[w] = "idle"
      <4>1. ~Busy(w)'
        BY <3>3 DEF Busy
      <4>2. QED
        BY <2>0, <3>2, <3>3, <4>1 DEF Claims
    <3>4. CASE (\A r \in Run : Steady(r)) /\ job' = job /\ mode' = mode /\ Busy(w)'
      BY <2>0, <2>1, <3>4 DEF Claims, Busy, Steady
    <3>5. QED
      BY <3>1, <3>3, <3>4
  <2>2. CASE ~Busy(w)
    <3>1. CASE row' = row /\ ~Busy(w)' /\ (pc'[w] # "idle" => job'[w] \in Run)
      BY <2>0, <3>1 DEF Claims
    <3>2. ASSUME NEW r \in Run, Takes(w, r)
          PROVE  Claims'
      <4>1. /\ row'[r].status = "running" /\ row'[r].preview = (mode[w] = "preview")
            /\ \A q \in Run \ {r} : row'[q] = row[q]
        <5>1. /\ Taken(w, row[r]).status = "running"
              /\ Taken(w, row[r]).preview = (mode[w] = "preview")
          BY DEF Taken, TypeOK, Row
        <5>2. QED
          BY <3>2, <5>1 DEF Takes, TypeOK
      <4>2. \A v \in Worker : Busy(v) => job[v] # r
        BY <3>2 DEF Takes, Held
      <4>3. pc'[w] = "load" /\ job' = job /\ mode' = mode /\ job[w] = r
        BY <3>2 DEF Takes, TypeOK
      <4>4. \A v \in Worker \ {w} : Busy(v) => job[v] \in Run \ {r}
        BY <4>2 DEF Claims, Busy
      <4>5. \A v \in Worker : Busy(v)' =>
              row'[job'[v]].status = "running" /\ row'[job'[v]].preview = (mode'[v] = "preview")
        BY <2>0, <4>1, <4>3, <4>4 DEF Claims
      <4>6. \A v \in Worker : pc'[v] # "idle" => job'[v] \in Run
        BY <2>0, <4>3 DEF Claims
      <4>7. \A u, v \in Worker : Busy(u)' /\ Busy(v)' /\ job'[u] = job'[v] => u = v
        BY <2>0, <4>3, <4>4 DEF Claims
      <4>8. QED
        BY <4>5, <4>6, <4>7 DEF Claims
    <3>3. QED
      BY <1>2, <2>2, <3>1, <3>2, IdleStep
  <2>3. QED
    BY <2>1, <2>2
<1>3. QED
  BY <1>1, <1>2, Steps

\* A settled run is left alone by every step.
LEMMA SilentStep ==
  ASSUME TypeOK, Claims, [Next]_vars, NEW r \in Run, row[r].status \in Final
  PROVE  /\ row'[r] = row[r] /\ posts'[r] = posts[r] /\ notes'[r] = notes[r]
<1>1. CASE Polled
  BY <1>1 DEF Polled, public
<1>2. ASSUME NEW w \in Worker, Step(w)
      PROVE  row'[r] = row[r] /\ posts'[r] = posts[r] /\ notes'[r] = notes[r]
  <2>1. CASE Busy(w)
    <3>1. r # job[w]
      BY <2>1 DEF Claims, Final
    <3>2. QED
      BY <1>2, <2>1, <3>1, BusyStep DEF Untouched
  <2>2. CASE ~Busy(w)
    <3>1. row' = row \/ \E q \in Run : row[q].status \notin Final /\ row' = [row EXCEPT ![q] = Taken(w, @)]
      BY <1>2, <2>2, IdleStep DEF Takes
    <3>2. UNCHANGED public
      BY <1>2, <2>2, IdleStep
    <3>3. QED
      BY <3>1, <3>2 DEF public, TypeOK
  <2>3. QED
    BY <2>1, <2>2
<1>3. QED
  BY <1>1, <1>2, Steps

-----------------------------------------------------------------------------
(* What a worker knows.                                                    *)

\* No receipt is ever lost.
LEMMA ReceiptsGrow ==
  ASSUME TypeOK, Claims, [Next]_vars
  PROVE  /\ \A r \in Run : receipts[r] \subseteq receipts'[r]
         /\ \A r \in Run : Recent(r) \subseteq Recent(r)'
<1>1. \A r \in Run : receipts[r] \subseteq receipts'[r]
  <2>1. CASE Polled
    BY <2>1 DEF Polled
  <2>2. ASSUME NEW w \in Worker, Step(w), NEW r \in Run
        PROVE  receipts[r] \subseteq receipts'[r]
    <3>1. CASE \E c \in Channel : Record(w, c)
      <4>1. \/ receipts' = receipts
            \/ \E k : receipts' = [receipts EXCEPT ![job[w]] = @ \cup {k}]
        BY <3>1, Zenon DEF Record
      <4>2. CASE receipts' = receipts
        BY <4>2
      <4>3. ASSUME NEW k, receipts' = [receipts EXCEPT ![job[w]] = @ \cup {k}]
            PROVE  receipts[r] \subseteq receipts'[r]
        BY <4>3 DEF TypeOK
      <4>4. QED
        BY <4>1, <4>2, <4>3
    <3>2. CASE ~\E c \in Channel : Record(w, c)
      <4>1. receipts' = receipts
        BY <2>2, <3>2 DEF Step, Work, Publish, Trigger, Preview, ResumeRun, Call, Crash, Read, Claim,
           Load, Resolve, Reuse, Write, Drafted, MakeArt, FailDraft, SkipNote, PostNote, StartBatch,
           Refused, PostPlain, LoseAnswer, PostPodcast, OpenContainer, PublishContainer,
           ChannelFails, Answered, FailRun, ScheduleRun, CompleteRun, CompletePreview, Park,
           ledger
      <4>2. QED
        BY <4>1
    <3>3. QED
      BY <3>1, <3>2
  <2>3. QED
    BY <2>1, <2>2, Steps
<1>2. QED
  BY <1>1 DEF Recent

\* The other workers know what they knew.
LEMMA OthersKnow ==
  ASSUME TypeOK, Claims, [Next]_vars, NEW w \in Worker, Step(w),
         NEW v \in Worker \ {w}, Knows(v)
  PROVE  Knows(v)'
<1>1. /\ pc'[v] = pc[v] /\ job'[v] = job[v] /\ recent'[v] = recent[v]
      /\ known'[v] = known[v] /\ held'[v] = held[v] /\ batch'[v] = batch[v]
      /\ todo'[v] = todo[v]
  BY StepElsewhere DEF Elsewhere, Kept
<1>2. CASE ~Busy(v)
  BY <1>1, <1>2 DEF Knows, Busy, TypeOK
<1>3. CASE Busy(v)
  <2>1. PICK r \in Run : r = job[v]
    BY <1>3 DEF Claims, Busy
  <2>2. receipts'[r] = receipts[r] /\ boxes'[r] = boxes[r]
    <3>1. CASE Busy(w)
      BY <1>3, <2>1, <3>1, BusyStep DEF Untouched, Claims
    <3>2. CASE ~Busy(w)
      BY <3>2, IdleStep
    <3>3. QED
      BY <3>1, <3>2
  <2>3. Recent(r) \subseteq Recent(r)' /\ job'[v] = r
    BY <1>1, <2>1, ReceiptsGrow
  <2>4. /\ pc[v] \in {"draft", "art", "note", "choose"} =>
             receipts'[r] \subseteq known'[v] /\ held'[v] = boxes'[r]
        /\ pc[v] \in {"post", "record"} => batch'[v] \in Message
    BY <1>1, <2>1, <2>2 DEF Knows
  <2>5. ASSUME pc[v] \in {"post", "record"}
        PROVE  \A c \in todo[v] :
                 /\ ~Covers(receipts'[r], c, batch'[v])
                 /\ Covers(held'[v], c, batch'[v]) <=> Covers(boxes'[r], c, batch'[v])
    BY <1>1, <2>1, <2>2, <2>5 DEF Knows
  <2>6. ASSUME pc[v] \in {"draft", "art", "note", "choose", "post", "record"}
        PROVE  /\ recent'[v] \subseteq Recent(r)'
               /\ \A k \in known'[v] : k \in receipts'[r] \/ Suppressed(Recent(r)', k[1], k[2])
    BY <1>1, <2>1, <2>2, <2>3, <2>6 DEF Knows, Suppressed
  <2>7. QED
    BY <1>1, <2>3, <2>4, <2>5, <2>6 DEF Knows
<1>4. QED
  BY <1>2, <1>3

\* So does the worker itself.
LEMMA WorkerKnows ==
  ASSUME TypeOK, Claims, [Next]_vars, NEW w \in Worker, Step(w), Knows(w)
  PROVE  Knows(w)'
<1> USE ReleaseAssumption
<1> DEFINE Drafting == {"draft", "art", "note", "choose"}
           Posting == {"post", "record"}
<1>1. ASSUME pc'[w] \notin Drafting \cup Posting
      PROVE  Knows(w)'
  BY <1>1 DEF Knows
<1>2. CASE ~Busy(w)
  <2>1. CASE ~Busy(w)'
    BY <1>1, <2>1 DEF Busy
  <2>2. CASE \E r \in Run : Takes(w, r)
    <3>1. pc'[w] = "load"
      BY <2>2 DEF Takes, TypeOK
    <3>2. QED
      BY <1>1, <3>1
  <2>3. QED
    BY <1>2, <2>1, <2>2, IdleStep
<1>3. ASSUME Busy(w)
      PROVE  Knows(w)'
  <2>1. PICK r \in Run : r = job[w]
    BY <1>3 DEF Claims, Busy
  <2>2. CASE pc'[w] = "idle"
    BY <1>1, <2>2
  <2>3. CASE Load(w)
    <3>1. /\ pc'[w] = "draft" /\ job'[w] = r /\ known'[w] = receipts'[r] /\ held'[w] = boxes'[r]
      BY <2>1, <2>3 DEF Load, Go, TypeOK, ledger
    <3>2. recent'[w] = Recent(r)'
      BY <2>1, <2>3 DEF Load, TypeOK, ledger, Recent
    <3>3. QED
      BY <3>1, <3>2 DEF Knows
  <2>4. ASSUME UNCHANGED <<receipts, boxes, job, recent, known, held>>,
               pc[w] \in Drafting, pc'[w] \in Drafting
        PROVE  Knows(w)'
    <3>1. Recent(r)' = Recent(r) /\ job'[w] = r
      BY <2>1, <2>4 DEF Recent
    <3>2. QED
      BY <2>1, <2>4, <3>1 DEF Knows
  <2>5. ASSUME UNCHANGED <<receipts, boxes, job, recent, known, held, batch>>,
               pc[w] \in Posting, pc'[w] \in Posting, todo'[w] \subseteq todo[w]
        PROVE  Knows(w)'
    <3>1. Recent(r)' = Recent(r) /\ job'[w] = r
      BY <2>1, <2>5 DEF Recent
    <3>2. QED
      BY <2>1, <2>5, <3>1 DEF Knows
  <2>6. CASE Reuse(w) \/ Write(w)
    <3>0. \E place \in {"art", "note"} : \E md : Drafted(w, md, place) /\ pc[w] = "draft"
      BY <2>6, Zenon DEF Reuse, Write
    <3>1. PICK place \in {"art", "note"} : \E md : Drafted(w, md, place) /\ pc[w] = "draft"
      BY <3>0
    <3>1a. PICK md : Drafted(w, md, place)
      BY <3>1
    <3>2. /\ job'[w] = r /\ recent'[w] = recent[w] /\ held'[w] = held[w] /\ pc'[w] = place
          /\ known'[w] = known[w] \cup Repeats(w, md.drafts)
          /\ UNCHANGED <<receipts, boxes>>
      BY <2>1, <3>1a DEF Drafted, Go, TypeOK, loaded, ledger
    <3>3. Recent(r)' = Recent(r)
      BY <3>2 DEF Recent
    <3>4. \A k \in Repeats(w, md.drafts) : Suppressed(Recent(r), k[1], k[2])
      BY <2>1, <3>1 DEF Knows, Repeats, Suppressed
    <3>5. QED
      BY <2>1, <3>1, <3>2, <3>3, <3>4 DEF Knows
  <2>7. CASE MakeArt(w) \/ SkipNote(w) \/ PostNote(w)
    <3>1. /\ UNCHANGED <<receipts, boxes, job, loaded, known>> /\ pc[w] \in {"art", "note"}
          /\ \E place \in {"note", "choose"} : Go(w, place)
      BY <2>7, Zenon DEF MakeArt, SkipNote, PostNote, ledger
    <3>2. QED
      BY <2>4, <3>1 DEF Go, TypeOK, loaded
  <2>8. CASE StartBatch(w)
    <3>1. PICK m \in plan[w].drafts :
            /\ batch' = [batch EXCEPT ![w] = m]
            /\ \/ todo' = [todo EXCEPT ![w] = Missing(w, m)]
               \/ todo' = [todo EXCEPT ![w] = Missing(w, m) \ Illustrated]
      BY <2>8, Zenon DEF StartBatch
    <3>2. /\ pc[w] = "choose" /\ pc'[w] = "post" /\ batch'[w] = m /\ todo'[w] \subseteq Missing(w, m)
          /\ job'[w] = r /\ UNCHANGED <<receipts, boxes, recent, known, held>>
      BY <2>1, <2>8, <3>1 DEF StartBatch, Go, TypeOK, ledger, loaded
    <3>3. m \in Message
      BY DEF TypeOK, Metadata
    <3>4. Recent(r)' = Recent(r)
      BY <3>2 DEF Recent
    <3>5. receipts[r] \subseteq known[w] /\ held[w] = boxes[r]
      BY <2>1, <3>2 DEF Knows
    <3>6. \A c \in todo'[w] : ~Covers(receipts[r], c, m)
      BY <3>2, <3>5 DEF Missing, Covers
    <3>7. QED
      BY <2>1, <3>2, <3>3, <3>4, <3>5, <3>6 DEF Knows
  <2>9. ASSUME NEW c \in Channel, Refused(w, c) \/ PostPlain(w, c) \/ LoseAnswer(w, c)
                                  \/ PostPodcast(w, c) \/ PublishContainer(w, c)
        PROVE  Knows(w)'
    <3>1. /\ Turn(w, c) /\ UNCHANGED <<boxes, held>>
          /\ Answered(w) \/ ChannelFails(w, c)
      BY <2>9, Zenon DEF Refused, PostPlain, LoseAnswer, PostPodcast, PublishContainer
    <3>2. CASE Answered(w)
      BY <2>5, <3>1, <3>2 DEF Answered, Turn, Go, TypeOK, work
    <3>3. CASE ChannelFails(w, c)
      BY <2>5, <3>1, <3>3 DEF ChannelFails, Turn, TypeOK
    <3>4. QED
      BY <3>1, <3>2, <3>3
  <2>10. ASSUME NEW c \in Channel, OpenContainer(w, c)
         PROVE  Knows(w)'
    <3>1. /\ pc[w] = "post" /\ pc'[w] = "post" /\ job'[w] = r /\ batch'[w] = batch[w]
          /\ todo'[w] = todo[w] /\ UNCHANGED <<receipts, recent, known>>
      BY <2>1, <2>10 DEF OpenContainer, Turn, TypeOK, work
    <3>2. /\ held'[w] = held[w] \cup {<<c, batch[w]>>}
          /\ boxes'[r] = boxes[r] \cup {<<c, batch[w]>>}
      BY <2>1, <2>10 DEF OpenContainer, TypeOK
    <3>3. Recent(r)' = Recent(r)
      BY <3>1 DEF Recent
    <3>4. \A d \in todo[w] :
            Covers(held'[w], d, batch[w]) <=> Covers(boxes'[r], d, batch[w])
      BY <2>1, <3>1, <3>2 DEF Knows, Covers
    <3>5. QED
      BY <2>1, <3>1, <3>3, <3>4 DEF Knows
  <2>11. ASSUME NEW c \in Channel, Record(w, c)
         PROVE  Knows(w)'
    <3> DEFINE k == <<c, batch[w]>>
    <3>1. /\ pc[w] = "record" /\ pc'[w] = "post" /\ job'[w] = r /\ batch'[w] = batch[w]
          /\ todo'[w] = todo[w] \ {c} /\ recent' = recent /\ held' = held
      BY <2>1, <2>11 DEF Record, Go, TypeOK, loaded
    <3>2. /\ \/ receipts' = receipts /\ boxes' = boxes /\ known' = known
             \/ /\ receipts' = [receipts EXCEPT ![job[w]] = @ \cup {k}]
                /\ boxes' = [boxes EXCEPT ![job[w]] = @ \ {k}]
                /\ known' = known \/ known' = [known EXCEPT ![w] = @ \cup {k}]
      BY <2>11, Zenon DEF Record
    <3>3. \/ receipts'[r] = receipts[r] /\ boxes'[r] = boxes[r] /\ known'[w] = known[w]
          \/ /\ receipts'[r] = receipts[r] \cup {k} /\ boxes'[r] = boxes[r] \ {k}
             /\ known'[w] \subseteq known[w] \cup {k}
      BY <2>1, <3>2 DEF TypeOK
    <3>4. Recent(r) \subseteq Recent(r)' /\ batch[w] \in Message
      BY <2>1, <3>1, ReceiptsGrow DEF Knows
    <3>5. \A d \in todo'[w] :
            /\ ~Covers(receipts'[r], d, batch[w])
            /\ Covers(held[w], d, batch[w]) <=> Covers(boxes'[r], d, batch[w])
      <4> SUFFICES ASSUME NEW d \in todo[w], d # c
                   PROVE  /\ ~Covers(receipts'[r], d, batch[w])
                          /\ Covers(held[w], d, batch[w]) <=> Covers(boxes'[r], d, batch[w])
        BY <3>1
      <4>1. \A n : <<d, n>> # k
        OBVIOUS
      <4> HIDE DEF k
      <4>2. \A n : /\ <<d, n>> \in receipts'[r] <=> <<d, n>> \in receipts[r]
                   /\ <<d, n>> \in boxes'[r] <=> <<d, n>> \in boxes[r]
        BY <3>3, <4>1
      <4>3. /\ ~Covers(receipts[r], d, batch[w])
            /\ Covers(held[w], d, batch[w]) <=> Covers(boxes[r], d, batch[w])
        BY <2>1, <3>1 DEF Knows
      <4>4. QED
        BY <4>2, <4>3 DEF Covers
    <3>6. /\ recent[w] \subseteq Recent(r)'
          /\ \A x \in known'[w] : x \in receipts'[r] \/ Suppressed(Recent(r)', x[1], x[2])
      BY <2>1, <3>1, <3>3, <3>4 DEF Knows, Suppressed
    <3>7. QED
      BY <3>1, <3>4, <3>5, <3>6 DEF Knows
  <2>12. ASSUME Crash(w) \/ FailDraft(w) \/ FailRun(w) \/ ScheduleRun(w) \/ CompleteRun(w)
                \/ CompletePreview(w)
         PROVE  pc'[w] = "idle"
    BY <2>12, LeaveElsewhere DEF Crash, FailDraft, FailRun, ScheduleRun, CompleteRun,
       CompletePreview, Park
  <2>13. ASSUME (\E q \in Run : Trigger(w, q) \/ Preview(w, q) \/ ResumeRun(w, q))
                \/ Read(w) \/ Claim(w)
         PROVE  FALSE
    BY <1>3, <2>13 DEF Trigger, Preview, ResumeRun, Call, Read, Claim, Busy
  <2>14. CASE Resolve(w)
    BY <2>4, <2>14 DEF Resolve, loaded
  <2>15. QED
    BY <2>2, <2>3, <2>6, <2>7, <2>8, <2>9, <2>10, <2>11, <2>12, <2>13, <2>14, Zenon
       DEF Step, Work, Publish
<1>4. QED
  BY <1>2, <1>3

LEMMA KnowsStep ==
  ASSUME TypeOK, Claims, \A w \in Worker : Knows(w), [Next]_vars
  PROVE  \A w \in Worker : Knows(w)'
<1>1. ASSUME Polled, NEW w \in Worker
      PROVE  Knows(w)'
  <2>1. UNCHANGED <<receipts, boxes, pc, job, recent, known, held, batch, todo>>
    BY <1>1 DEF Polled, loaded, work
  <2>2. Recent(job[w])' = Recent(job[w])
    BY <2>1 DEF Recent
  <2>3. QED
    BY <2>1, <2>2 DEF Knows
<1>2. ASSUME NEW w \in Worker, Step(w)
      PROVE  \A v \in Worker : Knows(v)'
  BY <1>2, OthersKnow, WorkerKnows
<1>3. QED
  BY <1>1, <1>2, Steps

-----------------------------------------------------------------------------
(* What is posted.                                                         *)

\* The only posts are those of the channel whose turn it is.
LEMMA PostsStep ==
  ASSUME TypeOK, NEW w \in Worker, Step(w)
  PROVE  \/ posts' = posts
         \/ \E c \in Channel :
              /\ Turn(w, c)
              /\ \E n \in {1, 2} : posts' = [posts EXCEPT ![job[w]][<<c, batch[w]>>] = n]
              /\ row' = row /\ receipts' = receipts
<1>1. ASSUME NEW c \in Channel, PostPlain(w, c) \/ LoseAnswer(w, c) \/ PostPodcast(w, c)
                                \/ PublishContainer(w, c)
      PROVE  /\ Turn(w, c)
             /\ \E n \in {1, 2} : posts' = [posts EXCEPT ![job[w]][<<c, batch[w]>>] = n]
             /\ row' = row /\ receipts' = receipts
  <2>1. Turn(w, c) /\ (Answered(w) \/ ChannelFails(w, c)) /\ (Visible(w, c) \/ PostPodcast(w, c))
    BY <1>1, Zenon DEF PostPlain, LoseAnswer, PostPodcast, PublishContainer
  <2>2. row' = row /\ receipts' = receipts
    BY <2>1, Zenon DEF Answered, ChannelFails
  <2>3. \A n : More(n) \in {1, 2}
    BY DEF More
  <2>4. \E n \in {1, 2} : posts' = [posts EXCEPT ![job[w]][<<c, batch[w]>>] = n]
    BY <2>1, <2>3 DEF Visible, PostPodcast
  <2>5. QED
    BY <2>1, <2>2, <2>4
<1>2. CASE ~\E c \in Channel : PostPlain(w, c) \/ LoseAnswer(w, c) \/ PostPodcast(w, c)
                               \/ PublishContainer(w, c)
  BY <1>2 DEF Step, Work, Publish, Trigger, Preview, ResumeRun, Call, Crash, Read, Claim, Load,
     Resolve, Reuse, Write, Drafted, MakeArt, FailDraft, SkipNote, PostNote, StartBatch, Refused,
     OpenContainer, Record, FailRun, ScheduleRun, CompleteRun, CompletePreview, Park, public
<1>3. QED
  BY <1>1, <1>2

LEMMA RecordedStep ==
  ASSUME TypeOK, Claims, \A w \in Worker : Knows(w), [Next]_vars,
         NEW r \in Run, NEW k \in Key, Covers(receipts[r], k[1], k[2])
  PROVE  posts'[r][k] = posts[r][k]
<1>1. CASE Polled
  BY <1>1 DEF Polled, public
<1>2. ASSUME NEW w \in Worker, Step(w)
      PROVE  posts'[r][k] = posts[r][k]
  <2>1. CASE posts' = posts
    BY <2>1
  <2>2. ASSUME NEW c \in Channel, Turn(w, c), NEW n,
               posts' = [posts EXCEPT ![job[w]][<<c, batch[w]>>] = n]
        PROVE  posts'[r][k] = posts[r][k]
    <3>1. ~Covers(receipts[job[w]], c, batch[w])
      BY <2>2 DEF Turn, Knows
    <3>2. r # job[w] \/ k # <<c, batch[w]>>
      BY <3>1
    <3>3. posts[r] \in [Key -> 0..2] /\ DOMAIN posts = Run
      BY DEF TypeOK
    <3>4. QED
      BY <2>2, <3>2, <3>3
  <2>3. QED
    BY <1>2, <2>1, <2>2, PostsStep
<1>3. QED
  BY <1>1, <1>2, Steps

-----------------------------------------------------------------------------
(* Threads.                                                                *)

\* What is on Threads has a receipt, or a container that has been published.
Accounted ==
  \A r \in Run : \A c \in Threads : \A m \in Message :
    posts[r][<<c, m>>] # 0 =>
      /\ posts[r][<<c, m>>] = 1
      /\ \/ Covers(receipts[r], c, m)
         \/ Covers(boxes[r], c, m) /\ <<c, m>> \in spent[r]

LEMMA AccountedStep ==
  ASSUME TypeOK, Claims, \A w \in Worker : Knows(w), [Next]_vars, Accounted
  PROVE  Accounted'
<1> USE ReleaseAssumption
<1>1. CASE Polled
  BY <1>1 DEF Polled, public, Accounted
<1>2. ASSUME NEW w \in Worker, Step(w),
             NEW r \in Run, NEW t \in Threads, NEW m \in Message, posts'[r][<<t, m>>] # 0
      PROVE  /\ posts'[r][<<t, m>>] = 1
             /\ Covers(receipts'[r], t, m) \/ (Covers(boxes'[r], t, m) /\ <<t, m>> \in spent'[r])
  <2> DEFINE Goal == /\ posts'[r][<<t, m>>] = 1
                     /\ \/ Covers(receipts'[r], t, m)
                        \/ Covers(boxes'[r], t, m) /\ <<t, m>> \in spent'[r]
  <2>1. ASSUME posts'[r][<<t, m>>] = posts[r][<<t, m>>], receipts[r] \subseteq receipts'[r],
               Covers(boxes[r], t, m) => Covers(boxes'[r], t, m) \/ Covers(receipts'[r], t, m),
               <<t, m>> \in spent[r] /\ ~Covers(receipts'[r], t, m) => <<t, m>> \in spent'[r]
        PROVE  Goal
    <3>1. Covers(receipts[r], t, m) => Covers(receipts'[r], t, m)
      BY <2>1 DEF Covers
    <3>2. QED
      BY <1>2, <2>1, <3>1 DEF Accounted
  <2>2. CASE ~(Busy(w) /\ r = job[w])
    <3>1. /\ posts'[r] = posts[r] /\ receipts'[r] = receipts[r] /\ boxes'[r] = boxes[r]
          /\ spent'[r] = spent[r]
      BY <1>2, <2>2, IdleStep, BusyStep DEF Untouched, public
    <3>2. QED
      BY <2>1, <3>1
  <2>3. CASE Busy(w) /\ r = job[w]
    <3>1. /\ <<t, m>> \in Key /\ posts[r] \in [Key -> 0..2] /\ DOMAIN posts = Run
          /\ t \in Channel
      BY DEF TypeOK, Key
    <3>2. ASSUME NEW c \in Channel, OpenContainer(w, c)
          PROVE  Goal
      <4> DEFINE k == <<c, batch[w]>>
      <4>1. /\ posts' = posts /\ receipts' = receipts /\ boxes[r] \subseteq boxes'[r]
            /\ spent'[r] = spent[r] \ {k}
        BY <2>3, <3>2 DEF OpenContainer, TypeOK
      <4>2. /\ ~Covers(receipts[r], c, batch[w]) /\ ~Covers(boxes[r], c, batch[w])
        BY <2>3, <3>2 DEF OpenContainer, Turn, Knows
      <4>3. <<t, m>> # k
        BY <1>2, <4>1, <4>2 DEF Accounted
      <4>4. Covers(boxes[r], t, m) => Covers(boxes'[r], t, m)
        BY <4>1 DEF Covers
      <4> HIDE DEF k
      <4>5. QED
        BY <2>1, <4>1, <4>3, <4>4
    <3>3. ASSUME NEW c \in Channel, PublishContainer(w, c)
          PROVE  Goal
      <4> DEFINE k == <<c, batch[w]>>
      <4>1. /\ Turn(w, c) /\ c \in Threads /\ ~Covers(spent[r], c, batch[w])
            /\ Covers(held[w], c, batch[w])
            /\ posts' = [posts EXCEPT ![r][k] = More(@)]
            /\ spent' = [spent EXCEPT ![r] = @ \cup {k}]
            /\ boxes' = boxes
        BY <2>3, <3>3 DEF PublishContainer, Visible
      <4>2. receipts' = receipts
        BY <3>3, Zenon DEF PublishContainer, Answered, ChannelFails
      <4>3. /\ ~Covers(receipts[r], c, batch[w]) /\ Covers(boxes[r], c, batch[w])
            /\ batch[w] \in Message
        BY <2>3, <4>1 DEF Turn, Knows
      <4>4. k \notin spent[r]
        BY <4>1, <4>3 DEF Covers
      <4>5. k \in Key /\ posts[r][k] = 0
        BY <4>1, <4>3, <4>4 DEF Accounted, Key
      <4>6. spent'[r] = spent[r] \cup {k}
        BY <4>1 DEF TypeOK
      <4>7. CASE <<t, m>> = k
        <5>1. posts'[r][k] = 1
          BY <3>1, <4>1, <4>5 DEF More
        <5>2. Covers(boxes'[r], t, m)
          BY <4>1, <4>3, <4>7
        <5>3. QED
          BY <4>6, <4>7, <5>1, <5>2
      <4>8. CASE <<t, m>> # k
        <5>1. posts'[r][<<t, m>>] = posts[r][<<t, m>>]
          BY <3>1, <4>1, <4>8
        <5>2. QED
          BY <2>1, <4>1, <4>2, <4>6, <5>1
      <4>9. QED
        BY <4>7, <4>8
    <3>4. ASSUME NEW c \in Channel, Record(w, c)
          PROVE  Goal
      <4> DEFINE k == <<c, batch[w]>>
      <4>1. /\ posts' = posts /\ spent' = spent
            /\ \/ receipts' = receipts /\ boxes' = boxes
               \/ /\ receipts' = [receipts EXCEPT ![r] = @ \cup {k}]
                  /\ boxes' = [boxes EXCEPT ![r] = @ \ {k}]
        BY <2>3, <3>4, Zenon DEF Record, public
      <4>2. batch[w] \in Message
        BY <3>4 DEF Record, Knows
      <4>3. CASE receipts' = receipts /\ boxes' = boxes
        BY <2>1, <4>1, <4>3
      <4>4. CASE /\ receipts' = [receipts EXCEPT ![r] = @ \cup {k}]
                 /\ boxes' = [boxes EXCEPT ![r] = @ \ {k}]
        <5>1. receipts'[r] = receipts[r] \cup {k} /\ boxes'[r] = boxes[r] \ {k}
          BY <4>4 DEF TypeOK
        <5>2. Covers(boxes[r], t, m) => Covers(boxes'[r], t, m) \/ Covers(receipts'[r], t, m)
          BY <4>2, <5>1 DEF Covers
        <5>3. QED
          BY <2>1, <4>1, <5>1, <5>2
      <4>5. QED
        BY <4>1, <4>3, <4>4
    <3>5. CASE ~\E c \in Channel :
                  OpenContainer(w, c) \/ PublishContainer(w, c) \/ Record(w, c)
      <4>1. UNCHANGED <<receipts, boxes, spent>>
        BY <1>2, <3>5 DEF Step, Work, Publish, Trigger, Preview, ResumeRun, Call, Crash, Read,
           Claim, Load, Resolve, Reuse, Write, Drafted, MakeArt, FailDraft, SkipNote, PostNote,
           StartBatch, Refused, PostPlain, LoseAnswer, PostPodcast, ChannelFails, Answered,
           FailRun, ScheduleRun, CompleteRun, CompletePreview, Park, ledger, public
      <4>2. \/ posts' = posts
            \/ \E c \in Channel \ Threads :
                 \E n : posts' = [posts EXCEPT ![r][<<c, batch[w]>>] = n]
        <5>1. ASSUME NEW c \in Channel, PostPlain(w, c) \/ LoseAnswer(w, c) \/ PostPodcast(w, c)
              PROVE  /\ c \notin Threads
                     /\ \E n : posts' = [posts EXCEPT ![r][<<c, batch[w]>>] = n]
          <6>1. c \notin Threads
            BY <5>1 DEF PostPlain, LoseAnswer, PostPodcast
          <6>2. \E n : posts' = [posts EXCEPT ![job[w]][<<c, batch[w]>>] = n]
            BY <5>1, Zenon DEF PostPlain, LoseAnswer, PostPodcast, Visible
          <6>3. QED
            BY <2>3, <6>1, <6>2
        <5>2. CASE ~\E c \in Channel : PostPlain(w, c) \/ LoseAnswer(w, c) \/ PostPodcast(w, c)
          BY <1>2, <3>5, <5>2 DEF Step, Work, Publish, Trigger, Preview, ResumeRun, Call, Crash,
             Read, Claim, Load, Resolve, Reuse, Write, Drafted, MakeArt, FailDraft, SkipNote, PostNote,
             StartBatch, Refused, FailRun, ScheduleRun, CompleteRun, CompletePreview, Park, public
        <5>3. QED
          BY <5>1, <5>2
      <4>3. posts'[r][<<t, m>>] = posts[r][<<t, m>>]
        BY <3>1, <4>2
      <4>4. QED
        BY <2>1, <4>1, <4>3
    <3>6. QED
      BY <3>2, <3>3, <3>4, <3>5
  <2>4. QED
    BY <2>2, <2>3
<1>3. QED
  BY <1>1, <1>2, Steps DEF Accounted

-----------------------------------------------------------------------------
(* What is delivered.                                                      *)

\* A key found among those of another run is that of the same message, or of one
\* about the same page.
LEMMA CoveredOrSuppressed ==
  ASSUME NEW own \in SUBSET Key, NEW others \in SUBSET Key, NEW keys \in SUBSET Key,
         \A k \in keys : k \in own \/ Suppressed(others, k[1], k[2]),
         NEW c \in Channel, NEW m \in Message, Covers(keys, c, m)
  PROVE  Covers(own, c, m) \/ Suppressed(others, c, m)
<1> USE ReleaseAssumption
<1>1. PICK n \in Message : <<c, n>> \in keys /\ Identity(n) = Identity(m)
  BY DEF Covers
<1>2. CASE <<c, n>> \in own
  BY <1>1, <1>2 DEF Covers
<1>3. CASE Suppressed(others, c, n)
  <2>1. m \in Attributed <=> n \in Attributed
    BY <1>1 DEF Identity
  <2>2. IF m \in Attributed THEN n = m ELSE PageOf[n] = PageOf[m]
    BY <1>1, <2>1 DEF Identity
  <2>3. QED
    BY <1>3, <2>1, <2>2 DEF Suppressed
<1>4. QED
  BY <1>1, <1>2, <1>3

LEMMA DeliveredStep ==
  ASSUME TypeOK, Claims, \A w \in Worker : Knows(w), [Next]_vars, CompletedIsDelivered
  PROVE  CompletedIsDelivered'
<1> USE ReleaseAssumption
<1> SUFFICES ASSUME NEW r \in Run, row'[r].status = "completed", ~row'[r].preview,
                    NEW m \in row'[r].meta.drafts, NEW c \in ChannelsOf(m)
             PROVE  Covers(receipts'[r], c, m) \/ Suppressed(Recent(r)', c, m)
  BY DEF CompletedIsDelivered
<1>1. receipts[r] \subseteq receipts'[r] /\ Recent(r) \subseteq Recent(r)'
  BY ReceiptsGrow
<1>2. ASSUME Covers(receipts[r], c, m) \/ Suppressed(Recent(r), c, m)
      PROVE  Covers(receipts'[r], c, m) \/ Suppressed(Recent(r)', c, m)
  BY <1>1, <1>2 DEF Covers, Suppressed
<1>3. CASE row[r].status = "completed"
  <2>1. row'[r] = row[r]
    BY <1>3, SilentStep DEF Final
  <2>2. QED
    BY <1>2, <1>3, <2>1 DEF CompletedIsDelivered
<1>4. CASE row[r].status # "completed"
  <2>1. PICK w \in Worker : Step(w)
    BY <1>4, Steps DEF Polled
  <2>2. Busy(w) /\ r = job[w] /\ pc'[w] = "idle" /\ ~Steady(r)
    <3>1. CASE ~Busy(w)
      <4>1. PICK q \in Run : row' = [row EXCEPT ![q] = Taken(w, @)]
        BY <1>4, <2>1, <3>1, IdleStep DEF Takes
      <4>2. Taken(w, row[q]).status = "running"
        BY TakenTyped DEF TypeOK
      <4>3. QED
        BY <1>4, <4>1, <4>2 DEF TypeOK
    <3>2. CASE Busy(w)
      BY <1>4, <2>1, <3>2, BusyStep DEF Untouched, Steady
    <3>3. QED
      BY <3>1, <3>2
  <2>3. row[r] \in Row /\ row[r].meta \in Metadata /\ plan[w] \in Metadata
    BY DEF TypeOK, Row
  <2>4. ASSUME NEW status, Park(w, status)
        PROVE  /\ row'[r].status = status /\ row'[r].preview = (mode[w] = "preview")
               /\ row'[r].meta.drafts = plan[w].drafts
    <3> DEFINE md == [plan[w] EXCEPT !.exhausted = row[r].meta.exhausted]
               x == [row[r] EXCEPT !.status = status, !.due = (status # "scheduled"), !.meta = md]
    <3>1. md.drafts = plan[w].drafts
      BY <2>3 DEF Metadata
    <3> HIDE DEF md
    <3>2. x.status = status /\ x.preview = row[r].preview /\ x.meta = md
      BY <2>3 DEF Row
    <3>3. row' = [row EXCEPT ![r] = x]
      BY <2>2, <2>4 DEF Park, md
    <3> HIDE DEF x
    <3>4. row[r].preview = (mode[w] = "preview")
      BY <2>2 DEF Claims
    <3>5. QED
      BY <3>1, <3>2, <3>3, <3>4 DEF TypeOK
  <2>5. CASE CompleteRun(w)
    <3>1. /\ m \in plan[w].drafts /\ Pending(plan[w].drafts, known[w]) = {}
          /\ pc[w] \in {"post", "choose"}
      BY <2>4, <2>5 DEF CompleteRun, Attempted
    <3>2. m \in Message /\ c \in Channel
      BY <2>3, <3>1 DEF Metadata, ChannelsOf
    <3>3. Covers(known[w], c, m)
      <4>1. <<c, m>> \in Key /\ <<c, m>> \notin Pending(plan[w].drafts, known[w])
        BY <3>1, <3>2 DEF Key
      <4>2. QED
        BY <3>1, <4>1 DEF Pending
    <3>4. \A k \in known[w] : k \in receipts[r] \/ Suppressed(Recent(r), k[1], k[2])
      BY <2>2, <3>1 DEF Knows
    <3>5. known[w] \in SUBSET Key /\ receipts[r] \in SUBSET Key /\ Recent(r) \in SUBSET Key
      BY DEF TypeOK, Recent
    <3>6. QED
      BY <1>2, <3>2, <3>3, <3>4, <3>5, CoveredOrSuppressed
  <2>6. CASE CompletePreview(w)
    <3>1. mode[w] = "preview" /\ \E status : Park(w, status)
      BY <2>6, Zenon DEF CompletePreview, Live
    <3>2. QED
      BY <2>4, <3>1
  <2>7. CASE FailRun(w) \/ ScheduleRun(w)
    <3>1. Park(w, "failed") \/ Park(w, "scheduled")
      BY <2>7 DEF FailRun, ScheduleRun
    <3>2. QED
      BY <2>4, <3>1
  <2>8. CASE FailDraft(w)
    BY <2>2, <2>3, <2>8 DEF FailDraft, TypeOK, Row
  <2>9. CASE ~(CompleteRun(w) \/ CompletePreview(w) \/ FailRun(w) \/ ScheduleRun(w) \/ FailDraft(w))
    <3>1. row' = row \/ Resolve(w)
      BY <2>1, <2>2, <2>9 DEF Step, Work, Publish, Trigger, Preview, ResumeRun, Call, Crash, Read,
         Claim, Busy, Load, Reuse, Write, Drafted, MakeArt, SkipNote, PostNote, StartBatch,
         Refused, PostPlain, LoseAnswer, PostPodcast, OpenContainer, PublishContainer,
         ChannelFails, Answered, Record, ledger
    <3>2. QED
      BY <2>2, <3>1, ResolveStep DEF Steady
  <2>10. QED
    BY <2>5, <2>6, <2>7, <2>8, <2>9
<1>5. QED
  BY <1>3, <1>4

-----------------------------------------------------------------------------
(* The leases of the runs.                                                 *)

LeaseOf(w) == [run |-> job[w], attempt |-> row[job[w]].attempt]

Leases == {[run |-> job[w], attempt |-> row[job[w]].attempt] :
             w \in {v \in Worker : Busy(v)}}

Statuses == [r \in Run |-> row[r].status]
Attempts == [r \in Run |-> row[r].attempt]

LEMMA HoldersLeases ==
  /\ \A h : h \in Leases <=> \E w \in Worker : Busy(w) /\ h = LeaseOf(w)
  /\ \A h : h \in Leases' <=> \E w \in Worker : Busy(w)' /\ h = LeaseOf(w)'
BY DEF Leases, LeaseOf

\* When a worker lets go of its run, the run keeps its attempt and has a status.
LEMMA LettingGo ==
  ASSUME TypeOK, Claims, NEW w \in Worker, Step(w), Busy(w)
  PROVE  /\ row'[job[w]].attempt = row[job[w]].attempt
         /\ row'[job[w]].status \in Status \ {"absent"}
<1> DEFINE r == job[w]
           Goal == /\ row'[r].attempt = row[r].attempt
                   /\ row'[r].status \in Status \ {"absent"}
<1>1. r \in Run /\ row[r] \in Row /\ row[r].status = "running"
  BY DEF TypeOK, Claims, Busy
<1>2. CASE row' = row
  BY <1>1, <1>2 DEF Status
<1>3. CASE FailDraft(w)
  <2> DEFINE x == [row[r] EXCEPT !.status = "failed"]
  <2>1. x.attempt = row[r].attempt /\ x.status = "failed"
    BY <1>1 DEF Row
  <2>2. row' = [row EXCEPT ![r] = x]
    BY <1>3 DEF FailDraft
  <2> HIDE DEF x
  <2>3. QED
    BY <1>1, <2>1, <2>2 DEF TypeOK, Status
<1>4. ASSUME NEW s \in Status \ {"absent"}, Park(w, s)
      PROVE  Goal
  <2> DEFINE md == [plan[w] EXCEPT !.exhausted = row[r].meta.exhausted]
             x == [row[r] EXCEPT !.status = s, !.due = (s # "scheduled"), !.meta = md]
  <2>1. x.attempt = row[r].attempt /\ x.status = s
    BY <1>1 DEF Row
  <2>2. row' = [row EXCEPT ![r] = x]
    BY <1>4 DEF Park
  <2> HIDE DEF x
  <2>3. QED
    BY <1>1, <2>1, <2>2 DEF TypeOK
<1>5. CASE FailRun(w) \/ ScheduleRun(w) \/ CompleteRun(w) \/ CompletePreview(w)
  <2>1. {"failed", "scheduled", "rejected", "completed"} \subseteq Status \ {"absent"}
    BY DEF Status, Final
  <2>2. \E s \in Status \ {"absent"} : Park(w, s)
    BY <1>5, <2>1 DEF FailRun, ScheduleRun, CompleteRun, CompletePreview
  <2>3. QED
    BY <1>4, <2>2
<1>6. CASE ~(FailDraft(w) \/ FailRun(w) \/ ScheduleRun(w) \/ CompleteRun(w) \/ CompletePreview(w))
  <2>1. row' = row \/ Resolve(w)
    BY <1>6 DEF Step, Work, Publish, Trigger, Preview, ResumeRun, Call, Crash, Read,
       Claim, Busy, Load, Reuse, Write, Drafted, MakeArt, SkipNote, PostNote, StartBatch,
       Refused, PostPlain, LoseAnswer, PostPodcast, OpenContainer, PublishContainer,
       ChannelFails, Answered, Record, ledger
  <2>2. QED
    BY <1>1, <1>2, <2>1, ResolveStep DEF Steady, Status
<1>7. QED
  BY <1>3, <1>5, <1>6

\* A step of the runs is one of the lease, or none.
LEMMA LeaseStep ==
  ASSUME TypeOK, Claims, [Next]_vars
  PROVE  [Lease!Next]_(Lease!leaseVars)
<1>1. CASE Polled
  <2>1. Statuses' = Statuses /\ Attempts' = Attempts
    BY <1>1 DEF Polled, Statuses, Attempts
  <2>2. \A w \in Worker : Busy(w)' = Busy(w) /\ (Busy(w) => LeaseOf(w)' = LeaseOf(w))
    BY <1>1 DEF Polled, Busy, LeaseOf, Claims
  <2>3. Leases' = Leases
    BY <2>2, HoldersLeases
  <2>4. QED
    BY <2>1, <2>3 DEF Lease!leaseVars, Statuses, Attempts, Leases
<1>2. ASSUME NEW w \in Worker, Step(w)
      PROVE  [Lease!Next]_(Lease!leaseVars)
  <2>0. \A v \in Worker \ {w} : job'[v] = job[v] /\ (Busy(v)' <=> Busy(v))
    BY <1>2, StepElsewhere DEF Elsewhere, Kept, Busy
  <2>1. ASSUME \A r \in Run : Steady(r), Busy(w)' <=> Busy(w), Busy(w) => job'[w] = job[w]
        PROVE  UNCHANGED Lease!leaseVars
    <3>0. Statuses' = Statuses /\ Attempts' = Attempts
      BY <2>1 DEF Steady, Statuses, Attempts
    <3>1. \A v \in Worker : (Busy(v)' <=> Busy(v)) /\ (Busy(v) => LeaseOf(v)' = LeaseOf(v))
      BY <2>0, <2>1 DEF LeaseOf, Steady, Claims, Busy
    <3>2. Leases' = Leases
      BY <3>1, HoldersLeases
    <3>3. QED
      BY <3>0, <3>2 DEF Lease!leaseVars, Statuses, Attempts, Leases
  <2>2. ASSUME NEW r \in Run, Takes(w, r), ~Busy(w)
        PROVE  Lease!Grant(r)
    <3>1. row[r] \in Row /\ saved[w] \in Metadata
      BY DEF TypeOK
    <3>2. Taken(w, row[r]).status = "running" /\ Taken(w, row[r]).attempt = row[r].attempt + 1
      BY <3>1 DEF Taken, Row
    <3>3. row' = [row EXCEPT ![r] = Taken(w, row[r])]
      BY <2>2 DEF Takes
    <3>4. /\ Statuses[r] \notin Lease!FinalStatus
          /\ Statuses' = [Statuses EXCEPT ![r] = "running"]
          /\ Attempts' = [Attempts EXCEPT ![r] = @ + 1]
      <4> DEFINE x == Taken(w, row[r])
      <4>1. x.status = "running" /\ x.attempt = row[r].attempt + 1
            /\ row' = [row EXCEPT ![r] = x]
        BY <3>2, <3>3
      <4> HIDE DEF x
      <4>2. Statuses[r] \notin Lease!FinalStatus
        BY <2>2 DEF Takes, Statuses, Final, Lease!FinalStatus
      <4>3. Statuses' = [Statuses EXCEPT ![r] = "running"]
        BY <4>1 DEF TypeOK, Statuses
      <4>4. Attempts' = [Attempts EXCEPT ![r] = @ + 1]
        BY <4>1 DEF TypeOK, Attempts
      <4>5. QED
        BY <4>2, <4>3, <4>4
    <3>5. /\ Busy(w)' /\ LeaseOf(w)' = [run |-> r, attempt |-> Attempts[r] + 1]
      BY <2>2, <3>2, <3>3 DEF Takes, TypeOK, LeaseOf, Attempts, Busy
    <3>6. \A v \in Worker : Busy(v) => job[v] # r /\ LeaseOf(v)' = LeaseOf(v)
      BY <2>0, <2>2, <3>3 DEF Takes, Held, LeaseOf, TypeOK
    <3>7. Leases' = Leases \cup {[run |-> r, attempt |-> Attempts[r] + 1]}
      BY <2>0, <2>2, <3>5, <3>6, HoldersLeases
    <3>8. Lease!HoldersOf(r) = {}
      BY <3>6 DEF Lease!HoldersOf
    <3>9. QED
      BY <3>4, <3>7, <3>8 DEF Lease!Grant, Statuses, Attempts, Leases
  <2>3. CASE ~Busy(w)
    <3>1. CASE row' = row /\ ~Busy(w)'
      BY <2>1, <2>3, <3>1 DEF Steady
    <3>2. CASE \E r \in Run : Takes(w, r)
      BY <2>2, <2>3, <3>2 DEF Lease!Next
    <3>3. QED
      BY <1>2, <2>3, <3>1, <3>2, IdleStep
  <2>4. CASE Busy(w) /\ pc'[w] # "idle"
    BY <1>2, <2>1, <2>4, BusyStep
  <2>5. CASE Busy(w) /\ pc'[w] = "idle"
    <3> SUFFICES ASSUME NEW h, h = LeaseOf(w), NEW s, s = row'[job[w]].status
                 PROVE  Lease!Next
      OBVIOUS
    <3>1. job[w] \in Run /\ h \in Leases /\ ~Busy(w)' /\ h.run = job[w]
      BY <2>5, HoldersLeases DEF Claims, Busy, LeaseOf
    <3>2. \A q \in Run \ {job[w]} : row'[q] = row[q]
      BY <1>2, <2>5, BusyStep DEF Untouched
    <3>3. row'[job[w]].attempt = row[job[w]].attempt /\ s \in Status \ {"absent"}
      BY <1>2, <2>5, LettingGo
    <3>4. Statuses' = [Statuses EXCEPT ![h.run] = s] /\ Attempts' = Attempts
      BY <3>1, <3>2, <3>3 DEF Statuses, Attempts
    <3>5. \A v \in Worker \ {w} : Busy(v) => LeaseOf(v)' = LeaseOf(v) /\ LeaseOf(v) # h
      <4>1. ASSUME NEW v \in Worker \ {w}, Busy(v)
            PROVE  LeaseOf(v)' = LeaseOf(v) /\ LeaseOf(v) # h
        <5>1. job[v] \in Run \ {job[w]} /\ job'[v] = job[v]
          BY <2>0, <2>5, <4>1 DEF Claims, Busy
        <5>2. QED
          BY <3>2, <5>1 DEF LeaseOf
      <4>2. QED
        BY <4>1
    <3>6. Leases' = Leases \ {h}
      BY <2>0, <2>5, <3>1, <3>5, HoldersLeases
    <3>7. s \in Lease!LeaseStatus \ {"absent"}
      BY <3>3 DEF Status, Final, Lease!LeaseStatus, Lease!FinalStatus
    <3>8. Lease!Release(h, s)
      BY <3>1, <3>4, <3>6 DEF Lease!Release, Statuses, Attempts, Leases
    <3>9. QED
      BY <3>1, <3>7, <3>8 DEF Lease!Next, Leases
  <2>6. QED
    BY <2>3, <2>4, <2>5
<1>3. QED
  BY <1>1, <1>2, Steps

-----------------------------------------------------------------------------
(* The receipts of the runs.                                               *)

\* A worker that is about to store a receipt has posted on the channel whose turn
\* it is.
Answer(w) ==
  pc[w] = "record" =>
    \E c \in Channel : /\ c \in todo[w] /\ \A d \in todo[w] : Rank[c] <= Rank[d]
                       /\ posts[job[w]][<<c, batch[w]>>] > 0

\* w posts on the channel whose turn it is, and is answered.
LEMMA AnswersAreToPosts ==
  ASSUME TypeOK, Claims, \A w \in Worker : Knows(w), NEW w \in Worker, Step(w),
         pc'[w] = "record"
  PROVE  Answer(w)'
<1>1. ASSUME NEW c \in Channel, Turn(w, c), Answered(w), posts'[job[w]][<<c, batch[w]>>] > 0
      PROVE  Answer(w)'
  <2>1. UNCHANGED <<job, todo, batch>>
    BY <1>1 DEF Answered, work
  <2>2. QED
    BY <1>1, <2>1 DEF Turn, Answer
<1>2. ASSUME NEW c \in Channel, Turn(w, c)
      PROVE  /\ job[w] \in Run /\ <<c, batch[w]>> \in Key
             /\ posts[job[w]][<<c, batch[w]>>] \in 0..2
  <2>1. job[w] \in Run /\ batch[w] \in Message
    BY <1>2 DEF Turn, Claims, Knows
  <2>2. QED
    BY <2>1 DEF Key, TypeOK
<1>3. ASSUME NEW c \in Channel, Turn(w, c), Visible(w, c)
      PROVE  posts'[job[w]][<<c, batch[w]>>] > 0
  <2>1. \A n : More(n) > 0
    BY DEF More
  <2>2. posts' = [posts EXCEPT ![job[w]][<<c, batch[w]>>] = More(@)]
    BY <1>3 DEF Visible
  <2>3. posts'[job[w]][<<c, batch[w]>>] = More(posts[job[w]][<<c, batch[w]>>])
    BY <1>2, <1>3, <2>2 DEF TypeOK
  <2>4. QED
    BY <2>1, <2>3
<1>4. ASSUME NEW c \in Channel, ChannelFails(w, c), Turn(w, c)
      PROVE  FALSE
  BY <1>4 DEF ChannelFails, Turn
<1>5. ASSUME NEW c \in Channel, PostPlain(w, c) \/ PublishContainer(w, c)
      PROVE  Answer(w)'
  <2>1. Turn(w, c) /\ Visible(w, c) /\ (Answered(w) \/ ChannelFails(w, c))
    BY <1>5 DEF PostPlain, PublishContainer
  <2>2. QED
    BY <1>1, <1>3, <1>4, <2>1
<1>6. ASSUME NEW c \in Channel, PostPodcast(w, c)
      PROVE  Answer(w)'
  <2>1. /\ Turn(w, c) /\ (Answered(w) \/ ChannelFails(w, c))
        /\ posts' = [posts EXCEPT ![job[w]][<<c, batch[w]>>] = 1]
    BY <1>6 DEF PostPodcast
  <2>2. posts'[job[w]][<<c, batch[w]>>] > 0
    BY <1>2, <2>1 DEF TypeOK
  <2>3. QED
    BY <1>1, <1>4, <2>1, <2>2
<1>7. ASSUME NEW c \in Channel,
             Refused(w, c) \/ LoseAnswer(w, c) \/ OpenContainer(w, c) \/ Record(w, c)
      PROVE  FALSE
  <2>1. CASE Refused(w, c) \/ LoseAnswer(w, c)
    BY <1>4, <2>1 DEF Refused, LoseAnswer
  <2>2. CASE OpenContainer(w, c)
    BY <2>2 DEF OpenContainer, Turn
  <2>3. CASE Record(w, c)
    BY <2>3 DEF Record, Go, TypeOK
  <2>4. QED
    BY <1>7, <2>1, <2>2, <2>3
<1>8. ASSUME \/ \E r \in Run : Trigger(w, r) \/ Preview(w, r) \/ ResumeRun(w, r)
             \/ Crash(w) \/ Read(w) \/ Claim(w) \/ Load(w) \/ Resolve(w) \/ Reuse(w) \/ Write(w)
             \/ MakeArt(w) \/ FailDraft(w) \/ SkipNote(w) \/ PostNote(w) \/ StartBatch(w)
             \/ FailRun(w) \/ ScheduleRun(w) \/ CompleteRun(w) \/ CompletePreview(w)
      PROVE  FALSE
  <2>1. CASE Leave(w)
    BY <2>1, LeaveElsewhere
  <2>2. CASE ~Leave(w)
    <3>1. \E place \in Place \ {"record"} : Go(w, place)
      BY <1>8, <2>2 DEF Trigger, Preview, ResumeRun, Call, Crash, Read, Claim, Load, Resolve, Reuse,
         Write, Drafted, MakeArt, FailDraft, SkipNote, PostNote, StartBatch, FailRun,
         ScheduleRun, CompleteRun, CompletePreview, Park, Place
    <3>2. QED
      BY <3>1 DEF Go, TypeOK
  <2>3. QED
    BY <2>1, <2>2
<1>9. QED
  BY <1>5, <1>6, <1>7, <1>8, Zenon DEF Step, Work, Publish

LEMMA AnswersStep ==
  ASSUME TypeOK, Claims, \A w \in Worker : Knows(w), [Next]_vars,
         \A w \in Worker : Answer(w)
  PROVE  (\A w \in Worker : Answer(w))'
<1>1. CASE Polled
  BY <1>1 DEF Polled, public, work, Answer
<1>2. ASSUME NEW w \in Worker, Step(w), NEW v \in Worker
      PROVE  Answer(v)'
  <2>1. CASE v = w
    BY <1>2, <2>1, AnswersAreToPosts DEF Answer
  <2>2. CASE v # w /\ pc'[v] = "record"
    <3>1. /\ pc[v] = "record" /\ job'[v] = job[v]
          /\ todo'[v] = todo[v] /\ batch'[v] = batch[v]
      BY <1>2, <2>2, StepElsewhere DEF Elsewhere, Kept
    <3>2. job[v] \in Run /\ Busy(v)
      BY <3>1 DEF Claims, Busy
    <3>3. posts'[job[v]] = posts[job[v]]
      <4>1. CASE Busy(w)
        <5>1. job[v] # job[w]
          BY <2>2, <3>2, <4>1 DEF Claims
        <5>2. QED
          BY <1>2, <3>2, <4>1, <5>1, BusyStep DEF Untouched
      <4>2. CASE ~Busy(w)
        BY <1>2, <4>2, IdleStep DEF public
      <4>3. QED
        BY <4>1, <4>2
    <3>4. QED
      BY <3>1, <3>3 DEF Answer
  <2>3. QED
    BY <2>1, <2>2 DEF Answer
<1>3. QED
  BY <1>1, <1>2, Steps

\* The only receipt that is stored is that of the channel whose turn it is.
LEMMA ReceiptsStep ==
  ASSUME TypeOK, NEW w \in Worker, Step(w)
  PROVE  \/ receipts' = receipts
         \/ \E c \in Channel :
              /\ pc[w] = "record" /\ c \in todo[w] /\ \A d \in todo[w] : Rank[c] <= Rank[d]
              /\ receipts' = [receipts EXCEPT ![job[w]] = @ \cup {<<c, batch[w]>>}]
              /\ row' = row /\ posts' = posts
<1>1. ASSUME NEW c \in Channel, Record(w, c)
      PROVE  \/ receipts' = receipts
             \/ /\ pc[w] = "record" /\ c \in todo[w] /\ \A d \in todo[w] : Rank[c] <= Rank[d]
                /\ receipts' = [receipts EXCEPT ![job[w]] = @ \cup {<<c, batch[w]>>}]
                /\ row' = row /\ posts' = posts
  BY <1>1, Zenon DEF Record, public
<1>2. CASE ~\E c \in Channel : Record(w, c)
  BY <1>2 DEF Step, Work, Publish, Trigger, Preview, ResumeRun, Call, Crash, Read, Claim,
     Load, Resolve, Reuse, Write, Drafted, MakeArt, FailDraft, SkipNote, PostNote, StartBatch,
     Refused, PostPlain, LoseAnswer, PostPodcast, OpenContainer, PublishContainer,
     ChannelFails, Answered, FailRun, ScheduleRun, CompleteRun, CompletePreview, Park, ledger
<1>3. QED
  BY <1>1, <1>2

Closed == {r \in Run : row[r].status \in Final}

\* A step of the runs is one of the outbox, or none.
LEMMA OutboxStep ==
  ASSUME TypeOK, Claims, \A w \in Worker : Knows(w), \A w \in Worker : Answer(w),
         TypeOK', [Next]_vars
  PROVE  [Delivery!Next]_(Delivery!outboxVars)
<1> USE ReleaseAssumption
<1>0. Closed \subseteq Closed'
  BY SilentStep DEF Closed
<1>1. CASE Polled
  <2>1. Closed' = Closed
    BY <1>1 DEF Polled, Closed
  <2>2. QED
    BY <1>1, <2>1 DEF Polled, public, Delivery!outboxVars, Closed
<1>2. ASSUME NEW w \in Worker, Step(w)
      PROVE  [Delivery!Next]_(Delivery!outboxVars)
  <2>1. ASSUME NEW r \in Run, Busy(w), job[w] = r, row' = row
        PROVE  r \notin Closed /\ Closed' = Closed
    BY <2>1 DEF Claims, Closed, Final
  <2>2. ASSUME NEW c \in Channel, Turn(w, c), posts' # posts, NEW n \in {1, 2},
               posts' = [posts EXCEPT ![job[w]][<<c, batch[w]>>] = n],
               row' = row, receipts' = receipts
        PROVE  Delivery!Next
    <3>1. job[w] \in Run /\ batch[w] \in Message /\ Busy(w)
      BY <2>2 DEF Turn, Claims, Knows, Busy
    <3>2. ~Covers(receipts[job[w]], c, batch[w])
      BY <2>2 DEF Turn, Knows
    <3>3. PICK r \in Run, k \in Key : r = job[w] /\ k = <<c, batch[w]>>
      BY <3>1 DEF Key
    <3>4. k \notin receipts[r]
      BY <3>1, <3>2, <3>3 DEF Covers
    <3>5. r \notin Closed /\ Closed' = Closed
      BY <2>1, <2>2, <3>1, <3>3
    <3>6. Delivery!Post(r, k)
      BY <2>2, <3>3, <3>4, <3>5 DEF Delivery!Post, Closed
    <3>7. QED
      BY <3>3, <3>6 DEF Delivery!Next
  <2>3. ASSUME NEW c \in Channel, pc[w] = "record", c \in todo[w],
               \A d \in todo[w] : Rank[c] <= Rank[d],
               receipts' = [receipts EXCEPT ![job[w]] = @ \cup {<<c, batch[w]>>}],
               row' = row, posts' = posts
        PROVE  Delivery!Next
    <3>1. job[w] \in Run /\ batch[w] \in Message /\ Busy(w)
      BY <2>3 DEF Claims, Knows, Busy
    <3>2. PICK r \in Run, k \in Key : r = job[w] /\ k = <<c, batch[w]>>
      BY <3>1 DEF Key
    <3>3. PICK e \in Channel : /\ e \in todo[w] /\ \A d \in todo[w] : Rank[e] <= Rank[d]
                               /\ posts[job[w]][<<e, batch[w]>>] > 0
      BY <2>3 DEF Answer
    <3>4. e = c
      <4>1. Rank[c] \in Nat /\ Rank[e] \in Nat /\ Rank[c] <= Rank[e] /\ Rank[e] <= Rank[c]
        BY <2>3, <3>3
      <4>2. Rank[c] = Rank[e]
        BY <4>1
      <4>3. QED
        BY <4>2
    <3>5. posts[r][k] > 0
      BY <3>2, <3>3, <3>4
    <3>6. r \notin Closed /\ Closed' = Closed
      BY <2>1, <2>3, <3>1, <3>2
    <3>7. Delivery!Confirm(r, k)
      BY <2>3, <3>2, <3>5, <3>6 DEF Delivery!Confirm, Closed
    <3>8. QED
      BY <3>2, <3>7 DEF Delivery!Next
  <2>4. CASE posts' = posts /\ receipts' = receipts
    <3>1. CASE Closed' = Closed
      BY <2>4, <3>1 DEF Delivery!outboxVars, Closed
    <3>2. ASSUME NEW r \in Run, r \in Closed', r \notin Closed
          PROVE  Closed' = Closed \cup {r}
      <4>1. ASSUME NEW q \in Run, q # r, q \in Closed'
            PROVE  q \in Closed
        <5>1. CASE ~Busy(w)
          <6>1. row' = row \/ \E p \in Run : Takes(w, p)
            BY <1>2, <5>1, IdleStep
          <6>2. ASSUME NEW p \in Run, Takes(w, p)
                PROVE  row'[r].status \notin Final
            <7>1. Taken(w, row[p]).status = "running"
              BY TakenTyped DEF TypeOK
            <7>2. row'[r] = row[r] \/ row'[r] = Taken(w, row[p])
              BY <6>2 DEF Takes, TypeOK
            <7>3. QED
              BY <3>2, <7>1, <7>2 DEF Closed, Final
          <6>3. QED
            BY <3>2, <6>1, <6>2 DEF Closed
        <5>2. CASE Busy(w)
          <6>1. \A p \in Run \ {job[w]} : row'[p] = row[p]
            BY <1>2, <5>2, BusyStep DEF Untouched
          <6>2. r = job[w]
            BY <3>2, <6>1 DEF Closed
          <6>3. QED
            BY <4>1, <6>1, <6>2 DEF Closed
        <5>3. QED
          BY <5>1, <5>2
      <4>2. QED
        BY <1>0, <3>2, <4>1 DEF Closed
    <3>3. CASE Closed' # Closed
      <4>1. PICK r \in Run : r \in Closed' /\ r \notin Closed
        BY <1>0, <3>3 DEF Closed
      <4>2. Closed' = Closed \cup {r}
        BY <3>2, <4>1
      <4>3. Delivery!Close(r)
        BY <2>4, <4>2 DEF Delivery!Close, Closed
      <4>4. QED
        BY <4>3 DEF Delivery!Next
    <3>4. QED
      BY <3>1, <3>3
  <2>5. CASE posts' # posts
    BY <1>2, <2>2, <2>5, PostsStep
  <2>6. CASE receipts' # receipts
    BY <1>2, <2>3, <2>6, ReceiptsStep
  <2>7. QED
    BY <2>4, <2>5, <2>6
<1>3. QED
  BY <1>1, <1>2, Steps

-----------------------------------------------------------------------------
(* The theorems.                                                           *)

\* The inductive invariant.
IInv ==
  /\ TypeOK /\ Claims /\ \A w \in Worker : Knows(w)
  /\ Accounted /\ CompletedIsDelivered

LEMMA InitIInv == Init => IInv
<1> SUFFICES ASSUME Init PROVE IInv
  OBVIOUS
<1> USE ReleaseAssumption
<1>1. TypeOK
  BY InitialRecords DEF Init, TypeOK, Place
<1>2. Claims /\ \A w \in Worker : Knows(w)
  BY DEF Init, Claims, Knows, Busy
<1>3. Accounted
  BY DEF Init, Accounted, Key
<1>4. CompletedIsDelivered
  BY DEF Init, CompletedIsDelivered, AbsentRow
<1>5. QED
  BY <1>1, <1>2, <1>3, <1>4 DEF IInv

LEMMA NextIInv == IInv /\ [Next]_vars => IInv'
<1> SUFFICES ASSUME IInv, [Next]_vars PROVE IInv'
  OBVIOUS
<1>1. TypeOK' /\ Claims'
  BY TypedStep, ClaimsStep DEF IInv
<1>2. (\A w \in Worker : Knows(w))'
  BY KnowsStep DEF IInv
<1>3. Accounted'
  BY AccountedStep DEF IInv
<1>4. CompletedIsDelivered'
  BY DeliveredStep DEF IInv
<1>5. QED
  BY <1>1, <1>2, <1>3, <1>4 DEF IInv

LEMMA Invariance == Spec => []IInv
BY InitIInv, NextIInv, PTL DEF Spec

\* The variables have their types (what the rows, receipts and workers of the
\* release runs may hold).
THEOREM TypeCorrect == Spec => []TypeOK
<1>1. IInv => TypeOK
  BY DEF IInv
<1>2. QED
  BY <1>1, Invariance, PTL

\* What a live run that is completed drafted is on all its channels: by a receipt
\* of its own or an announcement of another run (publish_destinations and the end
\* of run_release_comms).
THEOREM Delivered == Spec => []CompletedIsDelivered
<1>1. IInv => CompletedIsDelivered
  BY DEF IInv
<1>2. QED
  BY <1>1, Invariance, PTL

\* No message of a run is on Threads twice, although its answers may be lost, its
\* process may end and it may be called again (ThreadsPublishingProvider.publish).
THEOREM OnThreadsOnce == Spec => []ThreadsOnce
<1>1. IInv => ThreadsOnce
  <2> SUFFICES ASSUME IInv, NEW r \in Run, NEW c \in Threads, NEW m \in Message
               PROVE  posts[r][<<c, m>>] <= 1
    BY DEF ThreadsOnce
  <2>1. posts[r][<<c, m>>] = 0 \/ posts[r][<<c, m>>] = 1
    BY DEF IInv, Accounted
  <2>2. QED
    BY <2>1
<1>2. QED
  BY <1>1, Invariance, PTL

\* What has a receipt is not posted again (already_published).
THEOREM NotRepeated == Spec => RecordedNotRepeated
<1>1. IInv /\ [Next]_vars =>
        [\A r \in Run : \A k \in Key :
           Covers(receipts[r], k[1], k[2]) => posts'[r][k] = posts[r][k]]_vars
  BY RecordedStep DEF IInv
<1>2. QED
  BY <1>1, Invariance, PTL DEF Spec, RecordedNotRepeated

\* A run that is completed or rejected stays so and posts no more (claim_run).
THEOREM Silent == Spec => SettledIsSilent
<1>1. IInv /\ [Next]_vars =>
        [\A r \in Run : row[r].status \in Final =>
           row'[r] = row[r] /\ posts'[r] = posts[r] /\ notes'[r] = notes[r]]_vars
  BY SilentStep DEF IInv
<1>2. QED
  BY <1>1, Invariance, PTL DEF Spec, SettledIsSilent

\* What RunLease promises of a run is kept by the release runs: a run that is being
\* published is leased to that attempt alone until it is parked, ended or lost
\* (claim_run and complete_run as run_release_comms calls them).
THEOREM RunsAreLeased == Spec => ImplementsRunLease
<1>1. Init => Lease!Init
  BY DEF Init, AbsentRow, Busy, Lease!Init
<1>2. IInv /\ [Next]_vars => [Lease!Next]_(Lease!leaseVars)
  BY LeaseStep DEF IInv
<1>3. QED
  BY <1>1, <1>2, Invariance, PTL DEF Spec, ImplementsRunLease, Lease!Spec

\* The outbox: a receipt is stored only for what is public, what has one is not
\* posted again, and a settled run does neither (record_receipt and
\* already_published of publish_destinations, claim_run).
THEOREM RunsAreAnOutbox == Spec => ImplementsOutbox
<1>1. Init => Delivery!Init
  BY DEF Init, AbsentRow, Final, Delivery!Init
<1>2. Init => \A w \in Worker : Answer(w)
  BY DEF Init, Answer
<1>3. Spec => [](IInv /\ \A w \in Worker : Answer(w))
  <2>1. IInv /\ (\A w \in Worker : Answer(w)) /\ [Next]_vars => (\A w \in Worker : Answer(w))'
    BY AnswersStep DEF IInv
  <2>2. QED
    BY <1>2, <2>1, Invariance, PTL DEF Spec
<1>4. /\ IInv /\ \A w \in Worker : Answer(w)
      /\ IInv' /\ (\A w \in Worker : Answer(w))'
      /\ [Next]_vars
      => [Delivery!Next]_(Delivery!outboxVars)
  BY OutboxStep DEF IInv
<1>5. QED
  BY <1>1, <1>3, <1>4, PTL DEF Spec, ImplementsOutbox, Delivery!Spec
=============================================================================
