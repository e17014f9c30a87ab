------------------------- MODULE ContentQueue_proofs -------------------------
(***************************************************************************)
(* Proofs about ContentQueue, for any items, number of workers, days and   *)
(* edits.                                                                  *)
(*                                                                         *)
(* The file changes under a worker at any moment, so what is inductive is  *)
(* what a worker holds on to: the post of the entry it records, and the    *)
(* place of that entry in the file its write is computed from (Fact).      *)
(***************************************************************************)
EXTENDS ContentQueue, TLAPS

WorldTyped ==
  /\ file \in File
  /\ day \in Day
  /\ slot \in [Day -> {"absent", "running", "failed", "completed"}]
  /\ release \in [Day -> [status : {"absent", "running", "failed", "completed"},
                          saved : Item \cup {NoItem}]]
  /\ receipts \in SUBSET [item : Item, run : Day, on : Day]
  /\ posts \in [Item -> 0..2]
  /\ acts \in Nat

WorkerTyped ==
  /\ pc \in [Worker -> Place]
  /\ kind \in [Worker -> {"none", "daemon", "post", "preview", "draft", "retry"}]
  /\ own \in [Worker -> Day] /\ run \in [Worker -> Day]
  /\ entry \in [Worker -> Entry \cup {NoEntry}]
  /\ draft \in [Worker -> Entry \cup {NoEntry}]
  /\ seen \in [Worker -> File] /\ tries \in [Worker -> {0, 1}]
  /\ repeated \in [Worker -> BOOLEAN]
  /\ url \in [Worker -> BOOLEAN] /\ error \in [Worker -> BOOLEAN]

LEMMA Typed ==
  /\ TypeOK <=> WorldTyped /\ WorkerTyped
  /\ TypeOK' <=> WorldTyped' /\ WorkerTyped'
BY DEF TypeOK, WorldTyped, WorkerTyped

\* What worker w holds on to.
Fact(w) ==
  /\ pc[w] \in {"claim", "post", "settle", "write", "fetch", "put"} => entry[w] \in Entry
  /\ draft[w] # NoEntry => pc[w] \in {"fetch", "put"} /\ draft[w].item = entry[w].item
  /\ url[w] = TRUE => pc[w] = "settle" /\ posts[entry[w].item] > 0
  /\ pc[w] \in {"fetch", "put"} /\ draft[w] = NoEntry => posts[entry[w].item] > 0
  /\ pc[w] = "put" => Found(IF draft[w] # NoEntry THEN seen[w].backlog ELSE seen[w].drafted,
                            entry[w])

Facts == \A w \in Worker : Fact(w)

-----------------------------------------------------------------------------
(* Sequences, entries and files.                                           *)

LEMMA Entries ==
  /\ \A i \in Item, ready \in BOOLEAN :
       Fresh(i, ready) \in Entry /\ Fresh(i, ready).item = i
  /\ \A e \in Entry : /\ e.item \in Item /\ e.text \in 0..MaxText
                      /\ e.tail \in Nat /\ e.ready \in BOOLEAN
                      /\ Matches(e, e)
  /\ NoEntry \notin Entry
  /\ NoFile \in File
<1>1. 0 \in 0..MaxText
  BY ContentQueueAssumption
<1>2. NoEntry \notin Entry
  BY ContentQueueAssumption DEF NoEntry, Entry
<1>3. QED
  BY <1>1, <1>2 DEF Fresh, Entry, NoFile, File, Matches

InSection(s, e) == \E n \in DOMAIN s : s[n] = e

\* t lists the items of s.
Relisted(s, t) ==
  /\ t \in Seq(Entry) /\ DOMAIN t = DOMAIN s
  /\ \A n \in DOMAIN s : t[n].item = s[n].item

LEMMA WithoutKeeps ==
  ASSUME NEW S, NEW s \in Seq(S), NEW e
  PROVE  /\ Without(s, e) \in Seq(S)
         /\ \A x : InSection(s, x) /\ ~Matches(x, e) => InSection(Without(s, e), x)
         /\ \A n \in DOMAIN Without(s, e) : InSection(s, Without(s, e)[n])
<1>1. CASE ~Found(s, e)
  BY <1>1 DEF Without, InSection
<1>2. CASE Found(s, e)
  <2> DEFINE M(x) == Matches(x, e)
             t == [n \in 1..(Len(s) - 1) |->
                     IF \E m \in 1..n : M(s[m]) THEN s[n + 1] ELSE s[n]]
  <2>1. Without(s, e) = t
    BY <1>2 DEF Without
  <2>2. Len(s) \in Nat /\ DOMAIN s = 1..Len(s) /\ \A n \in 1..Len(s) : s[n] \in S
    OBVIOUS
  <2>3. PICK k \in 1..Len(s) : M(s[k])
    BY <1>2, <2>2 DEF Found
  <2> HIDE DEF M
  <2>4. Len(s) - 1 \in Nat
    BY <2>2, <2>3
  <2>5. \A n \in 1..(Len(s) - 1) : t[n] \in {s[n], s[n + 1]} /\ n + 1 \in 1..Len(s)
                                   /\ n \in 1..Len(s)
    BY <2>2
  <2>6. t \in Seq(S)
    <3>1. t \in [1..(Len(s) - 1) -> S]
      BY <2>2, <2>5
    <3> HIDE DEF t
    <3>2. QED
      BY <2>4, <3>1
  <2>7. ASSUME NEW x, InSection(s, x), ~M(x)
        PROVE  InSection(t, x)
    <3>1. PICK j \in 1..Len(s) : s[j] = x
      BY <2>2, <2>7 DEF InSection
    <3>2. CASE \E m \in 1..j : M(s[m])
      <4>1. j - 1 \in 1..(Len(s) - 1) /\ \E m \in 1..(j - 1) : M(s[m])
        BY <2>2, <2>7, <3>1, <3>2
      <4>2. t[j - 1] = s[j]
        BY <2>2, <4>1
      <4>3. QED
        BY <3>1, <4>1, <4>2 DEF InSection
    <3>3. CASE ~\E m \in 1..j : M(s[m])
      <4>1. j \in 1..(Len(s) - 1)
        BY <2>2, <2>3, <3>3
      <4>2. t[j] = s[j]
        BY <3>3, <4>1
      <4>3. QED
        BY <3>1, <4>1, <4>2 DEF InSection
    <3>4. QED
      BY <3>2, <3>3
  <2>8. \A n \in DOMAIN t : InSection(s, t[n])
    BY <2>2, <2>5 DEF InSection
  <2>9. QED
    BY <2>1, <2>6, <2>7, <2>8 DEF M
<1>3. QED
  BY <1>1, <1>2

LEMMA JoinedIs ==
  ASSUME NEW x \in Entry, NEW left \in Nat, NEW completes \in BOOLEAN
  PROVE  Joined(x, left, completes) \in Entry /\ Matches(Joined(x, left, completes), x)
<1> DEFINE ready == x.ready \/ (left > 0 /\ completes)
           tail == x.tail + left
<1>1. x = [item |-> x.item, text |-> x.text, tail |-> x.tail, ready |-> x.ready]
  BY DEF Entry
<1>2. Joined(x, left, completes) = [x EXCEPT !.tail = tail, !.ready = ready]
  BY DEF Joined
<1>3. tail \in Nat /\ tail >= x.tail /\ ready \in BOOLEAN
  BY Entries
<1> HIDE DEF ready, tail
<1>4. Joined(x, left, completes) =
        [item |-> x.item, text |-> x.text, tail |-> tail, ready |-> ready]
  BY <1>1, <1>2
<1>5. QED
  BY <1>3, <1>4, Entries DEF Entry, Matches

\* A cut lists what is left as Without does; each entry has its words and may go on.
LEMMA CutGrows ==
  ASSUME NEW s \in Seq(Entry), NEW e \in Entry, NEW completes \in BOOLEAN
  PROVE  /\ Relisted(Without(s, e), Cut(s, e, completes))
         /\ \A n \in DOMAIN Without(s, e) : Matches(Cut(s, e, completes)[n], Without(s, e)[n])
<1> DEFINE u == Without(s, e)
           t == Cut(s, e, completes)
<1>1. Len(s) \in Nat /\ DOMAIN s = 1..Len(s) /\ \A n \in 1..Len(s) : s[n] \in Entry
  OBVIOUS
<1>2. CASE ~Found(s, e)
  <2>1. u = s /\ t = s
    BY <1>2 DEF Without, Cut
  <2>2. \A n \in DOMAIN s : Matches(s[n], s[n])
    BY <1>1, Entries
  <2>3. QED
    BY <2>1, <2>2 DEF Relisted
<1>3. CASE Found(s, e)
  <2>1. u = [n \in 1..(Len(s) - 1) |->
               IF \E m \in 1..n : Matches(s[m], e) THEN s[n + 1] ELSE s[n]]
    BY <1>3 DEF Without
  <2>2. t = [n \in 1..(Len(s) - 1) |->
               IF \E m \in 1..n : Matches(s[m], e) THEN s[n + 1]
               ELSE IF Matches(s[n + 1], e)
                    THEN Joined(s[n], s[n + 1].tail - e.tail, completes) ELSE s[n]]
    BY <1>3 DEF Cut
  <2>3. Len(s) - 1 \in Nat
    BY <1>1, <1>3 DEF Found
  <2>4. ASSUME NEW n \in 1..(Len(s) - 1)
        PROVE  t[n] \in Entry /\ Matches(t[n], u[n])
    <3>1. n \in 1..Len(s) /\ n + 1 \in 1..Len(s)
      BY <1>1
    <3>2. s[n] \in Entry /\ s[n + 1] \in Entry /\ e \in Entry
      BY <1>1, <3>1
    <3>3. CASE \E m \in 1..n : Matches(s[m], e)
      <4>1. t[n] = s[n + 1] /\ u[n] = s[n + 1]
        BY <2>1, <2>2, <3>3
      <4>2. QED
        BY <3>2, <4>1, Entries
    <3>4. CASE ~(\E m \in 1..n : Matches(s[m], e)) /\ ~Matches(s[n + 1], e)
      <4>1. t[n] = s[n] /\ u[n] = s[n]
        BY <2>1, <2>2, <3>4
      <4>2. QED
        BY <3>2, <4>1, Entries
    <3>5. CASE ~(\E m \in 1..n : Matches(s[m], e)) /\ Matches(s[n + 1], e)
      <4>1. t[n] = Joined(s[n], s[n + 1].tail - e.tail, completes) /\ u[n] = s[n]
        BY <2>1, <2>2, <3>5
      <4>2. s[n + 1].tail - e.tail \in Nat
        BY <3>2, <3>5, Entries DEF Matches
      <4>3. ASSUME NEW x \in Entry, NEW left \in Nat
            PROVE  Joined(x, left, completes) \in Entry /\ Matches(Joined(x, left, completes), x)
        BY JoinedIs
      <4>4. QED
        BY <3>2, <4>1, <4>2, <4>3
    <3>6. QED
      BY <3>3, <3>4, <3>5
  <2>5. DOMAIN t = 1..(Len(s) - 1) /\ DOMAIN u = 1..(Len(s) - 1)
        /\ t = [n \in 1..(Len(s) - 1) |-> t[n]]
    BY <2>1, <2>2
  <2> HIDE DEF t, u
  <2>6. t \in [1..(Len(s) - 1) -> Entry]
    BY <2>4, <2>5
  <2>7. t \in Seq(Entry)
    BY <2>3, <2>6
  <2>8. QED
    BY <2>4, <2>5, <2>7 DEF Relisted, Matches, t, u
<1>4. QED
  BY <1>2, <1>3

LEMMA WithoutOnce ==
  ASSUME NEW s \in Seq(Entry), Distinct(s), NEW e, Found(s, e)
  PROVE  /\ Distinct(Without(s, e))
         /\ ~Holds(Without(s, e), e.item)
<1> DEFINE M(x) == Matches(x, e)
           t == [n \in 1..(Len(s) - 1) |->
                   IF \E m \in 1..n : M(s[m]) THEN s[n + 1] ELSE s[n]]
<1>1. Without(s, e) = t
  BY DEF Without
<1>2. Len(s) \in Nat /\ DOMAIN s = 1..Len(s)
  OBVIOUS
<1>3. PICK k \in 1..Len(s) : M(s[k])
  BY <1>2 DEF Found
<1>4. \A m, n \in 1..Len(s) : s[m].item = s[n].item => m = n
  BY <1>2 DEF Distinct
<1>5. \A m \in 1..Len(s) : M(s[m]) => s[m].item = e.item
  BY DEF Matches
<1> HIDE DEF M
<1>6. \A m \in 1..Len(s) : M(s[m]) <=> m = k
  BY <1>3, <1>4, <1>5
<1>7. s[k].item = e.item
  BY <1>3, <1>5
<1>8. \A n \in 1..(Len(s) - 1) :
        /\ n \in 1..Len(s) /\ n + 1 \in 1..Len(s)
        /\ n >= k => t[n] = s[n + 1]
        /\ n < k => t[n] = s[n]
  BY <1>2, <1>3, <1>6
<1>9. DOMAIN t = 1..(Len(s) - 1)
  OBVIOUS
<1> HIDE DEF t
<1>10. Distinct(t)
  <2> SUFFICES ASSUME NEW m \in 1..(Len(s) - 1), NEW n \in 1..(Len(s) - 1),
                      t[m].item = t[n].item
               PROVE  m = n
    BY <1>9 DEF Distinct
  <2>1. CASE m >= k /\ n >= k
    BY <1>2, <1>4, <1>8, <2>1
  <2>2. CASE m < k /\ n < k
    BY <1>2, <1>4, <1>8, <2>2
  <2>3. CASE m < k /\ n >= k
    BY <1>2, <1>4, <1>8, <2>3
  <2>4. CASE m >= k /\ n < k
    BY <1>2, <1>4, <1>8, <2>4
  <2>5. QED
    BY <1>2, <2>1, <2>2, <2>3, <2>4
<1>11. ~Holds(t, e.item)
  <2> SUFFICES ASSUME NEW n \in 1..(Len(s) - 1), t[n].item = e.item
               PROVE  FALSE
    BY <1>9 DEF Holds
  <2>1. QED
    BY <1>2, <1>3, <1>4, <1>7, <1>8
<1>12. QED
  BY <1>1, <1>10, <1>11 DEF t, M

LEMMA Appended ==
  ASSUME NEW S, NEW s \in Seq(S), NEW e \in S
  PROVE  /\ Append(s, e) \in Seq(S)
         /\ DOMAIN Append(s, e) = 1..(Len(s) + 1) /\ Len(s) \in Nat /\ DOMAIN s = 1..Len(s)
         /\ Append(s, e)[Len(s) + 1] = e
         /\ \A n \in 1..Len(s) : Append(s, e)[n] = s[n]
         /\ \A x : InSection(Append(s, e), x) <=> InSection(s, x) \/ x = e
<1>1. /\ Append(s, e) \in Seq(S)
      /\ DOMAIN Append(s, e) = 1..(Len(s) + 1) /\ Len(s) \in Nat /\ DOMAIN s = 1..Len(s)
      /\ Append(s, e)[Len(s) + 1] = e
      /\ \A n \in 1..Len(s) : Append(s, e)[n] = s[n]
  OBVIOUS
<1> DEFINE t == Append(s, e)
<1> HIDE DEF t
<1>2. \A x : InSection(t, x) <=> InSection(s, x) \/ x = e
  <2>1. DOMAIN t = 1..(Len(s) + 1) /\ t[Len(s) + 1] = e /\ \A n \in 1..Len(s) : t[n] = s[n]
    BY <1>1 DEF t
  <2>2. \A n \in 1..(Len(s) + 1) : n \in 1..Len(s) \/ n = Len(s) + 1
    BY <1>1
  <2>3. QED
    BY <1>1, <2>1, <2>2 DEF InSection
<1>3. QED
  BY <1>1, <1>2 DEF t

LEMMA Prepended ==
  ASSUME NEW S, NEW s \in Seq(S), NEW e \in S
  PROVE  /\ <<e>> \o s \in Seq(S)
         /\ DOMAIN (<<e>> \o s) = 1..(Len(s) + 1) /\ Len(s) \in Nat /\ DOMAIN s = 1..Len(s)
         /\ (<<e>> \o s)[1] = e
         /\ \A n \in 2..(Len(s) + 1) : n - 1 \in 1..Len(s) /\ (<<e>> \o s)[n] = s[n - 1]
OBVIOUS

LEMMA MovedDraft ==
  ASSUME WorkerTyped, NEW w \in Worker, NEW f \in File, NEW completes,
         entry[w] \in Entry, draft[w] # NoEntry
  PROVE  /\ Moved(w, f, completes) \in File
         /\ Moved(w, f, completes).backlog = Without(f.backlog, entry[w])
         /\ Moved(w, f, completes).drafted = Append(f.drafted, draft[w])
         /\ Moved(w, f, completes).posted = f.posted
<1> DEFINE b == Without(f.backlog, entry[w])
           d == Append(f.drafted, draft[w])
<1>1. draft[w] \in Entry
  BY DEF WorkerTyped
<1>2. b \in Seq(Entry) /\ d \in Seq(Entry)
  BY <1>1, WithoutKeeps, Appended DEF File
<1>3. Moved(w, f, completes) = [f EXCEPT !.backlog = b, !.drafted = d]
  BY DEF Moved, Drafting, File
<1> HIDE DEF b, d
<1>4. QED
  BY <1>2, <1>3 DEF File, b, d

LEMMA MovedPost ==
  ASSUME WorkerTyped, NEW w \in Worker, NEW f \in File, NEW completes \in BOOLEAN,
         entry[w] \in Entry, draft[w] = NoEntry
  PROVE  /\ Moved(w, f, completes) \in File
         /\ Moved(w, f, completes).backlog = f.backlog
         /\ Moved(w, f, completes).drafted = Cut(f.drafted, entry[w], completes)
         /\ Moved(w, f, completes).posted = <<entry[w].item>> \o f.posted
<1> DEFINE d == Cut(f.drafted, entry[w], completes)
           p == <<entry[w].item>> \o f.posted
<1>1. d \in Seq(Entry) /\ p \in Seq(Item)
  BY Entries, CutGrows, Prepended DEF File, Relisted
<1>2. Moved(w, f, completes) = [f EXCEPT !.drafted = d, !.posted = p]
  BY DEF Moved, Drafting, File
<1> HIDE DEF d, p
<1>3. QED
  BY <1>1, <1>2 DEF File, d, p

-----------------------------------------------------------------------------
(* Steps of one worker.                                                    *)

Only(w) ==
  \A v \in Worker : v # w =>
    /\ pc'[v] = pc[v] /\ entry'[v] = entry[v] /\ draft'[v] = draft[v]
    /\ url'[v] = url[v] /\ seen'[v] = seen[v]

Grow == \A i \in Item : posts[i] > 0 => posts'[i] > 0

LEMMA Frame ==
  ASSUME WorkerTyped, Facts, Grow, NEW w \in Worker, Only(w), Fact(w)'
  PROVE  Facts'
<1> SUFFICES ASSUME NEW v \in Worker, v # w
             PROVE  Fact(v)'
  BY DEF Facts
<1>1. Fact(v)
  BY DEF Facts
<1>2. /\ pc'[v] = pc[v] /\ entry'[v] = entry[v] /\ draft'[v] = draft[v]
      /\ url'[v] = url[v] /\ seen'[v] = seen[v]
  BY DEF Only
<1>3. entry[v] \in Entry => (posts[entry[v].item] > 0 => posts'[entry[v].item] > 0)
  BY Entries DEF Grow
<1>4. QED
  BY <1>1, <1>2, <1>3 DEF Fact

\* A worker that is done holds on to nothing.
LEMMA Forgotten ==
  ASSUME WorkerTyped, NEW w \in Worker, NEW place \in {"idle", "completed", "failed"},
         Go(w, place), Forget(w),
         \/ UNCHANGED <<kind, own>>
         \/ kind' = [kind EXCEPT ![w] = "none"] /\ own' = [own EXCEPT ![w] = 0]
  PROVE  WorkerTyped' /\ Only(w) /\ Fact(w)'
<1>1. 0 \in Day /\ NoFile \in File
  BY Entries, ContentQueueAssumption DEF Day
<1>2. WorkerTyped'
  <2>1. /\ pc' \in [Worker -> Place]
        /\ kind' \in [Worker -> {"none", "daemon", "post", "preview", "draft", "retry"}]
        /\ own' \in [Worker -> Day]
    BY <1>1 DEF WorkerTyped, Go, Place
  <2>2. /\ run' \in [Worker -> Day]
        /\ entry' \in [Worker -> Entry \cup {NoEntry}]
        /\ draft' \in [Worker -> Entry \cup {NoEntry}]
        /\ seen' \in [Worker -> File] /\ tries' \in [Worker -> {0, 1}]
    BY <1>1 DEF WorkerTyped, Forget
  <2>3. /\ repeated' \in [Worker -> BOOLEAN]
        /\ url' \in [Worker -> BOOLEAN] /\ error' \in [Worker -> BOOLEAN]
    BY DEF WorkerTyped, Forget
  <2>4. QED
    BY <2>1, <2>2, <2>3 DEF WorkerTyped
<1>3. Only(w)
  BY DEF WorkerTyped, Go, Forget, Only
<1>4. /\ pc'[w] = place /\ draft'[w] = NoEntry /\ url'[w] = FALSE
  BY DEF WorkerTyped, Go, Forget
<1>5. Fact(w)'
  BY <1>4 DEF Fact
<1>6. QED
  BY <1>2, <1>3, <1>5

LEMMA Left ==
  ASSUME WorkerTyped, NEW w \in Worker, NEW result \in {"completed", "failed"},
         Leave(w) \/ Finish(w, result)
  PROVE  WorkerTyped' /\ Only(w) /\ Fact(w)'
BY Forgotten DEF Leave, Finish

LEMMA QuitsKeep ==
  ASSUME TypeOK, Facts, NEW w \in Worker,
         \/ ReadNothing(w) \/ Raises(w) \/ Duplicate(w) \/ RunRaises(w)
         \/ NoDraft(w) \/ End(w) \/ Crash(w)
  PROVE  TypeOK' /\ Facts' /\ Grow /\ file' = file
<1>0. WorldTyped /\ WorkerTyped
  BY Typed
<1>1. Leave(w) \/ \E result \in {"completed", "failed"} : Finish(w, result)
  BY DEF ReadNothing, Raises, Duplicate, RunRaises, NoDraft, End, Crash
<1>2. WorkerTyped' /\ Only(w) /\ Fact(w)'
  BY <1>0, <1>1, Left
<1>3. /\ file' = file /\ day' = day /\ posts' = posts /\ receipts' = receipts
      /\ acts' \in Nat
  <2>1. CASE ReadNothing(w) \/ Duplicate(w) \/ NoDraft(w)
    BY <1>0, <2>1 DEF WorldTyped, ReadNothing, Duplicate, NoDraft, public
  <2>2. CASE Raises(w) \/ Crash(w)
    BY <1>0, <2>2 DEF WorldTyped, Raises, Crash, Acts, public
  <2>3. CASE RunRaises(w)
    BY <1>0, <2>3 DEF WorldTyped, RunRaises, Acts, public
  <2>4. CASE End(w)
    BY <1>0, <2>4 DEF WorldTyped, End, public
  <2>5. QED
    BY <2>1, <2>2, <2>3, <2>4
<1>4. slot' \in [Day -> {"absent", "running", "failed", "completed"}]
  <2>1. CASE End(w)
    BY <1>0, <2>1 DEF WorldTyped, End
  <2>2. CASE ~End(w)
    BY <1>0, <2>2 DEF WorldTyped, ReadNothing, Raises, Duplicate, RunRaises, NoDraft, Crash, rows
  <2>3. QED
    BY <2>1, <2>2
<1>5. release' \in [Day -> [status : {"absent", "running", "failed", "completed"},
                            saved : Item \cup {NoItem}]]
  <2>1. CASE RunRaises(w)
    BY <1>0, <2>1 DEF WorldTyped, RunRaises
  <2>2. CASE ~RunRaises(w)
    BY <1>0, <2>2 DEF WorldTyped, ReadNothing, Raises, Duplicate, End, NoDraft, Crash, rows
  <2>3. QED
    BY <2>1, <2>2
<1>6. WorldTyped'
  BY <1>0, <1>3, <1>4, <1>5 DEF WorldTyped
<1>7. Facts'
  BY <1>0, <1>2, <1>3, Frame DEF Grow
<1>8. QED
  BY <1>2, <1>3, <1>6, <1>7, Typed DEF Grow

\* Steps that take something up: nothing is posted or written.
LEMMA StartsKeep ==
  ASSUME TypeOK, Facts, NEW w \in Worker,
         \/ Claim(w) \/ Command(w) \/ (\E d \in Day : Retry(w, d))
         \/ ReadDrafted(w) \/ ReadBacklog(w) \/ ClaimRun(w) \/ Skip(w) \/ WriteDraft(w)
  PROVE  TypeOK' /\ Facts' /\ Grow /\ file' = file
<1>0. WorldTyped /\ WorkerTyped /\ Fact(w)
  BY Typed DEF Facts
<1>1. ASSUME file' = file, posts' = posts, WorldTyped', WorkerTyped', Only(w), Fact(w)'
      PROVE  TypeOK' /\ Facts' /\ Grow /\ file' = file
  BY <1>0, <1>1, Frame, Typed DEF Grow
<1>2. ASSUME NEW k \in {"daemon", "post", "preview", "draft"}, Start(w, k),
             own' \in [Worker -> Day], slot' \in [Day -> {"absent", "running", "failed", "completed"}],
             acts' \in Nat
      PROVE  TypeOK' /\ Facts' /\ Grow /\ file' = file
  <2>1. WorldTyped' /\ file' = file /\ posts' = posts
    BY <1>0, <1>2 DEF WorldTyped, Start, public
  <2>2. WorkerTyped'
    BY <1>0, <1>2 DEF WorkerTyped, Start, pass, Go, Place
  <2>3. Only(w) /\ pc'[w] = "read" /\ pc[w] = "idle" /\ url'[w] = url[w] /\ draft'[w] = draft[w]
    BY <1>0, <1>2 DEF WorkerTyped, Start, pass, Go, Only
  <2>4. Fact(w)'
    BY <1>0, <2>3 DEF Fact
  <2>5. QED
    BY <1>1, <2>1, <2>2, <2>3, <2>4
<1>3. CASE Claim(w)
  BY <1>0, <1>2, <1>3 DEF Claim, WorldTyped, WorkerTyped
<1>4. CASE Command(w)
  BY <1>0, <1>2, <1>4 DEF Command, Acts, WorldTyped, WorkerTyped
<1>5. ASSUME NEW d \in Day, Retry(w, d)
      PROVE  TypeOK' /\ Facts' /\ Grow /\ file' = file
  <2>1. Fresh(release[d].saved, TRUE) \in Entry
    BY <1>0, <1>5, Entries DEF Retry, WorldTyped
  <2>2. WorldTyped' /\ file' = file /\ posts' = posts
    BY <1>0, <1>5 DEF WorldTyped, Retry, rows, public
  <2>3. WorkerTyped'
    BY <1>0, <1>5, <2>1 DEF WorkerTyped, Retry, pass, Go, Place
  <2>4. /\ Only(w) /\ pc'[w] = "claim" /\ pc[w] = "idle" /\ url'[w] = url[w]
        /\ draft'[w] = draft[w] /\ entry'[w] \in Entry
    BY <1>0, <1>5, <2>1 DEF WorkerTyped, Retry, pass, Go, Only
  <2>5. Fact(w)'
    BY <1>0, <2>4 DEF Fact
  <2>6. QED
    BY <1>1, <2>2, <2>3, <2>4, <2>5
<1>6. CASE ReadDrafted(w)
  <2>1. PICK n \in DOMAIN file.drafted : entry' = [entry EXCEPT ![w] = file.drafted[n]]
    BY <1>6 DEF ReadDrafted
  <2>2. file.drafted[n] \in Entry
    BY <1>0 DEF WorldTyped, File
  <2>3. WorldTyped' /\ file' = file /\ posts' = posts
    BY <1>0, <1>6 DEF WorldTyped, ReadDrafted, rows, public
  <2>4. WorkerTyped'
    BY <1>0, <1>6, <2>1, <2>2 DEF WorkerTyped, WorldTyped, ReadDrafted, pass, Go, Place
  <2>5. /\ Only(w) /\ pc'[w] = "claim" /\ pc[w] = "read" /\ url'[w] = url[w]
        /\ draft'[w] = draft[w] /\ entry'[w] \in Entry
    BY <1>0, <1>6, <2>1, <2>2 DEF WorkerTyped, ReadDrafted, pass, Go, Only
  <2>6. Fact(w)'
    BY <1>0, <2>5 DEF Fact
  <2>7. QED
    BY <1>1, <2>3, <2>4, <2>5, <2>6
<1>7. CASE ReadBacklog(w)
  <2>1. PICK n \in DOMAIN file.backlog : entry' = [entry EXCEPT ![w] = file.backlog[n]]
    BY <1>7 DEF ReadBacklog
  <2>2. file.backlog[n] \in Entry
    BY <1>0 DEF WorldTyped, File
  <2>3. WorldTyped' /\ file' = file /\ posts' = posts
    BY <1>0, <1>7 DEF WorldTyped, ReadBacklog, rows, public
  <2>4. WorkerTyped'
    BY <1>0, <1>7, <2>1, <2>2 DEF WorkerTyped, ReadBacklog, pass, Go, Place
  <2>5. /\ Only(w) /\ pc'[w] = "write" /\ pc[w] = "read" /\ url'[w] = url[w]
        /\ draft'[w] = draft[w] /\ entry'[w] \in Entry
    BY <1>0, <1>7, <2>1, <2>2 DEF WorkerTyped, ReadBacklog, pass, Go, Only
  <2>6. Fact(w)'
    BY <1>0, <2>5 DEF Fact
  <2>7. QED
    BY <1>1, <2>3, <2>4, <2>5, <2>6
<1>8. CASE ClaimRun(w)
  <2>1. WorldTyped' /\ file' = file /\ posts' = posts
    BY <1>0, <1>8 DEF WorldTyped, ClaimRun, public
  <2>2. /\ pc' \in [Worker -> Place]
        /\ pc'[w] \in {"settle", "post"} /\ pc[w] = "claim"
        /\ \A v \in Worker : v # w => pc'[v] = pc[v]
    BY <1>0, <1>8 DEF WorkerTyped, ClaimRun, Go, Place
  <2>3. /\ url' \in [Worker -> BOOLEAN] /\ error' \in [Worker -> BOOLEAN]
        /\ url'[w] = FALSE /\ \A v \in Worker : v # w => url'[v] = url[v]
    BY <1>0, <1>8 DEF WorkerTyped, ClaimRun
  <2>4. repeated' \in [Worker -> BOOLEAN]
    <3>1. Repeats(entry[w].item, run[w]) \in BOOLEAN
      BY DEF Repeats
    <3>2. QED
      BY <1>0, <1>8, <3>1 DEF WorkerTyped, ClaimRun
  <2>5. job' = job /\ seen' = seen /\ tries' = tries
    BY <1>8 DEF ClaimRun
  <2>6. WorkerTyped'
    BY <1>0, <2>2, <2>3, <2>4, <2>5 DEF WorkerTyped, job
  <2>7. Only(w) /\ Fact(w)'
    BY <1>0, <2>2, <2>3, <2>5 DEF Only, Fact, job
  <2>8. QED
    BY <1>1, <2>1, <2>6, <2>7
<1>9. CASE Skip(w)
  <2>1. WorldTyped' /\ file' = file /\ posts' = posts
    BY <1>0, <1>9 DEF WorldTyped, Skip, rows, public
  <2>2. WorkerTyped'
    BY <1>0, <1>9 DEF WorkerTyped, Skip, job, pass, Go, Place
  <2>3. Only(w) /\ Fact(w)'
    BY <1>0, <1>9 DEF WorkerTyped, Only, Fact, Skip, job, pass, Go
  <2>4. QED
    BY <1>1, <2>1, <2>2, <2>3
<1>10. CASE WriteDraft(w)
  <2>1. WorldTyped' /\ file' = file /\ posts' = posts
    BY <1>0, <1>10 DEF WorldTyped, WriteDraft, rows, public
  <2>2. PICK ready \in BOOLEAN : draft' = [draft EXCEPT ![w] = Fresh(entry[w].item, ready)]
    BY <1>10 DEF WriteDraft
  <2>3. entry[w] \in Entry
    BY <1>0, <1>10 DEF Fact, WriteDraft
  <2>4. Fresh(entry[w].item, ready) \in Entry /\ Fresh(entry[w].item, ready).item = entry[w].item
    BY <2>3, Entries
  <2>5. WorkerTyped'
    BY <1>0, <1>10, <2>2, <2>4 DEF WorkerTyped, WriteDraft, pass, Go, Place
  <2>6. /\ Only(w) /\ pc'[w] = "fetch" /\ pc[w] = "write" /\ url'[w] = url[w]
        /\ draft'[w] = Fresh(entry[w].item, ready) /\ entry'[w] = entry[w]
    BY <1>0, <1>10, <2>2 DEF WorkerTyped, WriteDraft, pass, Go, Only
  <2>7. Fact(w)'
    BY <1>0, <2>3, <2>4, <2>6, Entries DEF Fact
  <2>8. QED
    BY <1>1, <2>1, <2>5, <2>6, <2>7
<1>11. QED
  BY <1>3, <1>4, <1>5, <1>6, <1>7, <1>8, <1>9, <1>10

\* A post is seen, or its answer is lost.
LEMMA PostsKeep ==
  ASSUME TypeOK, Facts, NEW w \in Worker, Post(w) \/ PostFails(w) \/ ChannelFails(w)
  PROVE  TypeOK' /\ Facts' /\ Grow /\ file' = file
<1>0. WorldTyped /\ WorkerTyped /\ Fact(w)
  BY Typed DEF Facts
<1>1. /\ entry[w] \in Entry /\ entry[w].item \in Item
      /\ pc[w] \in {"post", "settle"} /\ draft[w] = NoEntry
  <2>1. pc[w] \in {"post", "settle"}
    BY DEF Post, PostFails, ChannelFails
  <2>2. QED
    BY <1>0, <2>1, Entries DEF Fact
<1>2. ASSUME Visible(w)
      PROVE  posts' \in [Item -> 0..2] /\ Grow /\ posts'[entry[w].item] > 0
  <2> DEFINE i == entry[w].item
  <2>1. posts' = [posts EXCEPT ![i] = Least(posts[i] + 1, 2)]
    BY <1>2 DEF Visible
  <2>2. i \in Item /\ posts \in [Item -> 0..2]
    BY <1>0, <1>1 DEF WorldTyped
  <2> HIDE DEF i
  <2>3. Least(posts[i] + 1, 2) \in 0..2 /\ Least(posts[i] + 1, 2) > 0
    BY <2>2 DEF Least
  <2>4. posts' \in [Item -> 0..2] /\ Grow /\ posts'[i] > 0
    BY <2>1, <2>2, <2>3 DEF Grow
  <2>5. QED
    BY <2>4 DEF i
<1>3. UNCHANGED posts => posts' \in [Item -> 0..2] /\ Grow
  BY <1>0 DEF WorldTyped, Grow
<1>4. file' = file /\ day' = day /\ rows' = rows /\ acts' \in Nat /\ job' = job
      /\ seen' = seen /\ tries' = tries /\ repeated' = repeated
  <2>1. CASE Post(w)
    BY <1>0, <2>1 DEF WorldTyped, Post
  <2>2. CASE PostFails(w)
    BY <1>0, <2>2 DEF WorldTyped, PostFails, Acts
  <2>3. CASE ChannelFails(w)
    BY <1>0, <2>3 DEF WorldTyped, ChannelFails, Acts
  <2>4. QED
    BY <2>1, <2>2, <2>3
<1>5. receipts' \in SUBSET [item : Item, run : Day, on : Day]
  <2>1. CASE Post(w)
    <3>1. [item |-> entry[w].item, run |-> run[w], on |-> day] \in [item : Item, run : Day, on : Day]
      BY <1>0, <1>1 DEF WorldTyped, WorkerTyped
    <3>2. QED
      BY <1>0, <2>1, <3>1 DEF WorldTyped, Post
  <2>2. CASE PostFails(w) \/ ChannelFails(w)
    BY <1>0, <2>2 DEF WorldTyped, PostFails, ChannelFails, public
  <2>3. QED
    BY <2>1, <2>2
<1>6. posts' \in [Item -> 0..2] /\ Grow /\ (Post(w) => posts'[entry[w].item] > 0)
  <2>1. Post(w) => Visible(w)
    BY DEF Post
  <2>2. Visible(w) \/ UNCHANGED posts
    BY DEF Post, PostFails, ChannelFails, public
  <2>3. QED
    BY <1>2, <1>3, <2>1, <2>2
<1>7. WorldTyped'
  BY <1>0, <1>4, <1>5, <1>6 DEF WorldTyped, rows
<1>8. /\ pc' \in [Worker -> Place] /\ pc'[w] = "settle"
      /\ \A v \in Worker : v # w => pc'[v] = pc[v]
  <2>1. CASE Post(w) \/ PostFails(w)
    BY <1>0, <2>1 DEF WorkerTyped, Post, PostFails, Go, Place
  <2>2. CASE ChannelFails(w)
    BY <1>0, <2>2 DEF WorkerTyped, ChannelFails
  <2>3. QED
    BY <2>1, <2>2
<1>9. /\ url' \in [Worker -> BOOLEAN] /\ error' \in [Worker -> BOOLEAN]
      /\ \A v \in Worker : v # w => url'[v] = url[v]
      /\ Post(w) \/ url'[w] = url[w]
  <2>1. CASE Post(w)
    BY <1>0, <2>1 DEF WorkerTyped, Post
  <2>2. CASE PostFails(w)
    BY <1>0, <2>2 DEF WorkerTyped, PostFails
  <2>3. CASE ChannelFails(w)
    BY <1>0, <2>3 DEF WorkerTyped, ChannelFails
  <2>4. QED
    BY <2>1, <2>2, <2>3
<1>10. WorkerTyped' /\ Only(w)
  <2>1. WorkerTyped'
    BY <1>0, <1>4, <1>8, <1>9 DEF WorkerTyped, job
  <2>2. QED
    BY <1>4, <1>8, <1>9, <2>1 DEF Only, job
<1>11. Fact(w)'
  <2>1. entry' = entry /\ draft' = draft
    BY <1>4 DEF job
  <2>2. posts[entry[w].item] > 0 => posts'[entry[w].item] > 0
    BY <1>1, <1>6 DEF Grow
  <2>3. QED
    BY <1>0, <1>1, <1>6, <1>8, <1>9, <2>1, <2>2 DEF Fact
<1>12. QED
  BY <1>0, <1>4, <1>6, <1>7, <1>10, <1>11, Frame, Typed

\* The settled run is handed over to be recorded only with a post to show for it.
LEMMA SettleKeeps ==
  ASSUME TypeOK, Facts, NEW w \in Worker, Settle(w)
  PROVE  TypeOK' /\ Facts' /\ Grow /\ file' = file
<1>0. WorldTyped /\ WorkerTyped /\ Fact(w)
  BY Typed DEF Facts
<1>1. /\ pc[w] = "settle" /\ entry[w] \in Entry /\ entry[w].item \in Item
      /\ draft[w] = NoEntry
  <2>1. pc[w] = "settle"
    BY DEF Settle
  <2>2. QED
    BY <1>0, <2>1, Entries DEF Fact
<1>2. file' = file /\ posts' = posts
  BY DEF Settle, public
<1>3. WorldTyped'
  <2> DEFINE R == [status : {"absent", "running", "failed", "completed"},
                   saved : Item \cup {NoItem}]
  <2>1. CASE release' = [release EXCEPT ![run[w]] =
                           [status |-> "failed", saved |-> entry[w].item]]
    <3>1. [status |-> "failed", saved |-> entry[w].item] \in R
      BY <1>1
    <3>2. release' \in [Day -> R]
      BY <1>0, <2>1, <3>1 DEF WorldTyped
    <3>3. QED
      BY <1>0, <3>2 DEF WorldTyped, Settle, public
  <2>2. CASE release' = [release EXCEPT ![run[w]].status = "completed"]
    <3>1. release' \in [Day -> R]
      BY <1>0, <2>2 DEF WorldTyped
    <3>2. QED
      BY <1>0, <3>1 DEF WorldTyped, Settle, public
  <2>3. QED
    BY <2>1, <2>2 DEF Settle
<1>4. WorkerTyped' /\ Only(w) /\ Fact(w)'
  <2>1. CASE url[w] /\ ToRecord(w)
    <3>1. url[w] = TRUE
      BY <1>0, <2>1 DEF WorkerTyped
    <3>2. 0 \in Day
      BY ContentQueueAssumption DEF Day
    <3>3. WorkerTyped'
      BY <1>0, <2>1, <3>2 DEF WorkerTyped, ToRecord, Go, Place
    <3>4. /\ Only(w) /\ pc'[w] = "fetch" /\ url'[w] = FALSE /\ entry'[w] = entry[w]
          /\ draft'[w] = draft[w]
      BY <1>0, <2>1 DEF WorkerTyped, ToRecord, Go, Only
    <3>5. posts[entry[w].item] > 0
      BY <1>0, <3>1 DEF Fact
    <3>6. Fact(w)'
      BY <1>1, <1>2, <3>4, <3>5 DEF Fact
    <3>7. QED
      BY <3>3, <3>4, <3>6
  <2>2. CASE Finish(w, "completed")
    BY <1>0, <2>2, Left
  <2>3. QED
    BY <2>1, <2>2 DEF Settle
<1>5. Facts'
  BY <1>0, <1>2, <1>4, Frame DEF Grow
<1>6. QED
  BY <1>2, <1>3, <1>4, <1>5, Typed DEF Grow

\* A write that failed, or whose answer was lost, is tried again from a fresh read.
LEMMA RetriesKeep ==
  ASSUME WorkerTyped, NEW w \in Worker, Fact(w), pc[w] = "put",
         Again(w) \/ Finish(w, "completed")
  PROVE  /\ WorkerTyped' /\ Only(w)
         /\ posts' = posts => Fact(w)'
<1>1. CASE Finish(w, "completed") \/ Finish(w, "failed")
  BY <1>1, Left
<1>2. CASE ~Finish(w, "failed") /\ Again(w)
  <2>1. /\ tries' = [tries EXCEPT ![w] = 1] /\ seen' = [seen EXCEPT ![w] = NoFile]
        /\ pc' = [pc EXCEPT ![w] = "fetch"]
        /\ UNCHANGED <<kind, own, run, entry, draft, repeated, url, error>>
    BY <1>2 DEF Again, Go, job
  <2>2. WorkerTyped'
    BY <2>1, Entries DEF WorkerTyped, Place
  <2>3. Only(w)
    BY <2>1 DEF WorkerTyped, Only
  <2>4. pc'[w] = "fetch" /\ entry' = entry /\ draft' = draft /\ url' = url
    BY <2>1 DEF WorkerTyped
  <2>5. posts' = posts => Fact(w)'
    BY <2>4 DEF Fact
  <2>6. QED
    BY <2>2, <2>3, <2>5
<1>3. QED
  BY <1>1, <1>2

LEMMA WritesKeep ==
  ASSUME TypeOK, Facts, NEW w \in Worker, Fetch(w) \/ Put(w) \/ PutFails(w)
  PROVE  /\ TypeOK' /\ Facts' /\ Grow
         /\ Put(w) => \E completes \in BOOLEAN : file' = Moved(w, file, completes)
         /\ ~Put(w) => file' = file
<1>0. WorldTyped /\ WorkerTyped /\ Fact(w)
  BY Typed DEF Facts
<1>1. UNCHANGED <<day, rows, public>> /\ acts' \in Nat
  <2>1. CASE Fetch(w)
    BY <1>0, <2>1 DEF WorldTyped, Fetch
  <2>2. CASE Put(w)
    BY <1>0, <2>2 DEF WorldTyped, Put, Written, Acts
  <2>3. CASE PutFails(w)
    BY <1>0, <2>3 DEF WorldTyped, PutFails, Acts
  <2>4. QED
    BY <2>1, <2>2, <2>3
<1>2. /\ Put(w) => \E completes \in BOOLEAN : file' = Moved(w, file, completes)
      /\ ~Put(w) => file' = file
      /\ file' \in File
  <2>1. CASE Put(w)
    <3>1. PICK completes \in BOOLEAN : file' = Moved(w, file, completes)
      BY <2>1 DEF Put
    <3>2. entry[w] \in Entry /\ file \in File
      BY <1>0, <2>1 DEF Put, Fact, WorldTyped
    <3>3. Moved(w, file, completes) \in File
      BY <1>0, <3>2, MovedDraft, MovedPost
    <3>4. QED
      BY <2>1, <3>1, <3>3
  <2>2. CASE ~Put(w)
    BY <1>0, <2>2 DEF Fetch, PutFails, WorldTyped
  <2>3. QED
    BY <2>1, <2>2
<1>3. WorldTyped'
  BY <1>0, <1>1, <1>2 DEF WorldTyped, rows, public
<1>4. WorkerTyped' /\ Only(w) /\ Fact(w)'
  <2>1. CASE Fetch(w) /\ ToPut(w)
    <3>1. Found(IF draft[w] # NoEntry THEN file.backlog ELSE file.drafted, entry[w])
          \/ Finish(w, "completed")
      BY <2>1 DEF Fetch, Drafting
    <3>2. CASE Finish(w, "completed")
      BY <1>0, <3>2, Left
    <3>3. CASE Found(IF draft[w] # NoEntry THEN file.backlog ELSE file.drafted, entry[w])
      <4>1. /\ pc[w] = "fetch" /\ pc' = [pc EXCEPT ![w] = "put"]
            /\ seen' = [seen EXCEPT ![w] = file] /\ posts' = posts
            /\ UNCHANGED <<kind, own, run, entry, draft, tries, repeated, url, error>>
        BY <2>1 DEF Fetch, ToPut, Go, job, public
      <4>2. WorkerTyped'
        BY <1>0, <4>1 DEF WorkerTyped, WorldTyped, Place
      <4>3. /\ Only(w) /\ pc'[w] = "put" /\ seen'[w] = file
        BY <1>0, <4>1 DEF WorkerTyped, Only
      <4>4. Fact(w)'
        BY <1>0, <3>3, <4>1, <4>3 DEF Fact
      <4>5. QED
        BY <4>2, <4>3, <4>4
    <3>4. QED
      BY <3>1, <3>2, <3>3
  <2>2. CASE Fetch(w) /\ ~ToPut(w)
    BY <1>0, <2>2, Left DEF Fetch
  <2>3. CASE Put(w) \/ PutFails(w)
    <3>1. pc[w] = "put" /\ (Again(w) \/ Finish(w, "completed")) /\ posts' = posts
      BY <1>1, <2>3 DEF Put, PutFails, Written, public
    <3>2. QED
      BY <1>0, <3>1, RetriesKeep
  <2>4. QED
    BY <2>1, <2>2, <2>3
<1>5. Facts'
  BY <1>0, <1>1, <1>4, Frame DEF Grow, public
<1>6. QED
  BY <1>1, <1>2, <1>3, <1>4, <1>5, Typed DEF Grow, public

-----------------------------------------------------------------------------
(* People and the calendar.                                                *)

LEMMA EditedIs ==
  ASSUME NEW s \in Seq(Entry), NEW n \in DOMAIN s, NEW t \in Edited(s, n),
         s[n].text < MaxText
  PROVE  Relisted(s, t)
<1>1. PICK ready \in BOOLEAN : t = [s EXCEPT ![n].text = @ + 1, ![n].ready = ready]
  BY DEF Edited
<1> DEFINE e == [s[n] EXCEPT !.text = @ + 1, !.ready = ready]
<1>2. s[n] \in Entry /\ s[n].text \in 0..MaxText
  BY Entries
<1>3. s[n].text + 1 \in 0..MaxText
  BY <1>2, ContentQueueAssumption
<1>4. e \in Entry /\ e.item = s[n].item
  BY <1>2, <1>3 DEF Entry
<1>5. t = [s EXCEPT ![n] = e]
  BY <1>1
<1> HIDE DEF e
<1>6. QED
  BY <1>4, <1>5 DEF Relisted

LEMMA ExtendedIs ==
  ASSUME NEW s \in Seq(Entry), NEW n \in DOMAIN s, NEW ready \in BOOLEAN
  PROVE  Relisted(s, Extended(s, n, ready))
<1> DEFINE e == [s[n] EXCEPT !.tail = @ + 1, !.ready = ready]
           t == Extended(s, n, ready)
<1>1. s[n] \in Entry /\ s[n].tail \in Nat
  BY Entries
<1>2. e \in Entry /\ e.item = s[n].item
  <2>1. s[n].tail + 1 \in Nat
    BY <1>1
  <2>2. QED
    BY <1>1, <2>1 DEF Entry
<1>3. t = [s EXCEPT ![n] = e]
  BY DEF Extended
<1> HIDE DEF e, t
<1>4. Relisted(s, t)
  BY <1>2, <1>3 DEF Relisted
<1>5. QED
  BY <1>4 DEF t

\* What steps make of the file.
EditedDrafted ==
  /\ Relisted(file.drafted, file'.drafted)
  /\ file'.backlog = file.backlog /\ file'.posted = file.posted

EditedBacklog ==
  /\ Relisted(file.backlog, file'.backlog)
  /\ file'.drafted = file.drafted /\ file'.posted = file.posted

EntryDrafted ==
  \E e, d \in Entry :
    /\ d.item = e.item /\ Found(file.backlog, e)
    /\ file'.backlog = Without(file.backlog, e)
    /\ file'.drafted = Append(file.drafted, d)
    /\ file'.posted = file.posted

EntryRecorded ==
  \E e \in Entry :
    /\ Found(file.drafted, e) /\ posts[e.item] > 0
    /\ Relisted(Without(file.drafted, e), file'.drafted)
    /\ file'.posted = <<e.item>> \o file.posted
    /\ file'.backlog = file.backlog

LEMMA ByPeople ==
  ASSUME file \in File, Edit \/ Extend \/ MoveByHand
  PROVE  file' \in File /\ (EditedDrafted \/ EditedBacklog \/ EntryRecorded)
<1>0. /\ file.drafted \in Seq(Entry) /\ file.backlog \in Seq(Entry)
      /\ file.posted \in Seq(Item)
  BY DEF File
<1>1. ASSUME NEW s, Relisted(file.drafted, s), file' = [file EXCEPT !.drafted = s]
      PROVE  file' \in File /\ EditedDrafted
  BY <1>1 DEF File, Relisted, EditedDrafted
<1>2. ASSUME NEW s, Relisted(file.backlog, s), file' = [file EXCEPT !.backlog = s]
      PROVE  file' \in File /\ EditedBacklog
  BY <1>2 DEF File, Relisted, EditedBacklog
<1>3. CASE MoveByHand
  <2>1. PICK n \in DOMAIN file.drafted :
          LET e == file.drafted[n] IN
          /\ posts[e.item] > 0
          /\ file' = [file EXCEPT !.drafted = Without(@, e), !.posted = <<e.item>> \o @]
    BY <1>3 DEF MoveByHand
  <2> DEFINE e == file.drafted[n]
             d == Without(file.drafted, e)
             p == <<e.item>> \o file.posted
  <2>2. e \in Entry /\ e.item \in Item /\ Found(file.drafted, e)
    BY <1>0, Entries DEF Found
  <2>3. d \in Seq(Entry) /\ p \in Seq(Item)
    BY <1>0, <2>2, WithoutKeeps, Prepended
  <2>4. posts[e.item] > 0 /\ file' = [file EXCEPT !.drafted = d, !.posted = p]
    BY <2>1
  <2> HIDE DEF d, p
  <2>5. /\ file' \in File /\ file'.drafted = d /\ file'.posted = p
        /\ file'.backlog = file.backlog
    BY <2>3, <2>4 DEF File
  <2> HIDE DEF e
  <2>6. Relisted(d, file'.drafted)
    BY <2>3, <2>5 DEF Relisted
  <2>7. QED
    BY <2>2, <2>4, <2>5, <2>6 DEF EntryRecorded, d, p
<1>4. CASE Edit
  <2>1. CASE \E n \in DOMAIN file.drafted :
               /\ file.drafted[n].text < MaxText
               /\ \E s \in Edited(file.drafted, n) : file' = [file EXCEPT !.drafted = s]
    BY <1>0, <1>1, <2>1, EditedIs
  <2>2. CASE \E n \in DOMAIN file.backlog :
               /\ file.backlog[n].text < MaxText
               /\ \E s \in Edited(file.backlog, n) : file' = [file EXCEPT !.backlog = s]
    BY <1>0, <1>2, <2>2, EditedIs
  <2>3. QED
    BY <1>4, <2>1, <2>2 DEF Edit
<1>5. CASE Extend
  <2>1. CASE \E n \in DOMAIN file.drafted, ready \in BOOLEAN :
               file' = [file EXCEPT !.drafted = Extended(@, n, ready)]
    <3>1. PICK n \in DOMAIN file.drafted, ready \in BOOLEAN :
            file' = [file EXCEPT !.drafted = Extended(file.drafted, n, ready)]
      BY <2>1
    <3>2. QED
      BY <1>0, <1>1, <3>1, ExtendedIs
  <2>2. CASE \E n \in DOMAIN file.backlog, ready \in BOOLEAN :
               file' = [file EXCEPT !.backlog = Extended(@, n, ready)]
    <3>1. PICK n \in DOMAIN file.backlog, ready \in BOOLEAN :
            file' = [file EXCEPT !.backlog = Extended(file.backlog, n, ready)]
      BY <2>2
    <3>2. QED
      BY <1>0, <1>2, <3>1, ExtendedIs
  <2>3. QED
    BY <1>5, <2>1, <2>2 DEF Extend
<1>6. QED
  BY <1>3, <1>4, <1>5

LEMMA PeopleKeep ==
  ASSUME TypeOK, Facts, Edit \/ Extend \/ MoveByHand \/ Midnight \/ UNCHANGED vars
  PROVE  TypeOK' /\ Facts' /\ Grow
<1>0. WorldTyped /\ WorkerTyped
  BY Typed
<1>1. rows' = rows /\ public' = public /\ worker' = worker
  BY DEF Edit, Extend, MoveByHand, Midnight, vars
<1>2. Facts' /\ Grow
  BY <1>1 DEF Facts, Fact, Grow, public, worker, job, pass
<1>3. WorkerTyped'
  BY <1>0, <1>1 DEF WorkerTyped, worker, job, pass
<1>4. day' \in Day /\ acts' \in Nat
  <2>1. CASE Edit \/ Extend \/ MoveByHand
    <3>1. day' = day /\ Acts
      BY <2>1 DEF Edit, Extend, MoveByHand
    <3>2. QED
      BY <1>0, <3>1 DEF WorldTyped, Acts
  <2>2. CASE Midnight \/ UNCHANGED vars
    BY <1>0, <2>2, ContentQueueAssumption DEF WorldTyped, Midnight, vars, Day
  <2>3. QED
    BY <2>1, <2>2
<1>5. file' \in File
  <2>0. file \in File
    BY <1>0 DEF WorldTyped
  <2>1. CASE Edit \/ Extend \/ MoveByHand
    BY <2>0, <2>1, ByPeople
  <2>2. CASE Midnight \/ UNCHANGED vars
    BY <2>0, <2>2 DEF Midnight, vars
  <2>3. QED
    BY <2>1, <2>2
<1>6. WorldTyped'
  BY <1>0, <1>1, <1>4, <1>5 DEF WorldTyped, rows, public
<1>7. QED
  BY <1>2, <1>3, <1>6, Typed

-----------------------------------------------------------------------------
(* The invariant, and what becomes of the file.                            *)

FileStep ==
  \/ file' = file
  \/ EditedDrafted \/ EditedBacklog \/ EntryDrafted \/ EntryRecorded

LEMMA StepKeeps ==
  ASSUME TypeOK, Facts, [Next]_vars
  PROVE  TypeOK' /\ Facts' /\ Grow /\ FileStep
<1>0. WorldTyped /\ WorkerTyped /\ file \in File
  BY Typed DEF WorldTyped
<1>1. ASSUME NEW w \in Worker,
             \/ ReadNothing(w) \/ Raises(w) \/ Duplicate(w) \/ RunRaises(w)
             \/ NoDraft(w) \/ End(w) \/ Crash(w)
      PROVE  TypeOK' /\ Facts' /\ Grow /\ FileStep
  BY <1>1, QuitsKeep DEF FileStep
<1>2. ASSUME NEW w \in Worker,
             \/ Claim(w) \/ Command(w) \/ (\E d \in Day : Retry(w, d))
             \/ ReadDrafted(w) \/ ReadBacklog(w) \/ ClaimRun(w) \/ Skip(w) \/ WriteDraft(w)
      PROVE  TypeOK' /\ Facts' /\ Grow /\ FileStep
  BY <1>2, StartsKeep DEF FileStep
<1>3. ASSUME NEW w \in Worker,
             Post(w) \/ PostFails(w) \/ ChannelFails(w) \/ Settle(w)
      PROVE  TypeOK' /\ Facts' /\ Grow /\ FileStep
  BY <1>3, PostsKeep, SettleKeeps DEF FileStep
<1>4. ASSUME NEW w \in Worker, Fetch(w) \/ Put(w) \/ PutFails(w)
      PROVE  TypeOK' /\ Facts' /\ Grow /\ FileStep
  <2>1. /\ TypeOK' /\ Facts' /\ Grow
        /\ Put(w) => \E completes \in BOOLEAN : file' = Moved(w, file, completes)
        /\ ~Put(w) => file' = file
    BY <1>4, WritesKeep
  <2>2. CASE Put(w)
    <3>1. /\ entry[w] \in Entry
          /\ Found(IF draft[w] # NoEntry THEN file.backlog ELSE file.drafted, entry[w])
          /\ draft[w] # NoEntry => draft[w].item = entry[w].item /\ draft[w] \in Entry
          /\ draft[w] = NoEntry => posts[entry[w].item] > 0
      BY <1>0, <2>2 DEF Put, Facts, Fact, WorkerTyped
    <3>2. PICK completes \in BOOLEAN : file' = Moved(w, file, completes)
      BY <2>1, <2>2
    <3>3. CASE draft[w] # NoEntry
      <4>1. /\ file'.backlog = Without(file.backlog, entry[w])
            /\ file'.drafted = Append(file.drafted, draft[w])
            /\ file'.posted = file.posted
        BY <1>0, <3>1, <3>2, <3>3, MovedDraft
      <4>2. Found(file.backlog, entry[w])
        BY <3>1, <3>3
      <4>3. EntryDrafted
        BY <3>1, <3>3, <4>1, <4>2 DEF EntryDrafted
      <4>4. QED
        BY <2>1, <4>3 DEF FileStep
    <3>4. CASE draft[w] = NoEntry
      <4>1. Relisted(Without(file.drafted, entry[w]), Cut(file.drafted, entry[w], completes))
        BY <1>0, <3>1, CutGrows DEF File
      <4>2. /\ file'.backlog = file.backlog
            /\ file'.drafted = Cut(file.drafted, entry[w], completes)
            /\ file'.posted = <<entry[w].item>> \o file.posted
        BY <1>0, <3>1, <3>2, <3>4, MovedPost
      <4>3. Found(file.drafted, entry[w])
        BY <3>1, <3>4
      <4>4. EntryRecorded
        BY <3>1, <3>4, <4>1, <4>2, <4>3 DEF EntryRecorded
      <4>5. QED
        BY <2>1, <4>4 DEF FileStep
    <3>5. QED
      BY <2>1, <3>3, <3>4
  <2>3. QED
    BY <2>1, <2>2 DEF FileStep
<1>5. CASE Edit \/ Extend \/ MoveByHand \/ Midnight \/ UNCHANGED vars
  <2>1. FileStep
    BY <1>0, <1>5, ByPeople DEF FileStep, Midnight, vars
  <2>2. QED
    BY <1>5, <2>1, PeopleKeep
<1>6. QED
  BY <1>1, <1>2, <1>3, <1>4, <1>5 DEF Next, Work, Publish

\* What a worker holds on to stays true, whoever else posts, edits or writes.
THEOREM Invariant == Spec => [](TypeOK /\ Facts)
<1>1. Init => TypeOK /\ Facts
  <2> SUFFICES ASSUME Init
               PROVE  TypeOK /\ Facts
    OBVIOUS
  <2>1. 0 \in Day /\ NoFile \in File
    BY Entries, ContentQueueAssumption DEF Day
  <2>2. ASSUME NEW items \in Seq(Item)
        PROVE  Section(items) \in Seq(Entry)
    <3>1. \A n \in DOMAIN items : Fresh(items[n], TRUE) \in Entry
      <4>1. \A n \in DOMAIN items : items[n] \in Item
        OBVIOUS
      <4>2. \A i \in Item : Fresh(i, TRUE) \in Entry
        BY Entries
      <4>3. QED
        BY <4>1, <4>2
    <3>2. DOMAIN items = 1..Len(items) /\ Len(items) \in Nat
      OBVIOUS
    <3>3. Section(items) \in [1..Len(items) -> Entry]
      BY <3>1, <3>2 DEF Section
    <3>4. QED
      BY <3>2, <3>3
  <2>3. file \in File
    BY <2>2, ContentQueueAssumption DEF Init, File
  <2>4. WorldTyped
    BY <2>1, <2>3 DEF Init, WorldTyped
  <2>5. WorkerTyped
    BY <2>1 DEF Init, WorkerTyped, Place
  <2>6. Facts
    BY DEF Init, Facts, Fact
  <2>7. QED
    BY <2>4, <2>5, <2>6, Typed
<1>2. TypeOK /\ Facts /\ [Next]_vars => (TypeOK /\ Facts)'
  BY StepKeeps
<1>3. QED
  BY <1>1, <1>2, PTL DEF Spec

\* Types of the queue, its runs and its workers.
THEOREM TypeCorrect == Spec => []TypeOK
BY Invariant, PTL

\* Nothing gets into Posted that was not posted, whatever was skipped, refused,
\* retried or moved by hand.
THEOREM PostedArePublic == Spec => []PostedIsPublic
<1>1. Init => PostedIsPublic
  BY DEF Init, PostedIsPublic
<1>2. TypeOK /\ Facts /\ TypeOK' /\ PostedIsPublic /\ [Next]_vars => PostedIsPublic'
  <2> SUFFICES ASSUME TypeOK, Facts, TypeOK', PostedIsPublic, [Next]_vars
               PROVE  PostedIsPublic'
    OBVIOUS
  <2>1. Grow /\ FileStep
    BY StepKeeps
  <2>2. file.posted \in Seq(Item)
    BY DEF TypeOK, File
  <2>3. \A n \in DOMAIN file.posted : posts'[file.posted[n]] > 0
    BY <2>1, <2>2 DEF PostedIsPublic, Grow
  <2>4. CASE EntryRecorded
    <3>1. PICK e \in Entry : posts[e.item] > 0 /\ file'.posted = <<e.item>> \o file.posted
      BY <2>4 DEF EntryRecorded
    <3>2. e.item \in Item /\ posts'[e.item] > 0
      BY <2>1, <3>1, Entries DEF Grow
    <3> DEFINE p == <<e.item>> \o file.posted
    <3>3. /\ DOMAIN p = 1..(Len(file.posted) + 1) /\ DOMAIN file.posted = 1..Len(file.posted)
          /\ Len(file.posted) \in Nat /\ p[1] = e.item
          /\ \A n \in 2..(Len(file.posted) + 1) :
               n - 1 \in 1..Len(file.posted) /\ p[n] = file.posted[n - 1]
      BY <2>2, <3>2, Prepended
    <3> HIDE DEF p
    <3>4. \A n \in DOMAIN p : n = 1 \/ n \in 2..(Len(file.posted) + 1)
      BY <3>3
    <3>5. \A n \in DOMAIN p : posts'[p[n]] > 0
      BY <2>3, <3>2, <3>3, <3>4
    <3>6. QED
      BY <3>1, <3>5 DEF PostedIsPublic, p
  <2>5. CASE ~EntryRecorded
    <3>1. file'.posted = file.posted
      BY <2>1, <2>5 DEF FileStep, EditedDrafted, EditedBacklog, EntryDrafted
    <3>2. QED
      BY <2>3, <3>1 DEF PostedIsPublic
  <2>6. QED
    BY <2>4, <2>5
<1>3. QED
  BY <1>1, <1>2, Invariant, PTL DEF Spec

-----------------------------------------------------------------------------
(* Every item has one place.                                               *)

LEMMA Holding ==
  ASSUME NEW s, NEW e
  PROVE  /\ InSection(s, e) => Holds(s, e.item)
         /\ Found(s, e) => Holds(s, e.item)
BY DEF InSection, Found, Matches, Holds

LEMMA RelistedHolds ==
  ASSUME NEW s, NEW t, Relisted(s, t)
  PROVE  (Distinct(s) => Distinct(t)) /\ \A i : Holds(t, i) <=> Holds(s, i)
BY DEF Relisted, Distinct, Holds

LEMMA WithoutHolds ==
  ASSUME NEW s \in Seq(Entry), NEW e, NEW i, Holds(Without(s, e), i)
  PROVE  Holds(s, i)
<1>1. PICK n \in DOMAIN Without(s, e) : Without(s, e)[n].item = i
  BY DEF Holds
<1>2. InSection(s, Without(s, e)[n])
  BY <1>1, WithoutKeeps
<1>3. QED
  BY <1>1, <1>2, Holding

\* A draft takes the place of its line.
LEMMA DraftedOnce ==
  ASSUME file \in File, file' \in File, ItemOnce, EntryDrafted
  PROVE  ItemOnce'
<1>1. PICK e \in Entry, d \in Entry :
        /\ d.item = e.item /\ Found(file.backlog, e)
        /\ file'.backlog = Without(file.backlog, e)
        /\ file'.drafted = Append(file.drafted, d)
        /\ file'.posted = file.posted
  BY DEF EntryDrafted
<1> DEFINE s == file.drafted
           t == Append(s, d)
<1>2. file.backlog \in Seq(Entry) /\ s \in Seq(Entry) /\ e.item \in Item
  BY <1>1, Entries DEF File
<1>3. /\ Holds(file.backlog, e.item) /\ ~Holds(s, e.item) /\ ~Recorded(file, e.item)
      /\ Distinct(file.backlog) /\ Distinct(s)
  BY <1>1, <1>2, Holding DEF ItemOnce
<1>4. Distinct(file'.backlog) /\ ~Holds(file'.backlog, e.item)
  BY <1>1, <1>2, <1>3, WithoutOnce
<1>5. /\ DOMAIN t = 1..(Len(s) + 1) /\ Len(s) \in Nat /\ DOMAIN s = 1..Len(s)
      /\ t[Len(s) + 1] = d
      /\ \A n \in 1..Len(s) : t[n] = s[n]
  BY <1>1, <1>2, Appended
<1>6. file'.drafted = t
  BY <1>1
<1> HIDE DEF s, t
<1>7. \A n \in DOMAIN t : \/ n = Len(s) + 1 /\ t[n] = d
                          \/ n \in DOMAIN s /\ t[n] = s[n]
  BY <1>5
<1>8. \A n \in DOMAIN s : s[n].item # e.item
  BY <1>3 DEF Holds
<1>9. Distinct(t)
  BY <1>1, <1>3, <1>5, <1>7, <1>8 DEF Distinct
<1>10. \A i : Holds(t, i) => Holds(s, i) \/ i = e.item
  BY <1>1, <1>7 DEF Holds
<1>11. \A i : Holds(file'.backlog, i) => Holds(file.backlog, i) /\ i # e.item
  BY <1>1, <1>2, <1>4, WithoutHolds
<1>12. \A i : Recorded(file', i) <=> Recorded(file, i)
  BY <1>1 DEF Recorded
<1>13. \A i \in Item : ~(Holds(file'.backlog, i) /\ Holds(t, i))
  BY <1>10, <1>11 DEF ItemOnce, s
<1>14. \A i \in Item : Recorded(file', i) => ~Holds(file'.backlog, i) /\ ~Holds(t, i)
  BY <1>3, <1>10, <1>11, <1>12 DEF ItemOnce, s
<1>15. \A m, n \in DOMAIN file'.posted : file'.posted[m] = file'.posted[n] => m = n
  BY <1>1 DEF ItemOnce
<1>16. QED
  BY <1>4, <1>6, <1>9, <1>13, <1>14, <1>15 DEF ItemOnce

\* A record takes the place of its entry.
LEMMA RecordedOnce ==
  ASSUME file \in File, file' \in File, ItemOnce, EntryRecorded
  PROVE  ItemOnce'
<1>1. PICK e \in Entry :
        /\ Found(file.drafted, e)
        /\ Relisted(Without(file.drafted, e), file'.drafted)
        /\ file'.posted = <<e.item>> \o file.posted
        /\ file'.backlog = file.backlog
  BY DEF EntryRecorded
<1> DEFINE s == file.posted
           t == <<e.item>> \o s
<1>2. file.drafted \in Seq(Entry) /\ s \in Seq(Item) /\ e.item \in Item
  BY <1>1, Entries DEF File
<1>3. /\ Holds(file.drafted, e.item) /\ ~Holds(file.backlog, e.item)
      /\ ~Recorded(file, e.item) /\ Distinct(file.backlog) /\ Distinct(file.drafted)
  BY <1>1, <1>2, Holding DEF ItemOnce
<1>4. Distinct(file'.drafted) /\ ~Holds(file'.drafted, e.item)
  BY <1>1, <1>2, <1>3, WithoutOnce, RelistedHolds
<1>5. /\ DOMAIN t = 1..(Len(s) + 1) /\ Len(s) \in Nat /\ DOMAIN s = 1..Len(s)
      /\ t[1] = e.item
      /\ \A n \in 2..(Len(s) + 1) : n - 1 \in 1..Len(s) /\ t[n] = s[n - 1]
  BY <1>2, Prepended
<1>6. file'.posted = t
  BY <1>1
<1>7. /\ \A m, n \in DOMAIN s : s[m] = s[n] => m = n
      /\ \A n \in DOMAIN s : s[n] # e.item
  BY <1>3 DEF ItemOnce, Recorded
<1> HIDE DEF s, t
<1>8. \A n \in DOMAIN t : \/ n = 1 /\ t[n] = e.item
                          \/ n - 1 \in DOMAIN s /\ t[n] = s[n - 1]
  BY <1>5
<1>9. \A m, n \in DOMAIN t : t[m] = t[n] => m = n
  BY <1>5, <1>7, <1>8
<1>10. \A i : Recorded(file', i) => Recorded(file, i) \/ i = e.item
  BY <1>6, <1>8 DEF Recorded, s
<1>11. \A i : Holds(file'.drafted, i) => Holds(file.drafted, i) /\ i # e.item
  BY <1>1, <1>2, <1>4, WithoutHolds, RelistedHolds
<1>12. \A i \in Item : ~(Holds(file'.backlog, i) /\ Holds(file'.drafted, i))
  BY <1>1, <1>11 DEF ItemOnce
<1>13. \A i \in Item :
         Recorded(file', i) => ~Holds(file'.backlog, i) /\ ~Holds(file'.drafted, i)
  BY <1>1, <1>3, <1>10, <1>11 DEF ItemOnce
<1>14. QED
  BY <1>1, <1>3, <1>4, <1>6, <1>9, <1>12, <1>13 DEF ItemOnce

\* The file starts out with every item listed once.
ListedOnce ==
  /\ \A m, n \in DOMAIN FirstBacklog : FirstBacklog[m] = FirstBacklog[n] => m = n
  /\ \A m, n \in DOMAIN FirstDrafted : FirstDrafted[m] = FirstDrafted[n] => m = n
  /\ \A m \in DOMAIN FirstBacklog, n \in DOMAIN FirstDrafted :
       FirstBacklog[m] # FirstDrafted[n]

\* Whoever loses an answer, tries again or edits: an item keeps to one place, if
\* the file starts out with every item listed once.
THEOREM ItemsOnce ==
  ASSUME ListedOnce
  PROVE  Spec => []ItemOnce
<1>0. Init => ItemOnce
  <2> SUFFICES ASSUME Init
               PROVE  ItemOnce
    OBVIOUS
  <2>1. /\ file.backlog = Section(FirstBacklog) /\ file.drafted = Section(FirstDrafted)
        /\ file.posted = <<>>
    BY DEF Init
  <2>2. ASSUME NEW items
        PROVE  /\ DOMAIN Section(items) = DOMAIN items
               /\ \A n \in DOMAIN items : Section(items)[n].item = items[n]
    BY DEF Section, Fresh
  <2>3. Distinct(file.backlog) /\ Distinct(file.drafted)
    BY <2>1, <2>2 DEF Distinct, ListedOnce
  <2>4. \A i : ~(Holds(file.backlog, i) /\ Holds(file.drafted, i))
    BY <2>1, <2>2 DEF Holds, ListedOnce
  <2>5. DOMAIN file.posted = {}
    BY <2>1
  <2>6. QED
    BY <2>3, <2>4, <2>5 DEF ItemOnce, Recorded
<1>1. TypeOK /\ Facts /\ TypeOK' /\ ItemOnce /\ [Next]_vars => ItemOnce'
  <2> SUFFICES ASSUME TypeOK, Facts, TypeOK', ItemOnce, [Next]_vars
               PROVE  ItemOnce'
    OBVIOUS
  <2>1. FileStep /\ file \in File /\ file' \in File
    BY StepKeeps DEF TypeOK
  <2>3. CASE EditedDrafted
    BY <2>1, <2>3, RelistedHolds DEF EditedDrafted, ItemOnce, File, Recorded
  <2>4. CASE EditedBacklog
    BY <2>1, <2>4, RelistedHolds DEF EditedBacklog, ItemOnce, File, Recorded
  <2>5. CASE file' = file
    BY <2>5 DEF ItemOnce, Recorded
  <2>6. QED
    BY <2>1, <2>3, <2>4, <2>5, DraftedOnce, RecordedOnce DEF FileStep
<1>2. QED
  BY <1>0, <1>1, Invariant, PTL DEF Spec

-----------------------------------------------------------------------------
(* Edits of people.                                                        *)

\* What was not cut is found where it was, with its words.
LEMMA Survivors ==
  ASSUME NEW s \in Seq(Entry), NEW e \in Entry, NEW completes \in BOOLEAN,
         NEW n \in DOMAIN s, ~Matches(s[n], e)
  PROVE  Found(Without(s, e), s[n]) /\ Found(Cut(s, e, completes), s[n])
<1>1. InSection(s, s[n]) /\ s[n] \in Entry
  BY DEF InSection
<1>2. PICK k \in DOMAIN Without(s, e) : Without(s, e)[k] = s[n]
  <2>1. InSection(Without(s, e), s[n])
    BY <1>1, WithoutKeeps
  <2>2. QED
    BY <2>1 DEF InSection
<1>3. Found(Without(s, e), s[n])
  BY <1>1, <1>2, Entries DEF Found
<1>4. Matches(Cut(s, e, completes)[k], s[n]) /\ k \in DOMAIN Cut(s, e, completes)
  BY <1>2, CutGrows DEF Relisted
<1>5. QED
  BY <1>3, <1>4 DEF Found

LEMMA OnlyPutWrites ==
  ASSUME TypeOK, Facts, [Next]_vars
  PROVE  worker' = worker \/ file' = file \/ \E w \in Worker : Put(w)
<1>1. CASE Edit \/ Extend \/ MoveByHand \/ Midnight \/ UNCHANGED vars
  BY <1>1 DEF Edit, Extend, MoveByHand, Midnight, vars
<1>2. ASSUME NEW w \in Worker, ~Put(w),
             \/ Claim(w) \/ Command(w) \/ Work(w) \/ Crash(w) \/ \E d \in Day : Retry(w, d)
      PROVE  file' = file
  BY <1>2, QuitsKeep, StartsKeep, PostsKeep, SettleKeeps, WritesKeep DEF Work, Publish
<1>3. QED
  BY <1>1, <1>2, Zenon DEF Next

\* A write takes away the entry its worker read, and the words of no other: whatever
\* somebody else wrote since the file was read makes the write start over, and the
\* entry it cuts has the words that were read.
THEOREM EditsAreKept == Spec => EditsSurvive
<1> DEFINE KeptDrafted ==
      \A n \in DOMAIN file.drafted :
        \/ Found(file'.drafted, file.drafted[n])
        \/ /\ Recorded(file', file.drafted[n].item)
           /\ \E w \in Worker : pc'[w] # pc[w] /\ ~Drafting(w)
                                /\ Matches(file.drafted[n], entry[w])
    KeptBacklog ==
      \A n \in DOMAIN file.backlog :
        \/ Found(file'.backlog, file.backlog[n])
        \/ /\ Holds(file'.drafted, file.backlog[n].item)
           /\ \E w \in Worker : pc'[w] # pc[w] /\ Drafting(w)
                                /\ Matches(file.backlog[n], entry[w])
<1>1. TypeOK /\ Facts /\ [Next]_vars => [worker' # worker => KeptDrafted /\ KeptBacklog]_vars
  <2> SUFFICES ASSUME TypeOK, Facts, [Next]_vars, worker' # worker
               PROVE  KeptDrafted /\ KeptBacklog
    OBVIOUS
  <2>0. /\ file.drafted \in Seq(Entry) /\ file.backlog \in Seq(Entry)
        /\ file.posted \in Seq(Item) /\ file \in File /\ WorkerTyped
    BY Typed DEF TypeOK, File
  <2>1. ASSUME NEW s \in Seq(Entry), NEW n \in DOMAIN s
        PROVE  Found(s, s[n])
    BY Entries DEF Found
  <2>2. CASE file' = file
    BY <2>0, <2>1, <2>2
  <2>3. ASSUME NEW w \in Worker, Put(w)
        PROVE  KeptDrafted /\ KeptBacklog
    <3>1. PICK completes \in BOOLEAN : file' = Moved(w, file, completes)
      BY <2>3 DEF Put
    <3>2. entry[w] \in Entry /\ (draft[w] # NoEntry => draft[w].item = entry[w].item)
      BY <2>3 DEF Put, Facts, Fact
    <3>3. pc'[w] # pc[w]
      <4>1. \E place \in {"idle", "completed", "failed", "fetch"} : Go(w, place)
        BY <2>3 DEF Put, Written, Again, Finish, Leave
      <4>2. QED
        BY <2>0, <2>3, <4>1 DEF Put, Go, WorkerTyped
    <3>4. CASE draft[w] # NoEntry
      <4>1. /\ file'.backlog = Without(file.backlog, entry[w])
            /\ file'.drafted = Append(file.drafted, draft[w])
            /\ draft[w] \in Entry
        BY <2>0, <3>1, <3>2, <3>4, MovedDraft DEF WorkerTyped
      <4>2. ASSUME NEW n \in DOMAIN file.drafted
            PROVE  Found(file'.drafted, file.drafted[n])
        <5>1. n \in DOMAIN file'.drafted /\ file'.drafted[n] = file.drafted[n]
          BY <2>0, <4>1, Appended
        <5>2. Matches(file.drafted[n], file.drafted[n])
          <6>1. file.drafted[n] \in Entry
            BY <2>0
          <6>2. QED
            BY <6>1, Entries
        <5>3. QED
          BY <5>1, <5>2 DEF Found
      <4>3. Holds(file'.drafted, entry[w].item)
        <5>1. /\ Len(file.drafted) + 1 \in DOMAIN file'.drafted
              /\ file'.drafted[Len(file.drafted) + 1] = draft[w]
          BY <2>0, <4>1, Appended
        <5>2. QED
          BY <3>2, <3>4, <5>1 DEF Holds
      <4>4. ASSUME NEW n \in DOMAIN file.backlog
            PROVE  \/ Found(file'.backlog, file.backlog[n])
                   \/ Matches(file.backlog[n], entry[w])
        BY <2>0, <3>2, <4>1, Survivors
      <4>5. KeptBacklog
        BY <3>3, <3>4, <4>3, <4>4 DEF Matches, Drafting
      <4>6. QED
        BY <4>2, <4>5
    <3>5. CASE draft[w] = NoEntry
      <4>1. /\ file'.backlog = file.backlog
            /\ file'.drafted = Cut(file.drafted, entry[w], completes)
            /\ file'.posted = <<entry[w].item>> \o file.posted
        BY <2>0, <3>1, <3>2, <3>5, MovedPost
      <4>2. KeptBacklog
        BY <2>0, <2>1, <4>1
      <4>3. Recorded(file', entry[w].item)
        <5>1. entry[w].item \in Item
          BY <3>2, Entries
        <5>2. 1 \in DOMAIN file'.posted /\ file'.posted[1] = entry[w].item
          BY <2>0, <4>1, <5>1, Prepended
        <5>3. QED
          BY <5>2 DEF Recorded
      <4>4. ASSUME NEW n \in DOMAIN file.drafted
            PROVE  \/ Found(file'.drafted, file.drafted[n])
                   \/ Matches(file.drafted[n], entry[w])
        BY <2>0, <3>2, <4>1, Survivors
      <4>5. KeptDrafted
        BY <3>3, <3>5, <4>3, <4>4 DEF Matches, Drafting
      <4>6. QED
        BY <4>2, <4>5
    <3>6. QED
      BY <3>4, <3>5
  <2>4. QED
    BY <2>2, <2>3, OnlyPutWrites
<1>2. QED
  BY <1>1, Invariant, PTL DEF Spec, EditsSurvive

-----------------------------------------------------------------------------
(* Refinement.                                                             *)

\* What was drafted: it is a draft still, or recorded.
Out(i) == Holds(file.drafted, i) \/ Recorded(file, i)

\* Whatever a release run announces or has saved was drafted.
Drafts ==
  /\ \A w \in Worker : pc[w] \in {"claim", "post", "settle"} => Out(entry[w].item)
  /\ \A d \in Day : release[d].saved # NoItem => Out(release[d].saved)

Places == [i \in Item |-> PlaceOf(file, i)]
Shown == {i \in Item : posts[i] > 0}

\* An item that is listed before and after is listed alike.
Alike(i) ==
  /\ Holds(file'.backlog, i) <=> Holds(file.backlog, i)
  /\ Holds(file'.drafted, i) <=> Holds(file.drafted, i)
  /\ Recorded(file', i) <=> Recorded(file, i)

LEMMA WithoutOthers ==
  ASSUME NEW s \in Seq(Entry), NEW e, NEW i, i # e.item
  PROVE  Holds(Without(s, e), i) <=> Holds(s, i)
<1>1. ASSUME Holds(s, i)
      PROVE  Holds(Without(s, e), i)
  <2>1. PICK n \in DOMAIN s : s[n].item = i
    BY <1>1 DEF Holds
  <2>2. InSection(s, s[n]) /\ ~Matches(s[n], e)
    BY <2>1 DEF InSection, Matches
  <2>3. InSection(Without(s, e), s[n])
    BY <2>2, WithoutKeeps
  <2>4. QED
    BY <2>1, <2>3, Holding
<1>2. QED
  BY <1>1, WithoutHolds

\* One item moves on by a draft ...
LEMMA DraftMoves ==
  ASSUME file \in File, EntryDrafted, ItemOnce
  PROVE  \E i \in Item : /\ PlaceOf(file, i) = "backlog"
                         /\ Holds(file'.drafted, i) /\ ~Recorded(file', i)
                         /\ \A j \in Item \ {i} : Alike(j)
<1>1. PICK e \in Entry, d \in Entry :
        /\ d.item = e.item /\ Found(file.backlog, e)
        /\ file'.backlog = Without(file.backlog, e)
        /\ file'.drafted = Append(file.drafted, d)
        /\ file'.posted = file.posted
  BY DEF EntryDrafted
<1> DEFINE i == e.item
<1>2. file.backlog \in Seq(Entry) /\ file.drafted \in Seq(Entry) /\ i \in Item
  BY Entries DEF File
<1>3. Holds(file.backlog, i) /\ ~Holds(file.drafted, i) /\ ~Recorded(file, i)
  BY <1>1, <1>2, Holding DEF ItemOnce
<1>4. \A x : InSection(file'.drafted, x) <=> InSection(file.drafted, x) \/ x = d
  BY <1>1, <1>2, Appended
<1>5. Holds(file'.drafted, i)
  BY <1>1, <1>4, Holding
<1>6. ASSUME NEW j \in Item \ {i}
      PROVE  Alike(j)
  <2>1. Holds(file'.backlog, j) <=> Holds(file.backlog, j)
    BY <1>1, <1>2, WithoutOthers
  <2>2. \A s : Holds(s, j) <=> \E x : InSection(s, x) /\ x.item = j
    BY DEF Holds, InSection
  <2>3. Holds(file'.drafted, j) <=> Holds(file.drafted, j)
    BY <1>1, <1>4, <2>2
  <2>4. Recorded(file', j) <=> Recorded(file, j)
    BY <1>1 DEF Recorded
  <2>5. QED
    BY <2>1, <2>3, <2>4 DEF Alike
<1>7. PlaceOf(file, i) = "backlog" /\ ~Recorded(file', i)
  BY <1>1, <1>3 DEF PlaceOf, Recorded
<1>8. QED
  BY <1>2, <1>5, <1>6, <1>7

\* ... or by a record.
LEMMA RecordMoves ==
  ASSUME file \in File, EntryRecorded, ItemOnce
  PROVE  \E i \in Item : /\ PlaceOf(file, i) = "drafted" /\ posts[i] > 0
                         /\ Recorded(file', i)
                         /\ \A j \in Item \ {i} : Alike(j)
<1>1. PICK e \in Entry :
        /\ Found(file.drafted, e) /\ posts[e.item] > 0
        /\ Relisted(Without(file.drafted, e), file'.drafted)
        /\ file'.posted = <<e.item>> \o file.posted
        /\ file'.backlog = file.backlog
  BY DEF EntryRecorded
<1> DEFINE i == e.item
           s == file.posted
           t == <<i>> \o s
<1>2. file.drafted \in Seq(Entry) /\ s \in Seq(Item) /\ i \in Item
  BY Entries DEF File
<1>3. Holds(file.drafted, i) /\ ~Recorded(file, i)
  BY <1>1, <1>2, Holding DEF ItemOnce
<1>4. /\ DOMAIN t = 1..(Len(s) + 1) /\ Len(s) \in Nat /\ DOMAIN s = 1..Len(s)
      /\ t[1] = i
      /\ \A n \in 2..(Len(s) + 1) : n - 1 \in 1..Len(s) /\ t[n] = s[n - 1]
  BY <1>2, Prepended
<1>5. file'.posted = t
  BY <1>1
<1> HIDE DEF s, t
<1>6. \A n \in DOMAIN t : \/ n = 1 /\ t[n] = i
                          \/ n - 1 \in DOMAIN s /\ t[n] = s[n - 1]
  BY <1>4
<1>7. \A n \in DOMAIN s : n + 1 \in DOMAIN t /\ t[n + 1] = s[n]
  BY <1>4
<1>8. 1 \in DOMAIN t
  BY <1>4
<1>9. ASSUME NEW j \in Item \ {i}
      PROVE  Alike(j)
  <2>1. Holds(file'.drafted, j) <=> Holds(file.drafted, j)
    BY <1>1, <1>2, WithoutOthers, RelistedHolds
  <2>2. Recorded(file', j) <=> Recorded(file, j)
    BY <1>5, <1>6, <1>7 DEF Recorded, s
  <2>3. QED
    BY <1>1, <2>1, <2>2 DEF Alike
<1>10. PlaceOf(file, i) = "drafted" /\ Recorded(file', i)
  BY <1>3, <1>4, <1>5, <1>8 DEF PlaceOf, Recorded
<1>11. QED
  BY <1>1, <1>2, <1>9, <1>10

LEMMA EditsMoveNothing ==
  ASSUME file \in File, FileStep, ~EntryDrafted, ~EntryRecorded, NEW i
  PROVE  Alike(i)
<1>2. CASE EditedDrafted
  BY <1>2, RelistedHolds DEF EditedDrafted, Alike, Recorded
<1>3. CASE EditedBacklog
  BY <1>3, RelistedHolds DEF EditedBacklog, Alike, Recorded
<1>4. CASE file' = file
  BY <1>4 DEF Alike
<1>5. QED
  BY <1>2, <1>3, <1>4 DEF FileStep

\* What was drafted stays a draft until it is recorded.
LEMMA OutStays ==
  ASSUME file \in File, FileStep, ItemOnce, NEW i \in Item, Out(i)
  PROVE  Out(i)'
<1>1. Alike(i) => Out(i)'
  BY DEF Alike, Out
<1>2. CASE EntryDrafted
  BY <1>1, <1>2, DraftMoves DEF Out
<1>3. CASE EntryRecorded
  BY <1>1, <1>3, RecordMoves DEF Out
<1>4. QED
  BY <1>1, <1>2, <1>3, EditsMoveNothing

\* What a worker takes up is a draft, or saved by a run that announced one.
LEMMA DraftsCarried ==
  ASSUME TypeOK, Drafts, [Next]_vars
  PROVE  /\ \A w \in Worker : pc'[w] \in {"claim", "post", "settle"} => Out(entry'[w].item)
         /\ \A d \in Day : release'[d].saved # NoItem => Out(release'[d].saved)
<1> DEFINE S == {"claim", "post", "settle"}
           Goal == /\ \A w \in Worker : pc'[w] \in S => Out(entry'[w].item)
                   /\ \A d \in Day : release'[d].saved # NoItem => Out(release'[d].saved)
           Saved == \A d \in Day : release'[d].saved = release[d].saved
<1>0. /\ pc \in [Worker -> Place] /\ entry \in [Worker -> Entry \cup {NoEntry}]
      /\ release \in [Day -> [status : {"absent", "running", "failed", "completed"},
                              saved : Item \cup {NoItem}]]
      /\ run \in [Worker -> Day] /\ file \in File
  BY DEF TypeOK
<1>1. ASSUME NEW w \in Worker, NEW place, place \notin S, Go(w, place), Saved,
             entry' = entry \/ \E e : entry' = [entry EXCEPT ![w] = e]
      PROVE  Goal
  BY <1>0, <1>1 DEF Go, Drafts
<1>2. ASSUME NEW w \in Worker, NEW result \in {"idle", "completed", "failed"},
             Go(w, result) /\ Forget(w), Saved
      PROVE  Goal
  BY <1>1, <1>2 DEF Forget
<1>3. ASSUME NEW w \in Worker, Leave(w) \/ Finish(w, "completed") \/ Finish(w, "failed"), Saved
      PROVE  Goal
  <2>1. \E result \in {"idle", "completed", "failed"} : Go(w, result) /\ Forget(w)
    BY <1>3 DEF Leave, Finish
  <2>2. QED
    BY <1>2, <1>3, <2>1
<1>4. ASSUME NEW w \in Worker, pc[w] \in S, Go(w, "post") \/ Go(w, "settle"), entry' = entry, Saved
      PROVE  Goal
  BY <1>0, <1>4 DEF Go, Drafts
<1>5. ASSUME NEW w \in Worker, NEW d \in Day, Retry(w, d)
      PROVE  Goal
  <2>1. /\ Saved /\ Out(release[d].saved) /\ pc' = [pc EXCEPT ![w] = "claim"]
        /\ entry' = [entry EXCEPT ![w] = Fresh(release[d].saved, TRUE)]
    BY <1>5 DEF Retry, rows, Go, Drafts
  <2>2. Fresh(release[d].saved, TRUE).item = release[d].saved
    BY DEF Fresh
  <2>3. QED
    BY <1>0, <2>1, <2>2 DEF Drafts
<1>6. ASSUME NEW w \in Worker, ReadDrafted(w)
      PROVE  Goal
  <2>1. PICK n \in DOMAIN file.drafted : entry' = [entry EXCEPT ![w] = file.drafted[n]]
    BY <1>6 DEF ReadDrafted
  <2>2. Out(file.drafted[n].item)
    BY DEF Out, Holds
  <2>3. Saved /\ pc' = [pc EXCEPT ![w] = "claim"]
    BY <1>6 DEF ReadDrafted, rows, Go
  <2>4. QED
    BY <1>0, <2>1, <2>2, <2>3 DEF Drafts
<1>7. ASSUME NEW w \in Worker, Settle(w)
      PROVE  Goal
  <2>1. Out(entry[w].item) /\ run[w] \in Day
    BY <1>0, <1>7 DEF Settle, Drafts
  <2>2. \/ release' = [release EXCEPT ![run[w]] = [status |-> "failed", saved |-> entry[w].item]]
        \/ release' = [release EXCEPT ![run[w]].status = "completed"]
    BY <1>7 DEF Settle
  <2>3. \A d \in Day : release'[d].saved = release[d].saved \/ release'[d].saved = entry[w].item
    BY <1>0, <2>1, <2>2
  <2>4. \A d \in Day : release'[d].saved # NoItem => Out(release'[d].saved)
    BY <2>1, <2>3 DEF Drafts
  <2>5. \/ Go(w, "fetch") /\ entry' = entry
        \/ \E result \in {"idle", "completed"} : Go(w, result) /\ Forget(w)
    BY <1>7 DEF Settle, ToRecord, Finish, Leave
  <2>6. \A v \in Worker : pc'[v] \in S => pc[v] \in S /\ entry'[v] = entry[v]
    BY <1>0, <2>5 DEF Go, Forget
  <2>7. QED
    BY <2>4, <2>6 DEF Drafts
<1>8. ASSUME NEW w \in Worker, ClaimRun(w) \/ RunRaises(w)
      PROVE  Saved
  <2>1. PICK s : release' = [release EXCEPT ![run[w]].status = s]
    BY <1>8 DEF ClaimRun, RunRaises
  <2>2. QED
    BY <1>0, <2>1
<1>9. ASSUME NEW w \in Worker,
             ClaimRun(w) \/ Skip(w) \/ Post(w) \/ PostFails(w)
      PROVE  Goal
  <2>1. Saved
    BY <1>8, <1>9 DEF Skip, Post, PostFails, rows
  <2>2. pc[w] \in S /\ (Go(w, "post") \/ Go(w, "settle")) /\ entry' = entry
    BY <1>9 DEF ClaimRun, Skip, Post, PostFails, job
  <2>3. QED
    BY <1>4, <2>1, <2>2
<1>10. ASSUME NEW w \in Worker,
              \/ ReadNothing(w) \/ Raises(w) \/ Duplicate(w) \/ RunRaises(w)
              \/ NoDraft(w) \/ End(w) \/ Crash(w)
       PROVE  Goal
  <2>1. Leave(w) \/ Finish(w, "completed") \/ Finish(w, "failed")
    BY <1>10 DEF ReadNothing, Raises, Duplicate, RunRaises, NoDraft, End, Crash
  <2>2. Saved
    BY <1>8, <1>10 DEF ReadNothing, Raises, Duplicate, NoDraft, End, Crash, rows
  <2>3. QED
    BY <1>3, <2>1, <2>2
<1>11. ASSUME NEW w \in Worker,
              Claim(w) \/ Command(w) \/ ReadBacklog(w) \/ WriteDraft(w)
       PROVE  Goal
  <2>1. Go(w, "read") \/ Go(w, "write") \/ Go(w, "fetch")
    BY <1>11 DEF Claim, Command, Start, ReadBacklog, WriteDraft
  <2>2. Saved /\ (entry' = entry \/ \E e : entry' = [entry EXCEPT ![w] = e])
    BY <1>11 DEF Claim, Command, Start, ReadBacklog, WriteDraft, rows
  <2>3. QED
    BY <1>1, <2>1, <2>2
<1>12. ASSUME NEW w \in Worker, Fetch(w) \/ Put(w) \/ PutFails(w)
       PROVE  Goal
  <2>1. Saved
    BY <1>12 DEF Fetch, Put, PutFails, rows
  <2>2. \/ Finish(w, "completed") \/ Finish(w, "failed")
        \/ (Go(w, "fetch") \/ Go(w, "put")) /\ entry' = entry
    BY <1>12 DEF Fetch, Put, PutFails, ToPut, Written, Again, job
  <2>3. QED
    BY <1>1, <1>3, <2>1, <2>2
<1>13. CASE Edit \/ Extend \/ MoveByHand \/ Midnight \/ UNCHANGED vars \/ \E w \in Worker : ChannelFails(w)
  <2>1. pc' = pc /\ entry' = entry /\ release' = release
    BY <1>13 DEF Edit, Extend, MoveByHand, Midnight, ChannelFails, vars, rows, worker, job
  <2>2. QED
    BY <2>1 DEF Drafts
<1>14. QED
  BY <1>5, <1>6, <1>7, <1>9, <1>10, <1>11, <1>12, <1>13, Zenon DEF Next, Work, Publish

LEMMA DraftsInductive ==
  TypeOK /\ Facts /\ ItemOnce /\ Drafts /\ [Next]_vars => Drafts'
<1> SUFFICES ASSUME TypeOK, Facts, ItemOnce, Drafts, [Next]_vars
             PROVE  Drafts'
  OBVIOUS
<1>1. FileStep /\ file \in File /\ TypeOK' /\ Facts'
  BY StepKeeps DEF TypeOK
<1>2. \A i \in Item : Out(i) => Out(i)'
  BY <1>1, OutStays
<1>3. ASSUME NEW w \in Worker, pc'[w] \in {"claim", "post", "settle"}
      PROVE  Out(entry[w].item)'
  <2>1. entry'[w].item \in Item
    BY <1>1, <1>3, Entries DEF Facts, Fact
  <2>2. PICK i \in Item : i = entry'[w].item
    BY <2>1
  <2>3. Out(i)
    BY <1>3, <2>2, DraftsCarried
  <2>4. Out(i)'
    BY <1>2, <2>3
  <2>5. QED
    BY <2>2, <2>4 DEF Out
<1>4. ASSUME NEW d \in Day, release'[d].saved # NoItem
      PROVE  Out(release[d].saved)'
  <2>1. release'[d].saved \in Item
    BY <1>1, <1>4 DEF TypeOK
  <2>2. PICK i \in Item : i = release'[d].saved
    BY <2>1
  <2>3. Out(i)
    BY <1>4, <2>2, DraftsCarried
  <2>4. Out(i)'
    BY <1>2, <2>3
  <2>5. QED
    BY <2>2, <2>4 DEF Out
<1>5. QED
  BY <1>3, <1>4 DEF Drafts

\* The public sees what a release run announces, and the file waits.
LEMMA ShowsOne ==
  ASSUME TypeOK, Facts, [Next]_vars
  PROVE  \/ posts' = posts
         \/ \E w \in Worker :
              /\ pc[w] = "post" /\ file' = file /\ entry[w] \in Entry
              /\ posts' = [posts EXCEPT ![entry[w].item] = Least(@ + 1, 2)]
<1>1. ASSUME NEW w \in Worker, Post(w) \/ PostFails(w), posts' # posts
      PROVE  /\ pc[w] = "post" /\ file' = file /\ entry[w] \in Entry
             /\ posts' = [posts EXCEPT ![entry[w].item] = Least(@ + 1, 2)]
  BY <1>1 DEF Post, PostFails, Visible, Facts, Fact
<1>2. ASSUME NEW w \in Worker,
             \/ Claim(w) \/ Command(w) \/ Crash(w) \/ (\E d \in Day : Retry(w, d))
             \/ ReadDrafted(w) \/ ReadBacklog(w) \/ ReadNothing(w) \/ Raises(w)
             \/ ClaimRun(w) \/ Duplicate(w) \/ Skip(w) \/ ChannelFails(w) \/ Settle(w)
             \/ RunRaises(w) \/ WriteDraft(w) \/ NoDraft(w) \/ Fetch(w) \/ Put(w)
             \/ PutFails(w) \/ End(w)
      PROVE  posts' = posts
  BY <1>2 DEF Claim, Command, Start, Crash, Retry, ReadDrafted, ReadBacklog, ReadNothing,
     Raises, ClaimRun, Duplicate, Skip, ChannelFails, Settle, RunRaises, WriteDraft, NoDraft,
     Fetch, Put, PutFails, End, public
<1>3. CASE Edit \/ Extend \/ MoveByHand \/ Midnight \/ UNCHANGED vars
  BY <1>3 DEF Edit, Extend, MoveByHand, Midnight, vars, public
<1>4. QED
  BY <1>1, <1>2, <1>3, Zenon DEF Next, Work, Publish

\* Every step of the queue is one of the board, or none.
LEMMA BoardStep ==
  ASSUME TypeOK, Facts, ItemOnce, Drafts, TypeOK', ItemOnce', [Next]_vars
  PROVE  [Board!Next]_(Board!boardVars)
<1>0. FileStep /\ file \in File /\ posts \in [Item -> 0..2] /\ posts' \in [Item -> 0..2]
  BY StepKeeps DEF TypeOK
<1>1. \A i \in Item : Alike(i) => Places'[i] = Places[i]
  BY DEF Alike, PlaceOf, Places
<1>2. CASE posts' = posts
  <2>0. Shown' = Shown
    BY <1>2 DEF Shown
  <2>1. CASE EntryDrafted
    <3>1. PICK i \in Item : /\ PlaceOf(file, i) = "backlog"
                            /\ Holds(file'.drafted, i) /\ ~Recorded(file', i)
                            /\ \A j \in Item \ {i} : Alike(j)
      BY <1>0, <2>1, DraftMoves
    <3>2. Places[i] = "backlog" /\ Places'[i] = "drafted"
      BY <3>1 DEF Places, PlaceOf
    <3>3. Places' = [Places EXCEPT ![i] = "drafted"]
      BY <1>1, <3>1, <3>2 DEF Places
    <3>4. Board!Draft(i)
      BY <2>0, <3>2, <3>3 DEF Board!Draft, Places, Shown
    <3>5. QED
      BY <3>4 DEF Board!Next
  <2>2. CASE EntryRecorded
    <3>1. PICK i \in Item : /\ PlaceOf(file, i) = "drafted" /\ posts[i] > 0
                            /\ Recorded(file', i)
                            /\ \A j \in Item \ {i} : Alike(j)
      BY <1>0, <2>2, RecordMoves
    <3>2. Places[i] = "drafted" /\ Places'[i] = "posted" /\ i \in Shown
      BY <3>1 DEF Places, PlaceOf, Shown
    <3>3. Places' = [Places EXCEPT ![i] = "posted"]
      BY <1>1, <3>1, <3>2 DEF Places
    <3>4. Board!Record(i)
      BY <2>0, <3>2, <3>3 DEF Board!Record, Places, Shown
    <3>5. QED
      BY <3>4 DEF Board!Next
  <2>3. CASE ~EntryDrafted /\ ~EntryRecorded
    <3>1. Places' = Places
      BY <1>0, <1>1, <2>3, EditsMoveNothing DEF Places
    <3>2. QED
      BY <2>0, <3>1 DEF Board!boardVars, Places, Shown
  <2>4. QED
    BY <2>1, <2>2, <2>3
<1>3. CASE posts' # posts
  <2>1. PICK w \in Worker :
          /\ pc[w] = "post" /\ file' = file /\ entry[w] \in Entry
          /\ posts' = [posts EXCEPT ![entry[w].item] = Least(@ + 1, 2)]
    BY <1>3, ShowsOne
  <2>2. PICK i \in Item : i = entry[w].item
    BY <2>1, Entries
  <2>3. Out(i)
    BY <2>1, <2>2 DEF Drafts
  <2>4. Places[i] \in {"drafted", "posted"}
    BY <2>3 DEF Out, Places, PlaceOf
  <2>5. posts'[i] > 0 /\ \A j \in Item \ {i} : posts'[j] = posts[j]
    <3>1. posts[i] \in 0..2
      BY <1>0
    <3>2. Least(posts[i] + 1, 2) > 0
      BY <3>1 DEF Least
    <3>3. QED
      BY <1>0, <2>1, <2>2, <3>2
  <2>6. Shown' = Shown \cup {i}
    BY <2>5 DEF Shown
  <2>7. Places' = Places
    BY <2>1 DEF Places
  <2>8. Board!Show(i)
    BY <2>4, <2>6, <2>7 DEF Board!Show, Places, Shown
  <2>9. QED
    BY <2>8 DEF Board!Next
<1>4. QED
  BY <1>2, <1>3

\* The file, the posts, the retries and the people together keep the board's
\* promise: an item is posted once it is a draft, and recorded once it is posted.
THEOREM QueueImplementsBoard ==
  ASSUME ListedOnce
  PROVE  Spec => ImplementsItemBoard
<1>1. Init => Board!Init
  <2> SUFFICES ASSUME Init
               PROVE  Board!Init
    OBVIOUS
  <2>0. file.posted = <<>>
    BY DEF Init
  <2>1. \A i \in Item : ~Recorded(file, i)
    BY <2>0 DEF Recorded
  <2>2. Places \in [Item -> {"absent", "backlog", "drafted"}]
    BY <2>1 DEF Places, PlaceOf
  <2>3. Shown = {}
    BY DEF Init, Shown
  <2>4. QED
    BY <2>2, <2>3 DEF Board!Init, Places, Shown
<1>2. Init => Drafts
  BY DEF Init, Drafts
<1>3. Spec => []ItemOnce
  BY ItemsOnce
<1>4. Spec => [](TypeOK /\ Facts /\ ItemOnce)
  BY <1>3, Invariant, PTL
<1>5. Spec => [](TypeOK /\ Facts /\ ItemOnce /\ Drafts)
  BY <1>2, <1>4, DraftsInductive, PTL DEF Spec
<1>6. /\ TypeOK /\ Facts /\ ItemOnce /\ Drafts
      /\ (TypeOK /\ Facts /\ ItemOnce /\ Drafts)'
      /\ [Next]_vars
      => [Board!Next]_(Board!boardVars)
  BY BoardStep
<1>7. QED
  BY <1>1, <1>5, <1>6, PTL DEF Spec, ImplementsItemBoard, Board!Spec

=============================================================================
