----------------------------- MODULE ContentQueue -----------------------------
(***************************************************************************)
(* The marketing queue of content_queue.py: a file in the target           *)
(* repository, read and written through GitHub, whose items go from        *)
(* Backlog to Drafted and, once posted to Bluesky, to Posted.              *)
(*                                                                         *)
(* A worker is a thread of the daemon that owns a day's slot, one of the   *)
(* release scheduler that retries a day's release run, or a person's       *)
(* command.  The blob sha is a hash of the content, so that a write        *)
(* carries the content it was computed from.  An item stands for the       *)
(* entries of one heading, each with a page of its own; of the channels,   *)
(* Bluesky alone decides what is recorded.                                 *)
(*                                                                         *)
(* What a worker read is looked for as a piece of the text: it is found as *)
(* long as nobody changed a word inside it, with whatever was put behind   *)
(* it since, and what was put behind it stays where the entry was.         *)
(***************************************************************************)
EXTENDS Naturals, Sequences

CONSTANTS
  Item,        \* what the queue announces
  NoItem,
  FirstBacklog, FirstDrafted, \* the items of the two sections, in order
  Worker,      \* threads and commands that may run at once
  MaxDay,      \* bound on the days that pass
  MaxText,     \* bound on the edits of an entry and on what is put behind it
  MaxActs,     \* bound on commands, edits and failures
  Window,      \* recent_posts_days
  AutoDraft,   \* auto_draft
  AutoPublish  \* auto_publish

Day == 0..MaxDay

ASSUME ContentQueueAssumption ==
  /\ NoItem \notin Item
  /\ FirstBacklog \in Seq(Item) /\ FirstDrafted \in Seq(Item)
  /\ MaxDay \in Nat /\ MaxText \in Nat /\ MaxActs \in Nat /\ Window \in Nat
  /\ AutoDraft \in BOOLEAN /\ AutoPublish \in BOOLEAN

VARIABLES
  file,     \* the committed queue file
  day,      \* today
  slot,     \* the ledger's row content-queue/content-queue-<day>
  release,  \* its row release-comms/content-queue-<day>, and the saved writer's item
  receipts, \* publications recorded for Bluesky: item, run and date
  posts,    \* Bluesky posts of an item; 2 stands for more
  pc, kind, \* where a worker is, and on whose behalf
  own, run, \* the days of its slot and of its release run
  entry,    \* the entry it publishes or drafts, as it read it
  draft,    \* the entry it will add to Drafted
  seen,     \* the file its next write is computed from
  tries,    \* writes that failed
  repeated, \* the release run found the post in the history it read
  url, error, \* the run has a public URL; some channel failed
  acts

rows == <<slot, release>>
public == <<receipts, posts>>
job == <<kind, own, run, entry, draft>>
pass == <<seen, tries, repeated, url, error>>
worker == <<pc, job, pass>>
vars == <<file, day, rows, public, worker, acts>>

-----------------------------------------------------------------------------
Least(a, b) == IF a <= b THEN a ELSE b

\* The edits of its words, how much was put behind them, and whether it has every
\* field that publish_drafted_item needs, or lets its line be drafted.
Entry == [item : Item, text : 0..MaxText, tail : Nat, ready : BOOLEAN]

Fresh(i, ready) == [item |-> i, text |-> 0, tail |-> 0, ready |-> ready]
NoEntry == [item |-> NoItem, text |-> 0, tail |-> 0, ready |-> FALSE]

NoFile == [backlog |-> <<>>, drafted |-> <<>>, posted |-> <<>>]

Section(items) == [n \in DOMAIN items |-> Fresh(items[n], TRUE)]

Holds(s, i) == \E n \in DOMAIN s : s[n].item = i

\* item.block in text, item.line in text: e still begins with what was read as r.
Matches(e, r) == e.item = r.item /\ e.text = r.text /\ e.tail >= r.tail
Found(s, r) == \E n \in DOMAIN s : Matches(s[n], r)

\* next_publishable_drafted and next_backlog_item: the first entry that is ready.
IsTop(s, e) ==
  \E n \in DOMAIN s : s[n] = e /\ e.ready /\ \A m \in 1..(n - 1) : ~s[m].ready

NoneReady(s) == \A n \in DOMAIN s : ~s[n].ready

\* _remove_backlog_line: the line is cut, and what was put behind it makes no entry.
Without(s, r) ==
  IF Found(s, r)
  THEN [n \in 1..(Len(s) - 1) |->
          IF \E m \in 1..n : Matches(s[m], r) THEN s[n + 1] ELSE s[n]]
  ELSE s

\* The entry before a cut one goes on with what is left; it may complete it.
Joined(e, left, completes) ==
  [e EXCEPT !.tail = @ + left, !.ready = @ \/ (left > 0 /\ completes)]

\* replace(item.block, "", 1) in Drafted.
Cut(s, r, completes) ==
  IF Found(s, r)
  THEN [n \in 1..(Len(s) - 1) |->
          IF \E m \in 1..n : Matches(s[m], r) THEN s[n + 1]
          ELSE IF Matches(s[n + 1], r) THEN Joined(s[n], s[n + 1].tail - r.tail, completes)
          ELSE s[n]]
  ELSE s

Go(w, place) == pc' = [pc EXCEPT ![w] = place]

Forget(w) ==
  /\ run' = [run EXCEPT ![w] = 0]
  /\ entry' = [entry EXCEPT ![w] = NoEntry] /\ draft' = [draft EXCEPT ![w] = NoEntry]
  /\ seen' = [seen EXCEPT ![w] = NoFile] /\ tries' = [tries EXCEPT ![w] = 0]
  /\ repeated' = [repeated EXCEPT ![w] = FALSE]
  /\ url' = [url EXCEPT ![w] = FALSE] /\ error' = [error EXCEPT ![w] = FALSE]

Leave(w) ==
  /\ Go(w, "idle") /\ Forget(w)
  /\ kind' = [kind EXCEPT ![w] = "none"] /\ own' = [own EXCEPT ![w] = 0]

\* The work is over; only a thread of the daemon has a slot to settle.
Finish(w, result) ==
  \/ kind[w] = "daemon" /\ Go(w, result) /\ Forget(w) /\ UNCHANGED <<kind, own>>
  \/ kind[w] # "daemon" /\ Leave(w)

Acts == acts < MaxActs /\ acts' = acts + 1

\* A row may be claimed unless it is final or its worker lives.
Claimable(status, live) == status \in {"absent", "failed"} \/ (status = "running" /\ ~live)

Owns(w, d) == pc[w] # "idle" /\ kind[w] = "daemon" /\ own[w] = d
Publishes(w, d) == pc[w] \in {"post", "settle"} /\ run[w] = d

-----------------------------------------------------------------------------
(* content_queue_scheduler, post-queue, draft-queue and the retries of      *)
(* release_comms_scheduler.                                                 *)

Start(w, k) ==
  /\ pc[w] = "idle"
  /\ kind' = [kind EXCEPT ![w] = k]
  /\ Go(w, "read")
  /\ UNCHANGED <<file, day, release, public, run, entry, draft, pass>>

\* The daemon claims the slot of the day.
Claim(w) ==
  /\ Claimable(slot[day], \E v \in Worker : Owns(v, day))
  /\ slot' = [slot EXCEPT ![day] = "running"]
  /\ own' = [own EXCEPT ![w] = day]
  /\ Start(w, "daemon")
  /\ UNCHANGED acts

\* post-queue, with or without --publish, and draft-queue.
Command(w) ==
  /\ \E k \in {"post", "preview", "draft"} : Start(w, k)
  /\ Acts
  /\ UNCHANGED <<slot, own>>

\* A failed or orphaned release run is taken up again with the writer's result it
\* saved.
Retry(w, d) ==
  /\ pc[w] = "idle"
  /\ release[d].status # "absent" /\ release[d].saved # NoItem
  /\ Claimable(release[d].status, \E v \in Worker : Publishes(v, d))
  /\ kind' = [kind EXCEPT ![w] = "retry"]
  /\ run' = [run EXCEPT ![w] = d]
  /\ entry' = [entry EXCEPT ![w] = Fresh(release[d].saved, TRUE)]
  /\ Go(w, "claim")
  /\ UNCHANGED <<file, day, rows, public, own, draft, pass, acts>>

\* read_queue_file: a ready entry of Drafted is published today ...
ReadDrafted(w) ==
  /\ pc[w] = "read" /\ kind[w] # "draft"
  /\ \E n \in DOMAIN file.drafted :
       /\ IsTop(file.drafted, file.drafted[n])
       /\ entry' = [entry EXCEPT ![w] = file.drafted[n]]
  /\ run' = [run EXCEPT ![w] = day]
  /\ Go(w, "claim")
  /\ UNCHANGED <<file, day, rows, public, kind, own, draft, pass, acts>>

\* ... else a line of Backlog is drafted ...
ReadBacklog(w) ==
  /\ pc[w] = "read"
  /\ kind[w] = "draft" \/ (kind[w] = "daemon" /\ NoneReady(file.drafted) /\ AutoDraft)
  /\ \E n \in DOMAIN file.backlog :
       /\ IsTop(file.backlog, file.backlog[n])
       /\ entry' = [entry EXCEPT ![w] = file.backlog[n]]
  /\ Go(w, "write")
  /\ UNCHANGED <<file, day, rows, public, kind, own, run, draft, pass, acts>>

\* ... else there is nothing to do.
ReadNothing(w) ==
  /\ pc[w] = "read"
  /\ kind[w] # "draft" => NoneReady(file.drafted)
  /\ \/ kind[w] \in {"draft", "daemon"} /\ NoneReady(file.backlog)
     \/ kind[w] = "daemon" /\ ~AutoDraft
     \/ kind[w] \in {"post", "preview"}
  /\ Finish(w, "completed")
  /\ UNCHANGED <<file, day, rows, public, acts>>

\* A call of GitHub, of an agent or of git raises.
Raises(w) ==
  /\ pc[w] \in {"read", "write", "fetch"}
  /\ Acts
  /\ Finish(w, "failed")
  /\ UNCHANGED <<file, day, rows, public>>

\* complete_run settles the slot.
End(w) ==
  /\ pc[w] \in {"completed", "failed"}
  /\ slot' = [slot EXCEPT ![own[w]] = pc[w]]
  /\ Leave(w)
  /\ UNCHANGED <<file, day, release, public, acts>>

-----------------------------------------------------------------------------
(* publish_drafted_item: run_release_comms for one message.                 *)

\* The keys of the run itself and the announcements of other runs in the last
\* recent_posts_days.
Repeats(i, d) ==
  \E r \in receipts : r.item = i /\ (r.run = d \/ r.on + Window >= day)

\* The run publishes nothing: post-queue without --publish, or the daemon where
\* auto_publish is off.
Previews(w) == kind[w] = "preview" \/ (kind[w] = "daemon" /\ ~AutoPublish)

\* The run is claimed and reads what was announced before.
ClaimRun(w) ==
  /\ pc[w] = "claim"
  /\ Claimable(release[run[w]].status, \E v \in Worker : Publishes(v, run[w]))
  /\ release' = [release EXCEPT ![run[w]].status = "running"]
  /\ repeated' = [repeated EXCEPT ![w] = Repeats(entry[w].item, run[w])]
  /\ url' = [url EXCEPT ![w] = FALSE] /\ error' = [error EXCEPT ![w] = FALSE]
  /\ Go(w, IF Previews(w) THEN "settle" ELSE "post")
  /\ UNCHANGED <<file, day, slot, public, job, seen, tries, acts>>

\* DuplicateRunError.
Duplicate(w) ==
  /\ pc[w] = "claim"
  /\ ~Claimable(release[run[w]].status, \E v \in Worker : Publishes(v, run[w]))
  /\ Finish(w, "failed")
  /\ UNCHANGED <<file, day, rows, public, acts>>

\* An announcement that repeats an earlier one is left out.
Skip(w) ==
  /\ pc[w] = "post" /\ repeated[w]
  /\ Go(w, "settle")
  /\ UNCHANGED <<file, day, rows, public, job, pass, acts>>

Visible(w) == posts' = [posts EXCEPT ![entry[w].item] = Least(@ + 1, 2)]

\* The post is published and its receipt recorded.
Post(w) ==
  /\ pc[w] = "post" /\ ~repeated[w]
  /\ Visible(w)
  /\ receipts' = receipts \cup {[item |-> entry[w].item, run |-> run[w], on |-> day]}
  /\ url' = [url EXCEPT ![w] = TRUE]
  /\ Go(w, "settle")
  /\ UNCHANGED <<file, day, rows, job, seen, tries, repeated, error, acts>>

\* Bluesky or the image fails, or only the answer of Bluesky is lost.
PostFails(w) ==
  /\ pc[w] = "post" /\ ~repeated[w]
  /\ Acts
  /\ Visible(w) \/ UNCHANGED posts
  /\ error' = [error EXCEPT ![w] = TRUE]
  /\ Go(w, "settle")
  /\ UNCHANGED <<file, day, rows, receipts, job, seen, tries, repeated, url>>

\* Another channel of the announcement fails.
ChannelFails(w) ==
  /\ pc[w] = "settle" /\ ~Previews(w) /\ ~error[w]
  /\ Acts
  /\ error' = [error EXCEPT ![w] = TRUE]
  /\ UNCHANGED <<file, day, rows, public, pc, job, seen, tries, repeated, url>>

ToRecord(w) ==
  /\ Go(w, "fetch")
  /\ run' = [run EXCEPT ![w] = 0] /\ repeated' = [repeated EXCEPT ![w] = FALSE]
  /\ url' = [url EXCEPT ![w] = FALSE] /\ error' = [error EXCEPT ![w] = FALSE]
  /\ UNCHANGED <<kind, own, entry, draft, seen, tries>>

\* Variant: the outcome is recorded without asking for a public URL.
SettleAnyway(w) ==
  /\ pc[w] = "settle"
  /\ \/ /\ error[w]
        /\ release' = [release EXCEPT ![run[w]] =
             [status |-> "failed", saved |-> entry[w].item]]
     \/ /\ ~error[w]
        /\ release' = [release EXCEPT ![run[w]].status = "completed"]
  /\ \/ kind[w] \in {"daemon", "post"} /\ ToRecord(w)
     \/ kind[w] \notin {"daemon", "post"} /\ Finish(w, "completed")
  /\ UNCHANGED <<file, day, slot, public, acts>>

\* The run is completed, or failed and saved for a retry.  A worker that has a
\* public URL records it in the file; the retries of the scheduler do not.
Settle(w) ==
  /\ pc[w] = "settle"
  /\ \/ /\ error[w]
        /\ release' = [release EXCEPT ![run[w]] =
             [status |-> "failed", saved |-> entry[w].item]]
     \/ /\ ~error[w]
        /\ release' = [release EXCEPT ![run[w]].status = "completed"]
  /\ \/ url[w] /\ kind[w] \in {"daemon", "post"} /\ ToRecord(w)
     \/ (~url[w] \/ kind[w] \notin {"daemon", "post"}) /\ Finish(w, "completed")
  /\ UNCHANGED <<file, day, slot, public, acts>>

\* The workflow raises: before the post, or between it and the settled run.
RunRaises(w) ==
  /\ pc[w] \in {"post", "settle"}
  /\ Acts
  /\ release' = [release EXCEPT ![run[w]].status = "failed"]
  /\ Finish(w, "failed")
  /\ UNCHANGED <<file, day, slot, public>>

-----------------------------------------------------------------------------
(* draft_backlog_item, _record_posted and _apply_with_retry.                *)

\* The writer pass returns a draft; its image may be a _TODO.
WriteDraft(w) ==
  /\ pc[w] = "write"
  /\ \E ready \in BOOLEAN : draft' = [draft EXCEPT ![w] = Fresh(entry[w].item, ready)]
  /\ Go(w, "fetch")
  /\ UNCHANGED <<file, day, rows, public, kind, own, run, entry, pass, acts>>

\* The pass returns no usable draft.
NoDraft(w) ==
  /\ pc[w] = "write"
  /\ Finish(w, "completed")
  /\ UNCHANGED <<file, day, rows, public, acts>>

Drafting(w) == draft[w] # NoEntry

ToPut(w) ==
  /\ seen' = [seen EXCEPT ![w] = file]
  /\ Go(w, "put")
  /\ UNCHANGED <<job, tries, repeated, url, error>>

\* Variant: the entry is not looked for.
FetchBlind(w) ==
  /\ pc[w] = "fetch"
  /\ ToPut(w)
  /\ UNCHANGED <<file, day, rows, public, acts>>

\* The live file is read; an entry whose words are not there any more is left alone.
Fetch(w) ==
  /\ pc[w] = "fetch"
  /\ LET there == Found(IF Drafting(w) THEN file.backlog ELSE file.drafted, entry[w])
     IN \/ there /\ ToPut(w)
        \/ ~there /\ Finish(w, "completed")
  /\ UNCHANGED <<file, day, rows, public, acts>>

\* Variant: the whole entry is kept in Posted.
MovedWhole(w, f, completes) ==
  IF Drafting(w)
  THEN [f EXCEPT !.backlog = Without(@, entry[w]), !.drafted = Append(@, draft[w])]
  ELSE [f EXCEPT !.drafted = Cut(@, entry[w], completes), !.posted = <<entry[w]>> \o @]

\* The entry goes to the end of Drafted, or to the top of Posted.
Moved(w, f, completes) ==
  IF Drafting(w)
  THEN [f EXCEPT !.backlog = Without(@, entry[w]), !.drafted = Append(@, draft[w])]
  ELSE [f EXCEPT !.drafted = Cut(@, entry[w], completes), !.posted = <<entry[w].item>> \o @]

\* The write is tried twice.
Again(w) ==
  \/ /\ tries[w] = 0
     /\ tries' = [tries EXCEPT ![w] = 1] /\ seen' = [seen EXCEPT ![w] = NoFile]
     /\ Go(w, "fetch")
     /\ UNCHANGED <<job, repeated, url, error>>
  \/ tries[w] = 1 /\ Finish(w, "failed")

Written(w) ==
  \/ Finish(w, "completed") /\ UNCHANGED acts
  \/ Again(w) /\ Acts

\* Variant: the write has no precondition.
PutBlind(w) ==
  /\ pc[w] = "put"
  /\ \E completes \in BOOLEAN : file' = Moved(w, seen[w], completes)
  /\ Written(w)
  /\ UNCHANGED <<day, rows, public>>

\* GitHub accepts the write of a file that nobody changed; its answer may be lost.
Put(w) ==
  /\ pc[w] = "put" /\ file = seen[w]
  /\ \E completes \in BOOLEAN : file' = Moved(w, seen[w], completes)
  /\ Written(w)
  /\ UNCHANGED <<day, rows, public>>

\* The file is another one, or GitHub fails.
PutFails(w) ==
  /\ pc[w] = "put"
  /\ \/ file # seen[w] /\ UNCHANGED acts
     \/ file = seen[w] /\ Acts
  /\ Again(w)
  /\ UNCHANGED <<file, day, rows, public>>

-----------------------------------------------------------------------------
(* People, the calendar and the host.                                       *)

Edited(s, n) ==
  {[s EXCEPT ![n].text = @ + 1, ![n].ready = ready] : ready \in BOOLEAN}

\* Somebody changes an entry inside, and may complete it or block it.
Edit ==
  /\ Acts
  /\ \/ \E n \in DOMAIN file.drafted :
          /\ file.drafted[n].text < MaxText
          /\ \E s \in Edited(file.drafted, n) : file' = [file EXCEPT !.drafted = s]
     \/ \E n \in DOMAIN file.backlog :
          /\ file.backlog[n].text < MaxText
          /\ \E s \in Edited(file.backlog, n) : file' = [file EXCEPT !.backlog = s]
  /\ UNCHANGED <<day, rows, public, worker>>

Extended(s, n, ready) == [s EXCEPT ![n].tail = @ + 1, ![n].ready = ready]

\* Somebody puts something behind an entry and leaves its words alone: a field or a
\* paragraph that may complete a draft, a note at the end of a line that may block it.
Extend ==
  /\ Acts
  /\ \/ \E n \in DOMAIN file.drafted, ready \in BOOLEAN :
          /\ file.drafted[n].tail < MaxText
          /\ file.drafted[n].ready => ready
          /\ file' = [file EXCEPT !.drafted = Extended(@, n, ready)]
     \/ \E n \in DOMAIN file.backlog, ready \in BOOLEAN :
          /\ file.backlog[n].tail < MaxText
          /\ ready => file.backlog[n].ready
          /\ file' = [file EXCEPT !.backlog = Extended(@, n, ready)]
  /\ UNCHANGED <<day, rows, public, worker>>

\* Somebody who sees the post moves its entry to Posted, where headings have a date.
MoveByHand ==
  /\ Acts
  /\ \E n \in DOMAIN file.drafted :
       LET e == file.drafted[n] IN
       /\ posts[e.item] > 0
       /\ file' = [file EXCEPT !.drafted = Without(@, e), !.posted = <<e.item>> \o @]
  /\ UNCHANGED <<day, rows, public, worker>>

Midnight ==
  /\ day < MaxDay
  /\ day' = day + 1
  /\ UNCHANGED <<file, rows, public, worker, acts>>

\* The process of a worker ends; its rows stay as they are.
Crash(w) ==
  /\ pc[w] # "idle"
  /\ Acts
  /\ Leave(w)
  /\ UNCHANGED <<file, day, rows, public>>

-----------------------------------------------------------------------------
Init ==
  /\ file = [backlog |-> Section(FirstBacklog), drafted |-> Section(FirstDrafted),
             posted |-> <<>>]
  /\ day = 0
  /\ slot = [d \in Day |-> "absent"]
  /\ release = [d \in Day |-> [status |-> "absent", saved |-> NoItem]]
  /\ receipts = {} /\ posts = [i \in Item |-> 0]
  /\ pc = [w \in Worker |-> "idle"] /\ kind = [w \in Worker |-> "none"]
  /\ own = [w \in Worker |-> 0] /\ run = [w \in Worker |-> 0]
  /\ entry = [w \in Worker |-> NoEntry] /\ draft = [w \in Worker |-> NoEntry]
  /\ seen = [w \in Worker |-> NoFile] /\ tries = [w \in Worker |-> 0]
  /\ repeated = [w \in Worker |-> FALSE]
  /\ url = [w \in Worker |-> FALSE] /\ error = [w \in Worker |-> FALSE]
  /\ acts = 0

Publish(w) ==
  \/ ClaimRun(w) \/ Duplicate(w) \/ Skip(w) \/ Post(w) \/ PostFails(w)
  \/ ChannelFails(w) \/ Settle(w) \/ RunRaises(w)

Work(w) ==
  \/ ReadDrafted(w) \/ ReadBacklog(w) \/ ReadNothing(w) \/ Raises(w) \/ Publish(w)
  \/ WriteDraft(w) \/ NoDraft(w) \/ Fetch(w) \/ Put(w) \/ PutFails(w) \/ End(w)

Next ==
  \/ \E w \in Worker : \/ Claim(w) \/ Command(w) \/ Work(w) \/ Crash(w)
                       \/ \E d \in Day : Retry(w, d)
  \/ Edit \/ Extend \/ MoveByHand \/ Midnight

Spec == Init /\ [][Next]_vars

-----------------------------------------------------------------------------
(* Properties.                                                              *)

Place == {"idle", "read", "claim", "post", "settle", "write", "fetch", "put",
          "completed", "failed"}

File == [backlog : Seq(Entry), drafted : Seq(Entry), posted : Seq(Item)]

\* The variables have their types.
TypeOK ==
  /\ file \in File
  /\ day \in Day
  /\ slot \in [Day -> {"absent", "running", "failed", "completed"}]
  /\ release \in [Day -> [status : {"absent", "running", "failed", "completed"},
                          saved : Item \cup {NoItem}]]
  /\ receipts \in SUBSET [item : Item, run : Day, on : Day]
  /\ posts \in [Item -> 0..2]
  /\ pc \in [Worker -> Place]
  /\ kind \in [Worker -> {"none", "daemon", "post", "preview", "draft", "retry"}]
  /\ own \in [Worker -> Day] /\ run \in [Worker -> Day]
  /\ entry \in [Worker -> Entry \cup {NoEntry}]
  /\ draft \in [Worker -> Entry \cup {NoEntry}]
  /\ seen \in [Worker -> File] /\ tries \in [Worker -> {0, 1}]
  /\ repeated \in [Worker -> BOOLEAN]
  /\ url \in [Worker -> BOOLEAN] /\ error \in [Worker -> BOOLEAN]
  /\ acts \in Nat

Distinct(s) == \A m, n \in DOMAIN s : s[m].item = s[n].item => m = n
Recorded(f, i) == \E n \in DOMAIN f.posted : f.posted[n] = i

\* An item is never in two sections and never recorded twice: not by a write whose
\* answer was lost and that is tried again, not by two workers with one entry.
ItemOnce ==
  /\ Distinct(file.backlog) /\ Distinct(file.drafted)
  /\ \A m, n \in DOMAIN file.posted : file.posted[m] = file.posted[n] => m = n
  /\ \A i \in Item :
       /\ ~(Holds(file.backlog, i) /\ Holds(file.drafted, i))
       /\ Recorded(file, i) => ~Holds(file.backlog, i) /\ ~Holds(file.drafted, i)

\* What the file calls posted was posted: a run that completes without a public
\* URL, because it repeats, was refused or was a preview, records nothing.
PostedIsPublic == \A n \in DOMAIN file.posted : posts[file.posted[n]] > 0

\* content_queue.py, "don't clobber a concurrent edit": a step of a worker takes an
\* entry out of its section only to move it on, and only one that still has the
\* words this worker read; it takes no words away from any other, and brings back no
\* older text of one.  (What was put behind those words after they were read is not
\* asked for: it stays behind.)
EditsSurvive ==
  [][worker' # worker =>
       /\ \A n \in DOMAIN file.drafted :
            \/ Found(file'.drafted, file.drafted[n])
            \/ /\ Recorded(file', file.drafted[n].item)
               /\ \E w \in Worker : pc'[w] # pc[w] /\ ~Drafting(w)
                                    /\ Matches(file.drafted[n], entry[w])
       /\ \A n \in DOMAIN file.backlog :
            \/ Found(file'.backlog, file.backlog[n])
            \/ /\ Holds(file'.drafted, file.backlog[n].item)
               /\ \E w \in Worker : pc'[w] # pc[w] /\ Drafting(w)
                                    /\ Matches(file.backlog[n], entry[w])]_vars

\* Where the file has an item.
PlaceOf(f, i) ==
  IF Recorded(f, i) THEN "posted"
  ELSE IF Holds(f.drafted, i) THEN "drafted"
  ELSE IF Holds(f.backlog, i) THEN "backlog" ELSE "absent"

\* Whatever workers, retries, lost answers and people do to the file, an item goes
\* forward in it, one at a time; nothing is posted that is not, or no longer, a
\* draft, and nothing is recorded that was not posted.
Board == INSTANCE ItemBoard WITH
  place <- [i \in Item |-> PlaceOf(file, i)],
  shown <- {i \in Item : posts[i] > 0}

ImplementsItemBoard == Board!Spec

\* Nothing runs, and today's slot and every release run were completed.
AtRest ==
  /\ \A w \in Worker : pc[w] = "idle"
  /\ slot[day] = "completed"
  /\ \A d \in Day : release[d].status \in {"absent", "completed"}

\* content_queue.py, DRAFTED_HEADING, "## Drafted (not yet posted)", and
\* publish_drafted_item, "then record the outcome in the queue file": at rest, no
\* entry under that heading was posted.
DraftedIsNotPosted ==
  AtRest => \A n \in DOMAIN file.drafted : posts[file.drafted[n].item] = 0
=============================================================================
