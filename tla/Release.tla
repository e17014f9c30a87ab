------------------------------- MODULE Release -------------------------------
(***************************************************************************)
(* Release announcements: run_release_comms and the publishing it ends in, *)
(* called by webhook threads, by the command line and by the scheduler     *)
(* thread that resumes scheduled, failed and orphaned runs.                *)
(*                                                                         *)
(* Promotions are numbered in the order of their commits, so a run's       *)
(* number is also the commit it deploys, and a commit is an ancestor of    *)
(* another when its number is not greater.  A message is one drafted       *)
(* announcement; what it says is abstracted to the page it announces, the  *)
(* channels that carry it and whether it is attributed to features.        *)
(***************************************************************************)
EXTENDS Naturals, FiniteSets

CONSTANTS
  LastRun,      \* bound: promotions are 1..LastRun
  Worker,       \* threads and processes that execute run_release_comms
  Message,      \* announcements that may be drafted
  Page,         \* page slugs
  Content,      \* the messages that are content posts, not the writers' drafts
  Channel,      \* enabled destinations, a Discord server being one each
  ContentChannels, \* those that carry content posts: Instagram and the podcast
  PageOf,       \* the page a message links to
  Attributed,   \* the messages that carry featureIds
  DeployedBy,   \* the promotion that first deploys a page
  Rank,         \* the order in which a batch visits its channels
  Threads,      \* channels that publish a checkpointed container
  Podcast,      \* channels whose publisher is idempotent
  Discord,      \* destinations visited by one publish_discord call
  Illustrated,  \* channels that need the batch's image
  Noted,        \* runs whose evaluator returns an internal note
  MaxFailed,    \* MAX_FAILED_RETRY_ATTEMPTS
  MaxScheduled, \* MAX_SCHEDULED_RESUME_ATTEMPTS
  MaxTriggers,  \* bound on webhook deliveries and command line calls
  MaxCrashes,   \* bound on processes that end between two steps
  NoRun, NoMessage

Run == 1..LastRun
Key == Channel \X Message

ASSUME ReleaseAssumption ==
  /\ LastRun \in Nat \ {0} /\ MaxFailed \in Nat /\ MaxScheduled \in Nat
  /\ MaxTriggers \in Nat /\ MaxCrashes \in Nat
  /\ PageOf \in [Message -> Page] /\ Attributed \subseteq Message
  /\ Content \subseteq Message /\ ContentChannels \subseteq Channel
  /\ DeployedBy \in [Page -> Run]
  /\ Rank \in [Channel -> Nat] /\ \A c, d \in Channel : Rank[c] = Rank[d] => c = d
  /\ Threads \subseteq Channel /\ Podcast \subseteq Channel /\ Threads \cap Podcast = {}
  /\ Discord \subseteq Channel /\ Illustrated \subseteq Channel
  /\ Noted \subseteq Run
  /\ NoRun \notin Run /\ NoMessage \notin Message
  /\ Page \cap Message = {}

VARIABLES
  row,        \* the ledger's row of each run
  receipts,   \* published or staged receipts of each run
  boxes,      \* pending receipts: the checkpointed containers of each run
  spent,      \* the checkpointed containers that have been published
  posts,      \* what each run has put before the public; 2 stands for more
  noted,      \* runs with a receipt for their internal note
  notes,      \* how often a run's note has been posted; 2 stands for more
  slotOpen,   \* now >= next_start_slot in the scheduler
  pc, job, mode,  \* where each worker is, its run, and who called it
  saved,      \* the row's metadata as the worker read it
  handled,    \* handled_shas as the worker loaded them
  recent,     \* recent_announcements as the worker loaded them
  known,      \* already_published
  held,       \* pending_provider_ids as the worker loaded them
  plan,       \* the worker's drafts and the commit their diff starts from
  batch,      \* the message being published
  todo,       \* channels of the batch not attempted yet
  failed,     \* the batch has an error
  triggers, crashes

ledger == <<row, receipts, boxes, noted>>
public == <<posts, spent, notes>>
loaded == <<saved, handled, recent, held>>
work == <<plan, batch, todo, failed>>
bounds == <<triggers, crashes>>
vars == <<ledger, public, slotOpen, pc, job, mode, loaded, known, work, bounds>>

-----------------------------------------------------------------------------
Final == {"completed", "rejected"}
Status == {"absent", "running", "scheduled", "failed"} \cup Final

\* A row's metadata: _release_comms_resume, when something is drafted, with the
\* pinned previous_sha, and _release_comms_retry_exhausted.
Metadata == [drafted : BOOLEAN, drafts : SUBSET Message, base : 0..LastRun,
             exhausted : BOOLEAN]
NoMetadata == [drafted |-> FALSE, drafts |-> {}, base |-> 0, exhausted |-> FALSE]

\* resolved: an attempt of the run has emitted the commit it evaluates up to.
Row == [status : Status, attempt : Nat, due : BOOLEAN, preview : BOOLEAN,
        resolved : BOOLEAN, meta : Metadata]
AbsentRow == [status |-> "absent", attempt |-> 0, due |-> TRUE,
              preview |-> FALSE, resolved |-> FALSE, meta |-> NoMetadata]

\* The channels with_derived_channels and merge_drafts recommend for a message.
ChannelsOf(m) == IF m \in Content THEN ContentChannels ELSE Channel \ Podcast

\* message_id, and the page of a draft without featureIds.
Identity(m) == IF m \in Attributed THEN m ELSE PageOf[m]

\* publication_key of two messages on one channel is the same.
Covers(keys, c, m) ==
  \E n \in Message : <<c, n>> \in keys /\ Identity(n) = Identity(m)

\* recent_announcements: what every other run has a receipt for.
Recent(r) == UNION {receipts[q] : q \in Run \ {r}}

\* repeated_publication_keys leaves message_id out of the keys it returns, so a
\* page suppresses only drafts without featureIds; an attributed draft is
\* suppressed by the same features.
Suppressed(history, c, m) ==
  \E n \in Message :
    /\ <<c, n>> \in history
    /\ IF m \in Attributed THEN n = m ELSE PageOf[n] = PageOf[m]

\* earlier_release_shas: the commits other runs have evaluated up to.
Handled(r) ==
  {q \in Run \ {r} : /\ row[q].resolved
                     /\ row[q].status \in {"running", "scheduled"} \cup Final}

\* narrow_previous_sha makes base of p, the promotion that GitHub reports as the
\* previous one of r.
Narrowed(r, p, shas, base) ==
  LET between == {q \in shas : q > p /\ q < r}
  IN \/ between = {} /\ base = p
     \/ base \in between /\ \A q \in between : q <= base

\* Messages about the pages deployed after base, up to r.
InRange(r, base) ==
  {m \in Message : DeployedBy[PageOf[m]] > base /\ DeployedBy[PageOf[m]] <= r}

\* pending_publication_count: the writes of the drafts without a key in done.
Pending(drafts, done) ==
  {k \in Key : /\ k[2] \in drafts /\ k[1] \in ChannelsOf(k[2])
               /\ ~Covers(done, k[1], k[2])}

More(n) == IF n = 0 THEN 1 ELSE 2

Busy(w) == pc[w] \notin {"idle", "read", "claim"}

\* The run is claimed by a process that is alive: claim_run refuses it.
Held(r) == \E w \in Worker : Busy(w) /\ job[w] = r

Go(w, place) == pc' = [pc EXCEPT ![w] = place]

Leave(w) ==
  /\ Go(w, "idle")
  /\ job' = [job EXCEPT ![w] = NoRun]
  /\ mode' = [mode EXCEPT ![w] = "none"]
  /\ saved' = [saved EXCEPT ![w] = NoMetadata]
  /\ handled' = [handled EXCEPT ![w] = {}]
  /\ recent' = [recent EXCEPT ![w] = {}]
  /\ held' = [held EXCEPT ![w] = {}]
  /\ known' = [known EXCEPT ![w] = {}]
  /\ plan' = [plan EXCEPT ![w] = NoMetadata]
  /\ batch' = [batch EXCEPT ![w] = NoMessage]
  /\ todo' = [todo EXCEPT ![w] = {}]
  /\ failed' = [failed EXCEPT ![w] = FALSE]

-----------------------------------------------------------------------------
(* Who calls run_release_comms.                                             *)

Call(w, r, who) ==
  /\ pc[w] = "idle"
  /\ Go(w, "read")
  /\ job' = [job EXCEPT ![w] = r]
  /\ mode' = [mode EXCEPT ![w] = who]
  /\ UNCHANGED <<ledger, public, loaded, known, work, crashes>>

\* The promotion's webhook, or the command line with --publish.
Trigger(w, r) ==
  /\ triggers < MaxTriggers
  /\ triggers' = triggers + 1
  /\ Call(w, r, "publish")
  /\ UNCHANGED slotOpen

\* The command line without --publish: a dry run.
Preview(w, r) ==
  /\ triggers < MaxTriggers
  /\ triggers' = triggers + 1
  /\ Call(w, r, "preview")
  /\ UNCHANGED slotOpen

AttemptCap(r) == IF row[r].status = "scheduled" THEN MaxScheduled ELSE MaxFailed

\* A running row is an orphan when nobody alive holds it.
Resumable(r) ==
  \/ row[r].status = "scheduled" /\ row[r].due
  \/ row[r].status = "failed"
  \/ row[r].status = "running" /\ ~Held(r)

\* Variant: only scheduled runs are given up.
GiveUpScheduled(r) ==
  /\ Resumable(r) /\ row[r].status = "scheduled"
  /\ row[r].attempt >= AttemptCap(r) /\ ~row[r].meta.exhausted
  /\ row' = [row EXCEPT ![r].meta.exhausted = TRUE]
  /\ UNCHANGED <<receipts, boxes, noted, public, slotOpen, pc, job, mode, loaded,
                 known, work, bounds>>

GiveUp(r) ==
  /\ Resumable(r) /\ row[r].attempt >= AttemptCap(r) /\ ~row[r].meta.exhausted
  /\ row' = [row EXCEPT ![r].meta.exhausted = TRUE]
  /\ UNCHANGED <<receipts, boxes, noted, public, slotOpen, pc, job, mode, loaded,
                 known, work, bounds>>

ResumeRun(w, r) ==
  /\ Resumable(r) /\ row[r].attempt < AttemptCap(r)
  /\ slotOpen
  /\ \A v \in Worker : ~(mode[v] = "scheduler" /\ job[v] = r)
  /\ slotOpen' = FALSE
  /\ Call(w, r, "scheduler")
  /\ UNCHANGED triggers

OpenSlot ==
  /\ ~slotOpen /\ slotOpen' = TRUE
  /\ UNCHANGED <<ledger, public, pc, job, mode, loaded, known, work, bounds>>

FallDue(r) ==
  /\ row[r].status = "scheduled" /\ ~row[r].due
  /\ row' = [row EXCEPT ![r].due = TRUE]
  /\ UNCHANGED <<receipts, boxes, noted, public, slotOpen, pc, job, mode, loaded,
                 known, work, bounds>>

-----------------------------------------------------------------------------
(* run_release_comms, up to publish_destinations.                           *)

Open(r) == row[r].status \in {"scheduled", "failed", "running"}

\* repository.get_run: the row's metadata is read before the claim.
Read(w) ==
  LET r == job[w] IN
  /\ pc[w] = "read"
  /\ \/ /\ row[r].status = "scheduled" /\ ~row[r].due
        /\ Leave(w)
     \/ /\ ~(row[r].status = "scheduled" /\ ~row[r].due)
        /\ saved' = [saved EXCEPT ![w] = IF Open(r) THEN row[r].meta ELSE NoMetadata]
        /\ Go(w, "claim")
        /\ UNCHANGED <<job, mode, handled, recent, held, known, work>>
  /\ UNCHANGED <<ledger, public, slotOpen, bounds>>

\* The metadata that was read replaces the row's.
Taken(w, x) ==
  [x EXCEPT !.status = "running", !.attempt = @ + 1, !.preview = (mode[w] = "preview"),
            !.meta = saved[w]]

\* Variant: a run that is still being published can be claimed again.
ClaimHeld(w) ==
  LET r == job[w] IN
  /\ pc[w] = "claim"
  /\ \/ /\ row[r].status \in Final
        /\ Leave(w)
        /\ UNCHANGED row
     \/ /\ row[r].status \notin Final
        /\ row' = [row EXCEPT ![r] = Taken(w, @)]
        /\ Go(w, "load")
        /\ UNCHANGED <<job, mode, loaded, known, work>>
  /\ UNCHANGED <<receipts, boxes, noted, public, slotOpen, bounds>>

\* Variant: a settled run can be claimed again.
ClaimFinal(w) ==
  LET r == job[w] IN
  /\ pc[w] = "claim"
  /\ \/ /\ Held(r)
        /\ Leave(w)
        /\ UNCHANGED row
     \/ /\ ~Held(r)
        /\ row' = [row EXCEPT ![r] = Taken(w, @)]
        /\ Go(w, "load")
        /\ UNCHANGED <<job, mode, loaded, known, work>>
  /\ UNCHANGED <<receipts, boxes, noted, public, slotOpen, bounds>>

\* claim_run.
Claim(w) ==
  LET r == job[w] IN
  /\ pc[w] = "claim"
  /\ \/ /\ row[r].status \in Final \/ Held(r)
        /\ Leave(w)
        /\ UNCHANGED row
     \/ /\ row[r].status \notin Final /\ ~Held(r)
        /\ row' = [row EXCEPT ![r] = Taken(w, @)]
        /\ Go(w, "load")
        /\ UNCHANGED <<job, mode, loaded, known, work>>
  /\ UNCHANGED <<receipts, boxes, noted, public, slotOpen, bounds>>

\* The receipts, the containers and the history are loaded before the drafts are
\* written.
Load(w) ==
  LET r == job[w] IN
  /\ pc[w] = "load"
  /\ handled' = [handled EXCEPT ![w] = Handled(r)]
  /\ recent' = [recent EXCEPT ![w] = Recent(r)]
  /\ held' = [held EXCEPT ![w] = boxes[r]]
  /\ known' = [known EXCEPT ![w] = receipts[r]]
  /\ Go(w, "draft")
  /\ UNCHANGED <<ledger, public, slotOpen, job, mode, saved, work, bounds>>

\* What publish_destinations adds to already_published: the keys of the drafts
\* that would repeat another run's announcement.  Pages are looked up for the
\* writers' drafts alone, and so for a content post without features only where
\* one of them has its page.
Repeats(w, drafts) ==
  LET lookedUp == {PageOf[m] : m \in drafts \ Content}
      checked == {m \in drafts : m \in Attributed \/ PageOf[m] \in lookedUp}
  IN {k \in Key : k[2] \in checked /\ Suppressed(recent[w], k[1], k[2])}

\* resolve_context reports the commit before anything is drafted; a later attempt
\* reports it again.
Resolve(w) ==
  /\ pc[w] = "draft" /\ ~row[job[w]].resolved
  /\ row' = [row EXCEPT ![job[w]].resolved = TRUE]
  /\ UNCHANGED <<receipts, boxes, noted, public, slotOpen, pc, job, mode, loaded,
                 known, work, bounds>>

Drafted(w, meta, place) ==
  /\ row[job[w]].resolved
  /\ plan' = [plan EXCEPT ![w] = meta]
  /\ known' = [known EXCEPT ![w] = @ \cup Repeats(w, meta.drafts)]
  /\ Go(w, place)
  /\ UNCHANGED <<ledger, public, slotOpen, job, mode, loaded, batch, todo, failed,
                 bounds>>

\* What parse_evaluator_result and parse_writer_result make of the saved metadata.
Parsed(w) == [saved[w] EXCEPT !.exhausted = FALSE]

\* A resumed run publishes the drafts and the range it was parked with; their
\* images were made when they were drafted.
Reuse(w) ==
  /\ pc[w] = "draft" /\ saved[w].drafted
  /\ Drafted(w, Parsed(w), "note")

\* The evaluator and the writers announce any part of the range, or nothing; every
\* content post of the range is announced.
Announced(range) == {D \in SUBSET range : range \cap Content \subseteq D}

\* resolve_promote_shas takes any other promotion for the previous one.
Write(w) ==
  LET r == job[w] IN
  /\ pc[w] = "draft" /\ ~saved[w].drafted
  /\ \E base \in 0..LastRun :
       /\ \E p \in (0..LastRun) \ {r} : Narrowed(r, p, handled[w], base)
       /\ \E D \in Announced(InRange(r, base)) :
            Drafted(w, [drafted |-> TRUE, drafts |-> D, base |-> base,
                        exhausted |-> FALSE], "art")

\* Missing art is generated and uploaded before anything is published ...
MakeArt(w) ==
  /\ pc[w] = "art"
  /\ Go(w, "note")
  /\ UNCHANGED <<ledger, public, slotOpen, job, mode, loaded, known, work, bounds>>

\* ... and the evaluator, a writer or the art may raise: complete_run failed,
\* with the metadata as it was claimed, so that new drafts are lost.
FailDraft(w) ==
  /\ pc[w] \in {"draft", "art"}
  /\ row' = [row EXCEPT ![job[w]].status = "failed"]
  /\ Leave(w)
  /\ UNCHANGED <<receipts, boxes, noted, public, slotOpen, bounds>>

-----------------------------------------------------------------------------
(* publish_destinations.                                                    *)

Live(w) == mode[w] # "preview"

SkipNote(w) ==
  /\ pc[w] = "note"
  /\ ~Live(w) \/ job[w] \notin Noted \/ job[w] \in noted
  /\ Go(w, "choose")
  /\ UNCHANGED <<ledger, public, slotOpen, job, mode, loaded, known, work, bounds>>

\* publish_internal_note: one message to every Discord server; its receipts are
\* recorded after the last of them, and its failure is only logged.
PostNote(w) ==
  LET r == job[w] IN
  /\ pc[w] = "note" /\ Live(w) /\ r \in Noted /\ r \notin noted
  /\ \/ /\ notes' = [notes EXCEPT ![r] = More(@)]
        /\ \/ noted' = noted \cup {r}
           \/ UNCHANGED noted
     \/ UNCHANGED <<notes, noted>>
  /\ Go(w, "choose")
  /\ UNCHANGED <<row, receipts, boxes, posts, spent, slotOpen, job, mode, loaded, known,
                 work, bounds>>

\* Variant: a batch attempts every channel of its message.
AllChannels(w, m) == ChannelsOf(m)

\* Channels of a message this worker has not found or put a receipt for.
Missing(w, m) == {c \in ChannelsOf(m) : ~Covers(known[w], c, m)}

\* The image of a content post, and of a draft that some channel shows with one, is
\* resolved whatever is still missing.
NeedsImage(m) == m \in Content \/ ChannelsOf(m) \cap Illustrated # {}

\* The next batch with something pending.  When its image cannot be resolved,
\* the channels that need one are not attempted and the batch has an error.
StartBatch(w) ==
  /\ pc[w] = "choose" /\ Live(w)
  /\ \E m \in plan[w].drafts :
       /\ Missing(w, m) # {}
       /\ batch' = [batch EXCEPT ![w] = m]
       /\ \/ /\ todo' = [todo EXCEPT ![w] = Missing(w, m)]
             /\ UNCHANGED failed
          \/ /\ NeedsImage(m)
             /\ todo' = [todo EXCEPT ![w] = Missing(w, m) \ Illustrated]
             /\ failed' = [failed EXCEPT ![w] = TRUE]
  /\ Go(w, "post")
  /\ UNCHANGED <<ledger, public, slotOpen, job, mode, loaded, known, plan, bounds>>

\* c is the channel whose turn it is in w's batch.
Turn(w, c) ==
  /\ pc[w] = "post" /\ c \in todo[w]
  /\ \A d \in todo[w] : Rank[c] <= Rank[d]

\* The channel's exception is caught: the rest of the batch goes on, except
\* that one publish_discord call visits all the Discord servers.
ChannelFails(w, c) ==
  /\ failed' = [failed EXCEPT ![w] = TRUE]
  /\ todo' = [todo EXCEPT ![w] = @ \ IF c \in Discord THEN Discord ELSE {c}]
  /\ UNCHANGED <<row, receipts, noted, notes, slotOpen, pc, job, mode, saved,
                 handled, recent, known, plan, batch, bounds>>

Visible(w, c) == posts' = [posts EXCEPT ![job[w]][<<c, batch[w]>>] = More(@)]

Answered(w) ==
  /\ Go(w, "record")
  /\ UNCHANGED <<row, receipts, noted, notes, slotOpen, job, mode, saved, handled,
                 recent, known, work, bounds>>

\* Variant: a channel that refuses is answered for like one that posts.
RefusedQuietly(w, c) ==
  /\ Turn(w, c)
  /\ Answered(w)
  /\ UNCHANGED <<posts, spent, boxes, held>>

\* Nothing was posted.
Refused(w, c) ==
  /\ Turn(w, c)
  /\ ChannelFails(w, c)
  /\ UNCHANGED <<posts, spent, boxes, held>>

\* Posted, and the publisher returns a receipt ...
PostPlain(w, c) ==
  /\ Turn(w, c) /\ c \notin Threads \cup Podcast
  /\ Visible(w, c)
  /\ Answered(w)
  /\ UNCHANGED <<boxes, spent, held>>

\* ... or posted, and the answer is lost or the permalink cannot be read.
LoseAnswer(w, c) ==
  /\ Turn(w, c) /\ c \notin Threads \cup Podcast
  /\ Visible(w, c)
  /\ ChannelFails(w, c)
  /\ UNCHANGED <<boxes, spent, held>>

\* publish_podcast: the target command finds an episode that is there unchanged.
PostPodcast(w, c) ==
  /\ Turn(w, c) /\ c \in Podcast
  /\ posts' = [posts EXCEPT ![job[w]][<<c, batch[w]>>] = 1]
  /\ Answered(w) \/ ChannelFails(w, c)
  /\ UNCHANGED <<boxes, spent, held>>

\* Variant: the container is published without having been checkpointed.
OpenUnsaved(w, c) ==
  LET r == job[w]  k == <<c, batch[w]>> IN
  /\ Turn(w, c) /\ c \in Threads
  /\ ~Covers(held[w], c, batch[w])
  /\ held' = [held EXCEPT ![w] = @ \cup {k}]
  /\ spent' = [spent EXCEPT ![r] = @ \ {k}]
  /\ UNCHANGED <<row, receipts, boxes, noted, posts, notes, slotOpen, pc, job, mode,
                 saved, handled, recent, known, work, bounds>>

\* ThreadsPublishingProvider.publish: without a checkpointed container one is
\* created and recorded as a pending receipt, under the key of the final one.
OpenContainer(w, c) ==
  LET r == job[w]  k == <<c, batch[w]>> IN
  /\ Turn(w, c) /\ c \in Threads
  /\ ~Covers(held[w], c, batch[w])
  /\ boxes' = [boxes EXCEPT ![r] = @ \cup {k}]
  /\ held' = [held EXCEPT ![w] = @ \cup {k}]
  /\ spent' = [spent EXCEPT ![r] = @ \ {k}]
  /\ UNCHANGED <<row, receipts, noted, posts, notes, slotOpen, pc, job, mode,
                 saved, handled, recent, known, work, bounds>>

\* A container is published at most once: a second request is refused by Meta.
PublishContainer(w, c) ==
  LET r == job[w] IN
  /\ Turn(w, c) /\ c \in Threads
  /\ Covers(held[w], c, batch[w]) /\ ~Covers(spent[r], c, batch[w])
  /\ Visible(w, c)
  /\ spent' = [spent EXCEPT ![r] = @ \cup {<<c, batch[w]>>}]
  /\ Answered(w) \/ ChannelFails(w, c)
  /\ UNCHANGED <<boxes, held>>

\* Variant: a receipt is stored under its message, without its channel.
RecordBare(w, c) ==
  LET r == job[w] IN
  /\ pc[w] = "record" /\ c \in todo[w] /\ \A d \in todo[w] : Rank[c] <= Rank[d]
  /\ receipts' = [receipts EXCEPT ![r] = @ \cup {batch[w]}]
  /\ known' = [known EXCEPT ![w] = @ \cup {<<c, batch[w]>>}]
  /\ todo' = [todo EXCEPT ![w] = @ \ {c}]
  /\ Go(w, "post")
  /\ UNCHANGED <<row, boxes, noted, public, slotOpen, job, mode, loaded, plan, batch,
                 failed, bounds>>

\* record_receipt: the receipt is stored, replacing the pending one, and known
\* from then on; storing it or the coverage report after it may raise.
Record(w, c) ==
  LET r == job[w]  k == <<c, batch[w]>> IN
  /\ pc[w] = "record" /\ c \in todo[w] /\ \A d \in todo[w] : Rank[c] <= Rank[d]
  /\ \/ /\ receipts' = [receipts EXCEPT ![r] = @ \cup {k}]
        /\ boxes' = [boxes EXCEPT ![r] = @ \ {k}]
        /\ \/ /\ known' = [known EXCEPT ![w] = @ \cup {k}]
              /\ UNCHANGED failed
           \/ /\ failed' = [failed EXCEPT ![w] = TRUE]
              /\ UNCHANGED known
     \/ /\ failed' = [failed EXCEPT ![w] = TRUE]
        /\ UNCHANGED <<receipts, boxes, known>>
  /\ todo' = [todo EXCEPT ![w] = @ \ {c}]
  /\ Go(w, "post")
  /\ UNCHANGED <<row, noted, public, slotOpen, job, mode, loaded, plan, batch, bounds>>

-----------------------------------------------------------------------------
(* How an attempt ends.                                                     *)

\* One batch has been attempted, or none was pending.
Attempted(w) ==
  \/ pc[w] = "post" /\ todo[w] = {}
  \/ pc[w] = "choose" /\ Live(w) /\ \A m \in plan[w].drafts : Missing(w, m) = {}

Park(w, status) ==
  LET r == job[w] IN
  /\ row' = [row EXCEPT ![r] =
       [@ EXCEPT !.status = status, !.due = (status # "scheduled"),
                 !.meta = [plan[w] EXCEPT !.exhausted = row[r].meta.exhausted]]]
  /\ Leave(w)
  /\ UNCHANGED <<receipts, boxes, noted, public, slotOpen, bounds>>

FailRun(w) == Attempted(w) /\ failed[w] /\ Park(w, "failed")

ScheduleRun(w) ==
  /\ Attempted(w) /\ ~failed[w] /\ Pending(plan[w].drafts, known[w]) # {}
  /\ Park(w, "scheduled")

\* Variant: a run is complete as soon as a batch went out without an error.
CompleteEarly(w) ==
  /\ Attempted(w) /\ ~failed[w]
  /\ Park(w, IF plan[w].drafts = {} THEN "rejected" ELSE "completed")

\* No draft, not postworthy: rejected, which is final like completed.
CompleteRun(w) ==
  /\ Attempted(w) /\ ~failed[w] /\ Pending(plan[w].drafts, known[w]) = {}
  /\ Park(w, IF plan[w].drafts = {} THEN "rejected" ELSE "completed")

\* A dry run publishes nothing and completes the run all the same.
CompletePreview(w) ==
  /\ pc[w] = "choose" /\ ~Live(w)
  /\ Park(w, IF plan[w].drafts = {} THEN "rejected" ELSE "completed")

\* The process of a worker ends; its row stays as it is.
Crash(w) ==
  /\ crashes < MaxCrashes
  /\ pc[w] # "idle"
  /\ crashes' = crashes + 1
  /\ Leave(w)
  /\ UNCHANGED <<ledger, public, slotOpen, triggers>>

-----------------------------------------------------------------------------
Init ==
  /\ row = [r \in Run |-> AbsentRow]
  /\ receipts = [r \in Run |-> {}] /\ boxes = [r \in Run |-> {}]
  /\ spent = [r \in Run |-> {}]
  /\ posts = [r \in Run |-> [k \in Key |-> 0]]
  /\ noted = {} /\ notes = [r \in Run |-> 0]
  /\ slotOpen = TRUE
  /\ pc = [w \in Worker |-> "idle"] /\ job = [w \in Worker |-> NoRun]
  /\ mode = [w \in Worker |-> "none"]
  /\ saved = [w \in Worker |-> NoMetadata] /\ plan = [w \in Worker |-> NoMetadata]
  /\ handled = [w \in Worker |-> {}] /\ recent = [w \in Worker |-> {}]
  /\ known = [w \in Worker |-> {}] /\ held = [w \in Worker |-> {}]
  /\ batch = [w \in Worker |-> NoMessage] /\ todo = [w \in Worker |-> {}]
  /\ failed = [w \in Worker |-> FALSE]
  /\ triggers = 0 /\ crashes = 0

Publish(w) ==
  \E c \in Channel :
    \/ Refused(w, c) \/ PostPlain(w, c) \/ LoseAnswer(w, c) \/ PostPodcast(w, c)
    \/ OpenContainer(w, c) \/ PublishContainer(w, c) \/ Record(w, c)

Work(w) ==
  \/ Read(w) \/ Claim(w) \/ Load(w) \/ Resolve(w) \/ Reuse(w) \/ Write(w) \/ MakeArt(w)
  \/ FailDraft(w)
  \/ SkipNote(w) \/ PostNote(w) \/ StartBatch(w) \/ Publish(w)
  \/ FailRun(w) \/ ScheduleRun(w) \/ CompleteRun(w) \/ CompletePreview(w)

Next ==
  \/ \E w \in Worker : \/ Work(w) \/ Crash(w)
                       \/ \E r \in Run : \/ Trigger(w, r) \/ Preview(w, r)
                                        \/ ResumeRun(w, r)
  \/ \E r \in Run : GiveUp(r) \/ FallDue(r)
  \/ OpenSlot

Spec == Init /\ [][Next]_vars

\* Threads run on, time passes and the scheduler polls.
Fairness ==
  /\ \A w \in Worker : WF_vars(Work(w))
  /\ \A r \in Run : WF_vars(GiveUp(r)) /\ WF_vars(FallDue(r))
  /\ \A r \in Run : SF_vars(\E w \in Worker : ResumeRun(w, r))
  /\ WF_vars(OpenSlot)

FairSpec == Spec /\ Fairness

-----------------------------------------------------------------------------
(* Properties.                                                              *)

Place == {"idle", "read", "claim", "load", "draft", "art", "note", "choose", "post", "record"}

\* The variables have their types.
TypeOK ==
  /\ row \in [Run -> Row]
  /\ receipts \in [Run -> SUBSET Key] /\ boxes \in [Run -> SUBSET Key]
  /\ spent \in [Run -> SUBSET Key]
  /\ posts \in [Run -> [Key -> 0..2]]
  /\ noted \in SUBSET Run /\ notes \in [Run -> 0..2]
  /\ slotOpen \in BOOLEAN
  /\ pc \in [Worker -> Place] /\ job \in [Worker -> Run \cup {NoRun}]
  /\ mode \in [Worker -> {"none", "scheduler", "publish", "preview"}]
  /\ saved \in [Worker -> Metadata] /\ plan \in [Worker -> Metadata]
  /\ handled \in [Worker -> SUBSET Run]
  /\ recent \in [Worker -> SUBSET Key] /\ known \in [Worker -> SUBSET Key]
  /\ held \in [Worker -> SUBSET Key]
  /\ batch \in [Worker -> Message \cup {NoMessage}]
  /\ todo \in [Worker -> SUBSET Channel] /\ failed \in [Worker -> BOOLEAN]
  /\ triggers \in Nat /\ crashes \in Nat

\* Retries reuse a container that was checkpointed, so that a run puts a message
\* on Threads at most once, whatever is lost, crashes or is called again between
\* the container, the post and the receipt (docs/release-comms.md, "cannot cause
\* release-comms to silently create a duplicate").
ThreadsOnce ==
  \A r \in Run : \A c \in Threads : \A m \in Message : posts[r][<<c, m>>] <= 1

\* What a live run that is completed has drafted is on every channel it was
\* meant for, by the run's own receipt or by an earlier announcement of another
\* run: failed channels, skipped batches and lost drafts keep a run open.
CompletedIsDelivered ==
  \A r \in Run :
    (row[r].status = "completed" /\ ~row[r].preview) =>
      \A m \in row[r].meta.drafts : \A c \in ChannelsOf(m) :
        Covers(receipts[r], c, m) \/ Suppressed(Recent(r), c, m)

\* A receipt ends the matter: no later attempt of the run, by whichever thread
\* and after whichever crash, posts the message to that channel again.
RecordedNotRepeated ==
  [][\A r \in Run : \A k \in Key :
       Covers(receipts[r], k[1], k[2]) => posts'[r][k] = posts[r][k]]_vars

\* A run that is completed or rejected never posts again and keeps its verdict,
\* although threads that have read it before are still under way.
SettledIsSilent ==
  [][\A r \in Run : row[r].status \in Final =>
       row'[r] = row[r] /\ posts'[r] = posts[r] /\ notes'[r] = notes[r]]_vars

Settled(r) == row[r].status \in Final \/ row[r].meta.exhausted

\* Whatever fails, a claimed run is completed, rejected or given up in the end.
EveryRunSettles == \A r \in Run : (row[r].status # "absent") ~> Settled(r)

\* The release runs are leased: a call that claims a run is granted the lease,
\* nobody else holds it, parking or ending the run lets go of it, and nothing but
\* the holder and the next claim changes the run's status.
Lease == INSTANCE RunLease WITH
  status <- [r \in Run |-> row[r].status],
  attempt <- [r \in Run |-> row[r].attempt],
  holders <- {[run |-> job[w], attempt |-> row[job[w]].attempt] :
                w \in {v \in Worker : Busy(v)}},
  contested <- {}

ImplementsRunLease == Lease!Spec

\* A receipt is stored only for what was posted, what has one is not posted again,
\* and a settled run does neither: a failure is never taken for a post, whichever
\* channel of the batch it hits.
Delivery == INSTANCE Outbox WITH closed <- {r \in Run : row[r].status \in Final}

ImplementsOutbox == Delivery!Spec

=============================================================================
