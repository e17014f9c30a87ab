# dev-agents in TLA+

dev-agents is a daemon (and a command line) that watches GitHub repositories
and lets coding agents review and repair pull requests, work on issues, and
announce releases. This directory holds TLA+ specifications of the parts whose
correctness depends on order, interleaving and failure, the TLC configurations
that check small instances of them, and proofs that TLAPS checks for every
value of the constants.

Paths are those of the repository's source, under `src/dev_agents/`. `PROJECT.json`
maps every definition to the lines it models.

## Inventory

| component | state | operations | hard behaviours | what makes it correct |
|---|---|---|---|---|
| claim ledger, `runtime/state.py` | tables `runs`, `delivery_claims`, `run_events` (and publication receipts) in SQLite | `claim_run`, `complete_run`, `update_run`, `recover_interrupted_runs`; opening, migrating, quarantine | several processes and threads, crashes, claims that go stale while their worker is slow, redelivered webhooks | one worker per run, final verdicts, deliveries that end with their run, no run orphaned for ever |
| pull request handle, `pr_fixer/service.py` | dictionaries keyed by PR number under one lock: active, rerun requests, cancel events, active heads, worktrees | `handle`, `reconcile`, `reconcile_loop` | webhook threads beside reconciliation, pushes during the work, lost webhooks, exceptions | one handler per PR, an outdated agent is cancelled, no push is forgotten |
| internal review chain, `pr_fixer/service.py`, `audit.py` | the metadata of the `pr-review` runs of a PR; labels; auto-merge on GitHub | `_review_plan`, `_collect_feedback`, `_fix`, `_finalize`, `_ensure_auto_merge` | rounds over several heads, pushes of fixers and of people, claim windows, fallback providers, restarts, a halt in two transactions | bounded repairs, halts that hold, auto-merge of reviewed heads only, fixes that are reviewed in turn |
| pr_fixer helpers: comments, GitHub queries, prompts, seen feedback | a JSON file of seen feedback | reads and texts | none of their own | - |
| issue fixer, `issue_fixer.py` | an active set per service, claims, a plan file, a branch and PR per issue | `handle`, `reconcile`; planning, agents and their fallback, review before the PR is opened, automatic pausing | check then claim, edits and reopenings during an attempt, retries that find a plan or a branch | one open PR per issue, no completed run without one, plans posted once, an end to the retries |
| worktrees and agents, `runtime/worktree.py`, `agent.py` | a semaphore and a git lock per repository; one agent process per worktree | `isolated_worktree`, `run_agent` | waiting for a worktree while holding a claim, deadlines, cancels noticed late | every agent ends, an interrupted worktree is found again |
| quota, `runtime/quota.py` | a file per provider | parse a reset time, record, read | midnight | a block ends |
| server and scheduler, `daemon.py` | threads; the scheduler's next start slot, in memory | startup recovery, webhooks, the release scheduler, the daily content slot, the issue loop | restarts, caps of attempts | no run is resumed for ever |
| release announcement, `workflows/release_*.py` | claims, receipts, containers, drafts in metadata | range, draft, publish in batches, park until the next slot, resume | a crash between a post and its receipt, resumed drafts, two promotions at once | each message is posted once, every one before the run completes |
| content queue, `workflows/content_queue.py` | a file on GitHub, a run per day, receipts | read, draft, publish, record, write with the blob sha | edits of people between read and write, lost answers, retries of yesterday | no entry lost or recorded twice |
| reddit, `workflows/reddit.py`, `apps/reddit-devvit` | a manifest on GitHub or a CDN | read, merge, upload, poll | two writers | no candidate lost |
| bluesky reminders | claims in the ledger | post once per reminder | as the ledger | as the ledger |
| commit loops: `committing_agent.py`, `sweep.py`, `degodify.py`; `copy_review.py` | one worktree | agent, check, push, repair | bounded repairs | - |
| retention, notifications, reports, command line, configuration, context | none, or read-only | - | - | - |

They interact through the ledger (every workflow claims its run there before it
acts and completes it afterwards), through the lock of a service (threads of one
process), and through GitHub (branches, labels, webhooks). Only the ledger
outlives the process.

## Modules

Six components are modelled, each with its configurations and its proofs:

* `RunLease` is the abstract specification of claiming: a run is leased to one
  attempt after another, and only overlapping leases void its promises. `RunStore` implements
  it as the ledger, `Release` as a client of the ledger.
* `Outbox` is the abstract specification of publishing: a receipt stands for a post, what has
  one is not posted again, and a closed run does neither. `Release` implements it.
* `ItemBoard` is the abstract specification of the marketing queue: an item goes forward from
  its line to its draft to the record of its post, and is shown to the public in between.
  `ContentQueue` implements it.
* `RunStore` is the ledger. Each method of `StateRepository` is one
  `BEGIN IMMEDIATE` transaction and one action; actions of processes (start,
  crash) and of the clock interleave with them. `tasks` are the threads that work
  between `claim_run` and `complete_run`: the ledger cannot see them, which is the
  point. `contested` remembers the runs claimed over a task still at work.
  `ImplementsRunLease` is the refinement of `RunLease`.
* `PrHandle` is `PrFixerService.handle` for one PR and several threads. A step is
  one critical section of the service's lock, one ledger transaction, or one
  visit to GitHub. The workflow is reduced to what other threads notice of it:
  the fetch of the head, the head's publication, the claim, the worktree, the
  agents and the verdict. `delivered`, `seen`, `evicted` and `dropped` are
  histories the properties are stated with.
* `ReviewChain` is the internal review of one PR over its heads: planning, claims,
  one `_fix` with its provider passes, each exit of `_finalize`, restarts, and
  auto-merge. One review is at work at a time, which is what `RunStore` and
  `PrHandle` promise. `rows` is the metadata that survives newer claims, `run` the rest
  of the metadata of the run started last, `job` the local state of one `_fix`. `started` and
  `forgot` are histories: the writers that did start, which the code only adds up from `rows`, and
  whether a claim dropped one of them.
* `Release` is `run_release_comms` with all who call it: webhooks, the command line and the
  scheduler, which resumes parked, failed and orphaned runs. A step is a ledger transaction
  or one visit to a channel, and the process may end between any two. Threads is a post
  in two calls with a checkpointed container between them; a podcast is idempotent; the
  others are posted and then recorded.
* `IssueFixer` is one label queue of the issue fixer with the worktree, the agents and
  the pull request of each attempt, beside people who edit, close, reopen and unpause
  issues and merge or close pull requests.
* `ContentQueue` is the marketing queue: a file that workers and people edit, the run of
  each day, and the release run that publishes an entry. A blob sha is a hash, so a write carries
  the content it was computed from. An entry has words (`text`) and what was put behind them
  (`tail`), since the code looks for what it read as a piece of the file.
* The `MC...` modules give the constants of the instances.
* `RunStore_proofs`, `PrHandle_proofs`, `ReviewChain_proofs`, `Release_proofs`,
  `IssueFixer_proofs` and `ContentQueue_proofs` hold the theorems.

The modules do not share variables. Each of the workflows rests on the promise `RunStore` is
proved to keep, that a run has one worker until an overrun: `Release`, `IssueFixer` and
`ContentQueue` contain the claim as a row that is refused while its worker is alive. In `Release` and `ContentQueue` an attempt is
taken to end within the hour after which a claim is stale (`STALE_RUN_SECONDS`); what happens
after an overrun is in `RunStore` (`contested`).

Definitions called variants (`RepairsOfRun`, `FinallyStaysActive`, ...) are what
the code would be with a plausible slip in it. No action uses them: they are
substituted for the definition they stand beside to see that the property breaks.

## How state and actions correspond to the code

**RunStore.** `runs[r]` is a row of `runs` with its status, attempt, the owner recorded in
its metadata, the age of `started_at`, and the interrupted mark. An identity of a
process (pid, start ticks and boot id) is never used again, so a restart is a new
identity. `ClaimRun`, `CompleteRun`, `ParkRun` (`update_run` with a status) and
`RecoverInterruptedRuns` are the transactions; `Abandon` is a workflow that ends and leaves
its row running; `Interrupted` is the query of the recovery. A row of a version that
recorded no owner may be there at the start.

**PrHandle.** `active`, `rerun`, `event`, `activeHead` and `worktree` are the entries of one
number in the service's dictionaries; `raised` the events that are set. `StartHandle`,
`IgnorePush`, `QueueOwnPush` and `CancelForPush` are the branches of handle's first critical
section, `Rerun`, `LeaveWorkflow` and `Deactivate` those after the workflow, `Finally` the last
one. `Raise` is an exception at any call that reaches GitHub or SQLite. Heads are
numbered in the order of their pushes, so being an ancestor is being not greater. The PR
never has the `paused` label, with which `reconcile` would pass it over.

**ReviewChain.** `StartReview` is `_collect_feedback` when it claims a review;
`OpenWorktree`, `ResumeAudit`, `DiscardAudit`, `NewAudit`, `AuditFails`, `RepairGate`, `FixerPush`, `FixerEnd` and
`Verify` are the nodes of the provider pass; `PassBreaks` is git failing under it. `SaveHalt`
and `FinalizeHalted` are the two transactions of a halt; the other `Finalize...` actions are one
exit each. A failed post or a provider over its quota is the parameter `labels` or
`answered` of the exit that depends on it. Texts, findings and validation are reduced to the
verdict of a report. `job.loose` is what the worktree holds beyond its branch: commits not pushed
yet, or changes and conflicts. The PR is taken to have no open feedback, no review of
Copilot's and finished checks when a review starts; git fetches succeed or break
the pass (`PassBreaks`).

**Release.** `row[r]` is the ledger row with `_release_comms_resume` in `meta`; `receipts` and
`boxes` are the publication receipts and the container checkpoints of a run, `posts` and
`notes` what the world has seen (2 stands for more), `spent` the containers that were
published. `Read`, `Claim` and `Load` are the start of `run_release_comms`: metadata is read before the
claim. `Reuse`, `Write`, `MakeArt` and `FailDraft` are drafting; `Write` draws the drafts from the pages
the promotion deploys since `previous_sha`, narrowed by `earlier_release_shas`. `Resolve` is the
event that makes a run count among those; the drafting of an attempt comes after it. `StartBatch`
chooses the next message and what is missing of it (`pending_publication_count`, `Repeats`), and
resolves its image whichever channel is missing (`NeedsImage`);
`Refused`, `PostPlain`, `LoseAnswer`, `PostPodcast`, `OpenContainer`, `PublishContainer` and `Record` are one
channel; `FailRun`, `ScheduleRun`, `CompleteRun` and `CompletePreview` the exits. `GiveUp`, `ResumeRun`,
`OpenSlot` and `FallDue` are the scheduler's poll. A message stands for its page, its channels
and whether it carries `featureIds`.

**IssueFixer.** A thread is named by its issue, as the active set admits one. `Collect` and `Claim` are
`_collect`: the search for a PR comes before the claim. `Enter` is `_isolated_issue_worktree`, with
what it finds of the branch at origin, of local commits and of a worktree left behind; when
`EnterFails`, the commits of a removed worktree stay on the local branch.
`Assess`, `Plan`, `Build`, `Resume`, `HandOff`, `StopHere`, `FallBack`, `Accept`, `Reject`, `ReviewEnds` and `Revise` are
`_implement` and `_pre_pr_answer_review`; `Create`, `Finish`, `Pause` and `NoPause` are `_finalize`. `Restart` is a daemon that
ends, with `recover_interrupted_runs`. `sound` is a history: the pushed head was accepted.

**ContentQueue.** `Claim` is the scheduler's daily slot, `Command` the command line, `Retry` the release
scheduler that takes a failed queue run up again. `Fetch`, `Put` and `PutFails` are `_apply_with_retry`:
`Moved` is its edit, computed again from each fresh read; the write succeeds only on the content
that was read, and its answer may be lost. `Matches` is the substring test of the two `apply`s:
`Edit` changes the words of an entry, which are then not found, `Extend` puts something behind them,
which are found still. `Without` is `_remove_backlog_line`, whose left-over suffix belongs to no
entry; `Cut` is the `replace` of a block, whose suffix the entry before it takes up. `ClaimRun` to
`RunRaises` are the release run, as far as the queue notices it. Each entry links a page of its own, the checkout brings no content pages, and a
release run that failed before it saved drafts is not retried here.

## Runs

| run | instance | shows |
|---|---|---|
| `run_store` | two daemon identities, two runs, one delivery, stale after one tick, two attempts | claims are exclusive until an overrun (`SoleTask`, `TakeoverOnlyAfterStale`), verdicts final (`VerdictIsLast`), deliveries settle with their run (`DeliverySettled`), recovery only fails the dead (`InterruptedIsDead`) and misses none (`NoOrphanForever`), timelines balance, the lease is implemented |
| `pr_handle` | two threads, three events, two heads | one handler (`SoleHandler`), outdated agents are cancelled (`StaleAgentIsCancelled`), pushes are owed a fetch (`PushIsOwed`) and get one (`EveryPushSeen`) |
| `pr_handle_duplicate` | three threads | violated: two threads may work on one PR |
| `review_chain` | three heads, three attempts, claim window, fallback provider | until a claim forgets one, no more writers start than the budget (`RepairBudget`), only reviewed heads merge (`MergeIsReviewed`), a halt stops reviews, writers and merges until a person pushes (`HaltHolds`) |
| `review_chain_live` | three heads, two attempts, one provider, no window | fixes are followed up (`FixIsFollowedUp`) |
| `review_chain_merge` | one head | violated: auto-merge accepts a review whose fixer pushed nothing and whose verdict is findings |
| `release` | two promotions of one page, two threads, Threads and Bluesky, failures | a completed run has delivered its drafts (`CompletedIsDelivered`), receipts end the matter (`RecordedNotRepeated`), settled runs stay silent (`SettledIsSilent`), one worker after another holds a run (`ImplementsRunLease`) |
| `release_live` | one promotion, an announcement and a podcast episode, three channels, two crashes | Threads gets a message once (`ThreadsOnce`), the first two above under crashes, receipts stand for posts (`ImplementsOutbox`), every run is settled or given up (`EveryRunSettles`) |
| `issue_fixer` | one issue, an edit, a reopening, a crash, two failures, two providers, the pre-PR review | one open PR (`OnePrPerIssue`), no completion without a PR (`CompletedHasPr`), the branch of an open PR stays (`OpenPrHasBranch`), one plan comment (`PlannedOnce`), an end (`EveryIssueSettles`) |
| `issue_fixer_unverified` | the same | violated: a retry opens a PR from a branch whose push was refused |
| `content_queue` | two entries, two workers, two days, three acts of people or failures | an item is in one place (`ItemOnce`), what is called posted was (`PostedIsPublic`), a worker takes away only words it read (`EditsSurvive`), items only go forward (`ImplementsItemBoard`) |
| `content_queue_posted` | the same | violated: an entry edited while it is published stays "not yet posted" |

The four violated properties state what the documentation and the comments say; `PROJECT.json` quotes
the lines beside the code that differs.

Reading the code for these modules, and checking earlier forms of them, showed further
places where the code differs from its documentation. They have no run of their own:

* `complete_run` writes over a verdict: after an overrun a late "failed" reopens a completed run
  (`docs/release-comms.md:323`). `VerdictIsLast` holds for runs that were never taken over.
* A claim of the same head after a failure replaces its metadata (`state.py:971`) and so forgets the
  writers that attempt started: retries exceed the budget that `docs/pr-fixer-daemon.md:69-70` gives
  a PR over all of them, "including failed attempts". `forgot` marks the claim, and `RepairBudget`
  holds up to it.
* `docs/pr-fixer-daemon.md:124-127` promises that a review which a restart cut off resumes from its audit and
  that "a cut-off fixer still counts". A targeted round before the last is planned again as round 0
  (the fall-through of `service.py:473-508`), so `_interrupted_audit` (`:149`, `:153`) finds another
  round, the audit runs again and the fixer is forgotten. A repair of such a round that waits out its claim
  window is planned as a first round, too.
* `docs/pr-fixer-daemon.md:72-77` says that a halt stops automatic reviews "including after new pushes"
  and that only an operator clears it. In `_review_plan` (`service.py:439-444`) a person's push lifts it, with
  a fresh budget, as `:85` says of `pause:fix`; the push may also have come before the halt was saved.
  `HaltHolds` states what the code keeps.
* `workflows/content_queue.py:26-29` promises not to clobber a concurrent edit. Text put behind an
  entry after it was read is overlooked (`:362`, `:389`): a backlog line that somebody blocks by a note at
  its end is drafted all the same and the note is left without its line; a paragraph added to the end of
  a drafted entry stays behind when the entry is recorded, and belongs to the entry before it.
  `EditsSurvive` asks for the words that were read only.
* A person's push before the worktree of a last round is opened passes for the fixer's, and its head
  is never reviewed (`pr_fixer/service.py:1000-1003` wants it never blocked).
* `publish_internal_note` posts a note twice when the process ends before its receipt
  (`release_publish.py:674`); a dry run completes the run, which then cannot be published
  (`CompletePreview`); a page announced with `featureIds` is not suppressed by its slug (`Suppressed`).
* A queue run records HEAD as the commit it evaluated (`release_comms.py:186-187`), and a later
  release starts its diff there. An entry the daemon drafted itself is published next day without the
  review the module's docstring promises.

### Bounds

* `run_store`: an overrun needs two owners and two attempts; recovery of one process's
  runs beside another's needs two of each. Age stops at `StaleAge`, since nothing reads more. One
  daemon identity is always left to be started, or the liveness would be void. Larger
  instances add nothing to the safety properties, which are proved for all.
* `pr_handle`: `evicted` and `dropped` need two threads; an event object is free when nobody
  refers to it, so one for the dictionary and one per agent suffice. Two heads are one
  push, before, during or after the work. Safety is again proved for all.
* `review_chain`: three heads are a first review and its two follow-up rounds, or a person's push
  in between. Each retry under a claim window takes two claims, hence three attempts. The
  last attempt and the last head make the model stop where the program goes on, so
  deadlock is not checked there. `OwnLooksHuman` is FALSE: the fixer is assumed to commit under
  a login the configuration lists as an agent or one that ends in `[bot]`.

* `release`: the second promotion is what a first one's history, suppression and narrowing act on,
  and two threads are its interleavings; crashes are in `release_live`, which has the second
  message, so that batches, parking and resumption happen, and both caps. The bounds of `release_live` let each
  cap be reached. Safety is proved for all.
* `issue_fixer`: one issue, since issues meet only in the limit of worktrees; an edit and a
  reopening make a second run and a second branch; the crash and two failures reach the pause.
  Safety is proved for any number of issues, with the limit.
* `content_queue`: one entry drafted and one in the backlog, so the queue is drained and filled;
  two workers are a day's slot beside a retry or a command; two days let a retry of yesterday
  meet today's run, and `Window` lets its post be recent. `MaxText` bounds the edits of an entry and
  what is put behind it, once each. `AutoPublish` is TRUE in the runs and free in the
  theorems. Three acts are a failure, an edit and a crash in any order.
  Safety is proved for any number of items, workers and acts.

### Fairness

* `RunStore`: daemons are started again and finish their startup (systemd restarts the
  service, `ops/systemd/dev-agents-pr-fixer.service.example`, and `serve` recovers before it
  listens). Workers owe nothing, and the clock need not move.
* `PrHandle`: reconciliation comes round for ever (`reconcile_loop` catches everything), threads
  run on, agents end by their deadline. Fetching and leaving the worktree get strong
  fairness: GitHub may fail them again and again, but not always.
* `ReviewChain`: reconciliation comes back to every open PR and a review that began goes on.
  Pushes of people, restarts and merges owe nothing.
* `Release`: threads run on, slots open, parked runs fall due and the scheduler polls. Its
  resumption gets strong fairness, as several runs compete for a slot (`list_runs` is walked at
  every poll). Webhooks, failures and crashes owe nothing.
* `IssueFixer`: `reconcile_loop` starts a thread for every open issue, threads run on, a row left
  running grows stale. The label that pauses an issue gets strong fairness: GitHub may refuse it, but not always.
* `ContentQueue` has safety properties only.

## Proofs

* `RunStore_proofs`. The checked invariants are not inductive alone: `TaskTied` says that a
  task belongs to a live process and to an attempt its row has reached, and to the
  row's owner when it is the row's own attempt; `TaskUnique` that an attempt has one task. From these
  follow `OneTaskPerRun`, `VerdictsAreFinal`, `DeliveriesSettle`, `InterruptedAttemptsAreDead`,
  `TakeoversAreOverruns` and, step by step, `LedgerImplementsLease`. `TimelinesBalance` counts over
  the timelines: what their events add up to is written down as sets of entries (cardinalities,
  with the library's theorems on finite sets), an appended event moves one of them by at most one, and
  an ended entry is paid for by an attempt that is over. `TaskUnique` is what makes an attempt
  end once.
* `PrHandle_proofs`. `Entries` says what the dictionaries hold while a thread is in its
  workflow, `Known` what is known of the announced and fetched heads, `Tracked` which event an agent
  polls. `OneHandlerPerPullRequest`, `OutdatedAgentsAreCancelled` and `PushesAreOwedAFetch` follow.
* `ReviewChain_proofs`. The types are inductive with `Claims`: only heads that exist were
  claimed, and halts and the job belong to claims. `TypeCorrect` and `HaltsHold` follow, the latter
  for reviews, writers and auto-merge, assuming `~OwnLooksHuman`. `MergesAreReviewed` needs
  `Chain`: the run started last is that of the greatest
  claimed head (`LatestIs`), a review at work is that run's and nobody judged it yet, its report is
  the audit's and a fixer had its findings (`AtWork`), and a clean completed review vouches for no
  head but its own (`Judged`). The last is what `_ensure_auto_merge` relies on when it accepts a
  head that only an exhausted chain names. `RepairsStayInBudget` rests on the same `Chain`: the gate
  adds up the writers of every claimed run since the last halt, the run at work is the greatest of
  them, and as long as no claim forgot one, the rows after the last halt hold every writer `started` has
  counted (`Budgeted`). The writers are numbered, which makes each sum the size of a union.
* `Release_proofs`. `Claims` says that a claimed run has one worker and is running; `Knows` what that
  worker knows: until it chooses a batch, every receipt and container of the run; while it
  publishes, that nothing it still has to attempt has a receipt, and that whatever it takes for
  published has one, of this run or another. `Accounted` says of a post on Threads that
  it is the only one and that it has a receipt or a spent container: `OnThreadsOnce` would not
  be inductive without it. `Delivered` needs `Knows` at the moment of completion and that receipts are
  never taken back. `NotRepeated` and `Silent` follow step by step.
  `RunsAreLeased` takes the busy workers for the holders of `RunLease` and nothing for contested:
  a claim is refused while the run has a worker (`Claims`), so it is a grant that overlaps nobody,
  and each way back to idle, the end of the process included, lets go of the lease with the status it
  leaves. `RunsAreAnOutbox` needs `Answer`: a worker about to store a receipt has posted on the channel whose
  turn it is. It assumes what the code does, that a batch visits its channels one by one in a
  fixed order (`Rank` is injective).
* `IssueFixer_proofs`. `OwnPrs` says that the pull requests of an issue belong to this reopening or an earlier
  one and that a branch with one is at origin; `Attempt` what an attempt relies on: the plan
  was posted only when it was saved, past the claim the issue has no pull request, a fixed attempt
  that is finishing has one. The five theorems follow.

* `ContentQueue_proofs`. `Fact` says what a worker holds on to while others act: an entry it is
  about to record has a post, a draft is of the entry it replaces, and a write is computed from a
  file that had the entry. Every step then leaves the file alone, edits an entry in place,
  drafts one or records one, whatever is put behind the words it matches (`FileStep`), and `PostedArePublic`,
  `ItemsOnce` and `EditsAreKept` follow from
  lemmas on the sequences (`WithoutKeeps`, `WithoutOnce`). `QueueImplementsBoard` maps the file to
  the place of each item; it needs `Drafts`, that whatever a release run announces, or has saved to
  announce again, was drafted, which outlives a run that fails and is retried a day later. `ItemsOnce`
  and `QueueImplementsBoard` assume that the file starts out with every item listed once (`ListedOnce`).

Beside what is said of `HaltsHold`, `ItemsOnce` and `QueueImplementsBoard`, the theorems assume no more than the named ASSUMEs of
the modules.

Every invariant, action property and refinement the passing runs check is a theorem. Only
model-checked are the liveness properties `NoOrphanForever`, `EveryPushSeen`, `FixIsFollowedUp`,
`EveryRunSettles` and `EveryIssueSettles`: liveness under fairness and ENABLED are beyond the
prover. So are induction over data and RECURSIVE operators, of which the modules use none.

## Not modelled

* Opening and migrating the database and its quarantine: they end every promise of the ledger.
* The feedback runs of pr_fixer except for their pushes, handing a PR over to a reviewer, and a
  branch that is forced back to an older head.
* Two queues of the issue fixer on one issue, the git lock, systemd scopes that outlive a
  daemon, the dates of quotas.
* GitHub discussions, images and reddit among the channels of a release; the reddit manifest and
  its app, a store without a version that nothing could be proved of.
* The commit loops, copy review and bluesky reminders: one actor each, over the ledger.
* More than a hundred open pull requests (`issue_fixer.py:122` looks at the first hundred).
* In the queue file: text that lies between entries and is edited again, and entries that a person
  moves to Posted without the date their heading has there.
* The texts of prompts, comments and reports, parsing and configuration.

`PROJECT.json` lists every component with its reason, and under `hazards` what no property
covers, with why. A later extension would take two queues with one branch prefix, and a history shared by queue runs and releases.
