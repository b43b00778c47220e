# Market Intelligence in TLA+

A verification project for `src/src/market_intelligence`, the program that scans
stock exchanges, keeps the states and events its scanners find in PostgreSQL and
tells a Telegram chat about them. Paths below are relative to
`src/src/market_intelligence/` unless they start with `src/`.
"Clause n" is a clause of `src/docs/architecture/frozen-contract.md`.

## 1. The system

Processes share one PostgreSQL database and nothing else. All connections are in
autocommit mode (`cli.py:398`), so a statement is its own transaction unless the
code opens one.

```
 scan workers ──ingest──> price snapshots ──evaluate──> scan runs
  (one per                                      │ one transaction per run
   timeframe)                                   v
                              active_states / state_transitions / telegram_outbox
 summaries thread ──────────────────────────────────────────────^    │
        │ one PDF job per 15-minute slot                         │    v
        v                                                        │ publishers ─> Telegram
 command_jobs <── telegram listener <── users                    │
        └──> command workers ── answers, results ────────────────┘
```

### Components

| Component | State it keeps | Operations | What makes it correct |
|---|---|---|---|
| State machine, `scanning/state_machine.py` | none (pure) | `reconcile_state` | clauses 8-13: no exit without evidence, doubt ends, silent upgrades |
| State store, `persistence/postgres/state_store.py` | `active_states`, `state_transitions`, outbox rows | `persist_state_run` | no lost update, log and outbox agree with the projection, consistent messages |
| Outbox, `persistence/postgres/outbox.py` | `telegram_outbox`: status, attempts, `available_at`, `lease_until` | `enqueue`, `claim`, `mark_sent`, `mark_failed` | at least once, nothing closed undelivered, duplicates only with a cause |
| Publisher, `delivery/telegram/` | the batch it holds | `publish_batch`, `send` | every message in the end |
| Command jobs, `persistence/postgres/command_jobs.py`, `application/command_jobs.py` | `command_jobs`: status, lease | `claim`, `finish`, `run_once` | every job settled and answered once, with the verdict of its row |
| Follow-ups, PDF rounds, summaries: `application/candidate_followups.py`, `application/full_scan_pdf.py`, `application/live_scans.py`, `cli.py` | jobs, `last_slot` of a thread | `enqueue_candidate_followups`, `enqueue_full_scan_pdf`, `_scan_summaries` | a PDF follows its summaries, only the newest round waits, the newest round is reported |
| Scheduled scan, `application/scheduled_scan.py`, `persistence/postgres/runtime.py`, `scheduling/` | watermarks, cycles | `run`, `update_watermarks`, `finish_cycle` | clause 18: every missed bar is completed, in order |
| Scan frame and confluence, `application/scan_frame.py`, `confluence/` | evaluations, confluence rows | `run` | a confluence speaks of the bar it is stored for |
| Ingestion and snapshots, `application/ingestion.py`, `persistence/postgres/snapshots.py`, `market_data/adapters/fallback.py` | `canonical_market_bars`, `data_snapshots` | `ingest`, `load_recent_bars`, `latest_series_revision`, `save` | clause 16: a revision names one series, only corrections open another, a snapshot can be rebuilt, gaps are backfilled |
| Listener, `application/telegram_listener.py`, `persistence/postgres/telegram_updates.py`, `application/symbol_commands.py` | update checkpoint, advisory lock | `run_once`, `handle`, `commit_update` | clause 26: one consumer, in order, every command answered |
| News, `application/news_ingestion.py` | items, revisions | `run` | an item is announced once |
| Provider cooldowns, `market_data/provider_cooldown.py` | cooldowns, cached per process | `check`, `record` | no call to a provider that is cooling down |
| Universe, migrations, scanners, features, reports, shadow, scripts | see `PROJECT.json` | | |

### Interactions

* A scan worker calls the engine for a bar and hands the run to the state store.
  The state store locks the rows of the slice, decides, and writes rows, log and
  outbox in one transaction.
* Publishers poll the outbox. There is a central one (`publisher-loop`) and a
  script that publishes chosen messages (`src/scripts/atc_publish_targeted.py`).
* The summaries thread puts the messages of a slot into the outbox, then the PDF
  job of the slot into the queue. The job names the messages by semantic key and
  can be claimed only when none of them is still unsent.
* The listener polls Telegram. It answers a command from stored results, or inserts a job
  and answers with its number; answer and checkpoint of an update are one transaction.
* Scans, reports and commands ask the ingestion for bars. It extends the archived series
  of the vendor it came from, or downloads the whole window from any vendor, and saves
  under a series revision.
* Command workers execute jobs and write answers and results into the outbox in
  the transaction that settles the job.

### What is hard

* **Interleaving.** Runs of one slice may come from its scan lane, from `/tara`
  (`cli.py:996-1088`, which takes no advisory lock) and from a second deployment.
  `FOR UPDATE` under READ COMMITTED does not see rows inserted while it waits.
* **Leases.** Outbox messages and jobs are claimed for minutes. The statements
  that settle them check the status but not who holds the claim.
* **Unreliable delivery.** Telegram may take a message and its answer may be lost.
* **Locks of sessions.** The advisory locks of the listener and of the scan lanes belong
  to a database session. A process whose session is lost goes on until its next
  statement; the server may have given the lock away, or may keep it for nobody.
* **Corrections of the past.** Vendors adjust their history to dividends and splits, and
  correct single bars, between any two statements of an ingestion that is under way. Bars
  may be missing in what they answer.
* **Sessions of the exchange.** Summaries are produced in the quarter hours of a session
  only; what a crash interrupts in the last one is not repeated.
* **Crashes** between claim, effect and record; between two statements of
  `enqueue_full_scan_pdf`; of a scan between evaluations, confluence and watermark.
* **Long histories.** The rows of `active_states` outlive the episodes they
  describe; transition and semantic keys drop repetitions.

`PROJECT.json` lists each hazard at its line with the properties that cover it.

## 2. The modules

| Module | Models | Proved about |
|---|---|---|
| `StateMachine` | `reconcile_state`, one operator per branch | used by the next |
| `StateStore` | `persist_state_run` of several workers on one slice | `StateStore_proofs`, `StateFeed_proofs` |
| `StateLifecycle` | abstract: the phases a key may pass and the messages of a move | `StateLifecycle_proofs` |
| `Outbox` | the outbox, publishers, Telegram | `Outbox_proofs` |
| `AtLeastOnce` | abstract: wanted, delivered, closed | `Outbox_proofs` |
| `CommandJobs` | the job queue, workers, the summaries thread and its PDF rounds | `CommandJobs_proofs` |
| `ScheduledScan` | one lane: live worker, scan-due, cycles, watermarks, resumption | `ScheduledScan_proofs` |
| `Listener` | the consumers of Telegram updates: lock, poll, jobs, answers, checkpoint | `Listener_proofs` |
| `UpdateFeed` | abstract: updates consumed in order, each with its answer | `Listener_proofs` |
| `Ingestion` | bars, revisions and snapshots of one instrument under several requests | `Ingestion_proofs` |
| `MC...` | instances for TLC | - |

`StateStore` extends `StateMachine` (which in turn is a pure module with the
constant `Threshold`), and instantiates `StateLifecycle` with the refinement
mapping of section 4. `Outbox` instantiates `AtLeastOnce`, `Listener` instantiates
`UpdateFeed`. The state store, the listener and the
job queue reach the outbox only through inserts, so the composition is an
assumption on the one side (`SummarySent` happens, `CommandJobs`) that is a checked
property on the other (`EverythingIsServed`, `Outbox`).

Operators whose comment starts with "Mistake:" are variants of the operator that
follows them, each a plausible bug. No specification uses them; putting one in the
place of the original must break the property that `PROJECT.json` names, which
shows that the property is about the code.

### StateMachine and StateStore

| TLA+ | Code |
|---|---|
| `Reconcile` and `...Decision` | the branches of `reconcile_state`, in its order |
| `rows[k]` | the row of state key k: status, `unknown_bars`, producer, `valid_from`, `last_seen_at` |
| `log` | `state_transitions`; the entry holds what `transition_key` hashes |
| `outbox` | messages by what the semantic key hashes |
| `OpenSnapshot(w, r)` | the engine has evaluated a bar; the snapshot of `SELECT ... FOR UPDATE` |
| `LockRows(w)` | the locks are granted, the latest versions read |
| `Commit(w)` | decisions, upserts, transitions, outbox rows, COMMIT |
| `Rollback(w)` | any failure in between |

A slice is an (instrument, scanner, timeframe). Slices do not share rows, so one
suffices. `told`, `doubtBars` and `matchBars` are history variables: what the last
message said of a key, the bars of its doubt and the bars it matched on.

Left out: `valid_until`, metrics and texts, which no decision reads. Rows are looked
up by state key, so `CHANGE` cannot be produced through the store; the branch is in
`StateMachine` all the same. No caller passes `instrument_halted = True` today; the
runs with `Halting <- Either` cover it.

### Outbox

`due` and `lease` are `available_at` and `lease_until` relative to now, in ticks of
the shortest retry delay, so time needs no counter. A claimed batch is a sequence of
messages with the attempt number each was claimed under. `send` has three outcomes:
accepted; rejected (Telegram has not taken it); ambiguous (Telegram has, the caller
got an error). `MarkSent` and `MarkFailed` update the row only while it is
`processing`, whoever holds it by then, as the SQL does. `excuses` is history: events
after which a message may be seen again.

### CommandJobs

Jobs are typed requests, automatic candidates and the PDF jobs of the slots. Their
texts and executors are reduced to a verdict. `CheckPdf`, `SupersedePdf` and
`InsertPdf` are the three statements of `enqueue_full_scan_pdf`, each committed by
itself. `Finish` writes answer and result whether or not the row was still
`running`, as `finish` does; only the UPDATE of the row is conditional. The lane of a
worker decides whether it claims PDF jobs.

`slot` is the latest quarter hour of a session, and `open` says that it is the present one:
`summary_slot` yields it (`application/live_scans.py:49-57`). `NextSlot` begins one,
`CloseSession` is the end of the last one of a day; a producer begins a round, or repeats one
that was interrupted, only in the slot itself (`Begins`; `cli.py:1307`), but finishes one that it
began. `cut` is history: rounds whose producer died between superseding the waiting round and
inserting its own.

### ScheduledScan

A lane is a universe in one timeframe. `Procs` serve it: live workers (`Live`) and
`scan-due --workers n` with n > 1.

| TLA+ | Code |
|---|---|
| `CloseBar`, `Settle` | a bar closes; it is 15 minutes old, so that the live worker may take it |
| `StartRun(p)` | the advisory lock, `earliest_watermark`, the due bars; no lock or no bar ends the run |
| `StartCycle(p)`, `FinishCycle(p)`, `Mark(p)` | `start_cycle`, `finish_cycle`, `update_watermarks` and the end of the run |
| `Begin(p)` | an instrument is submitted: out of time, complete already, or scanned |
| `Evaluate(p)`, `Report(p)` | one scanner persisted; the confluence report after the last |
| `FailInstrument(p)`, `Retry(p)` | a failure of one instrument; a retry round |
| `Crash(p)`, `Disconnect(p)`, `Abort(p)` | the process dies; the session with the lock is lost; the run notices |
| `OrphanScan` | scans of an aborted live run, which go on in the shared executor |

Bars are numbered in the order they close. What scanners find is left out (`StateStore`
has it), as are changes of the universe, calendars, the pauses between rounds, and
`scan-due` with one worker, which scans over the locked connection and does not resume.
`Family` is the family of a scanner, and a scan ends with a confluence report only if its scanners
cover two (`Covers`; `application/scan_frame.py:170`). An orphan scan that fails is left out: nothing
waits for it.

`Horizon(p)` is the newest bar a process plans with; for the live worker one that closed 15 minutes
ago. `skipped`, `failed` and `unreported` are history: bars up to the horizon that a run left out,
because it takes the newest one only or because they are older than the lookback (a bar that is not
due yet is not left out); instruments that failed; and evaluations whose report a crash lost, or
that a scan of an overtaken run completed with fewer scanners than there are by then.

### Listener

A consumer is a process: the service (`listener-loop`) or the pulse of the workflow
(`listener-once`).

| TLA+ | Code |
|---|---|
| `Connect(c)`, `EndRun(c)` | `pg_try_advisory_lock` and `pg_advisory_unlock` around the run or the loop |
| `NextOffset(c)`, `Poll(c)` | `next_offset`, `getUpdates` |
| `Handle(c)`, `Raise(c)` | `SymbolCommandService.handle` with the insert of a job; the insert that finds no instrument |
| `Commit(c)` | `commit_update`: outbox rows and `CHECKPOINT_SQL` in one transaction |
| `Crash(c)`, `Disconnect(c)`, `Abort(c)` | killed, or the poll failed; the session is lost; the next statement notices |
| `Notice` | the server gives up a session that broke off (`Ghost`) |
| `confirmed` | what Telegram forgets: everything below the greatest offset it was asked for |

Updates are numbered as Telegram numbers them. An update is a command answered from
stored results, one for a long job, one for a long job of a symbol without instrument, or
anything else. Consumers that are not in delivery mode live consume without answering;
`muted` names what they consumed. `cut` counts the interruptions between a job and its
checkpoint. Left out: the texts and parts of answers, topics, and who may write.

### Ingestion

One instrument in one timeframe, which is daily or not (`daily`).

| TLA+ | Code |
|---|---|
| `stored[s][r]` | `canonical_market_bars` of source s (vendor and price basis) and series revision r |
| `snapshots` | `data_snapshots`, with the bars the frame had |
| `Close`, `Adjust(s)` | a bar closes; a vendor adjusts its history up to a bar, or corrects one bar |
| `Answers(n, h)`, `Served(s, A)` | which bars a frame of an answer has, and what the vendor says of them |
| `Request(w)` | `ingest` is called: for a bar that closed (`scheduled`) or for the present |
| `LoadHeader(w)`, `LoadRows(w)`, `CheckRevision(w)` | the two statements of `load_recent_bars`, `latest_series_revision` |
| `FetchRecent(w)` | `fetch_from_source` and the merge of `_cached_daily_fetch`, `_cached_target_frame` |
| `FetchFull(w)` | `fetch_validated` with `validate_target` |
| `ChooseRevision(w)`, `Save(w)`, `NextAttempt(w)` | the revision, the three attempts |
| `Extend(w)` | the save of an extended intraday or weekly archive, without a new revision |
| `Rebuild(x)` | the bars between the first and the last of a snapshot (`src/scripts/atc_saved_scan_plans.py:291`) |

A bar is its number and, per vendor, the number of times it was changed (`quote`): that is all
the equality of bars can tell apart. A frame may lack up to `MaxGap` bars: those the vendor does
not have, and those `Canonicalizer` drops because they are outside the session
(`market_data/canonicalizer.py:83-84`) or their bucket is incomplete (`:155-161`). Nothing in
`application/ingestion.py` compares the bars of a frame with the calendar, and nothing in the
model does. A process that dies leaves nothing behind, as the
save is one transaction, so crashes need no action; `Return(w, "idle")` in `FetchFull`
stands for vendors that fail. Two saves of one revision at the same time are serialised
by the unique key of the bars: the second waits at the key and then sees the bars of the
first, so a save is one action. Left out: resampling of smaller bars, vendors whose
history is shorter than the window, and archives older than 30 days.

`rivals` is history: the revisions that others opened while a save was under way.

What is promised, and what is not. `SnapshotsRebuild` is about the rebuild by range that the code
does, as `data_snapshots` keeps the first and last bar of a snapshot and their number.
`RevisionsAreCorrections` is what revisions are for. A correction older than the overlap is
not noticed, and an archive may have bars before and after an adjustment:
`src/docs/ATC_ARTIMLI_VERI_ARSIVI.md:27` leaves this check, and that of consecutive
sessions, to a later stage, so that no property excludes it. The docstring of
`_cached_daily_fetch`, however, promises a backfill when "the provider has an unexpected gap";
`GapsAreBackfilled` states it and is violated (finding 5).

## 3. The runs

| Run | Instance | Shows |
|---|---|---|
| `states_serial` | 1 worker, 2 keys, 2 versions, 5 bars in order, threshold 3 | subscribers are never misled, the log rebuilds the rows, doubt counts bars, upgrades are silent, refinement of `StateLifecycle` |
| `states_concurrent` | 2 workers, 2 keys, 2 bars, one repeated, halts, threshold 2 | locks, log/outbox agreement, bounded doubt, evidence, terminal ABANDONED |
| `states_reentry` | 1 key, 3 bars | finding 1 |
| `outbox_delivery` | 2 messages, 2 publishers, two rejections and one other fault of each kind | duplicates have causes, refinement of `AtLeastOnce`, every message served |
| `outbox_overlap` | as above, no fault but a slow batch | finding 2 |
| `jobs_queue` | 1 request, 1 candidate, 2 slots, 3 workers, 1 producer, one fault of each kind, the session may end | answers, order of PDF and summaries, waiting rounds, everything settled, the newest round reported unless it was lost to a later one |
| `scan_lane` | live worker and strict scan-due with a retry round, 2 instruments, 2 scanners (one enabled later), 3 bars of which the first is done, 1 fault | the lock, watermarks account for everybody, completed cycles are reported, the newest bar is covered |
| `scan_gap` | 1 scan-due, 1 instrument, a scanner enabled while bars are missing | finding 3 |
| `listener_feed` | 2 consumers, the second live or not, 3 updates of 4 kinds, 2 faults | refinement of `UpdateFeed`, answers, second jobs, progress |
| `listener_poison` | 1 consumer, 2 updates, no faults | finding 4 |
| `ingestion_series` | 2 processes with windows of 2 and 3 bars, one or both scheduled, 1 vendor, 3 bars, 1 hole, 3 changes, 3 requests, empty archive or 2 bars | what snapshots name stays, and their number tells a filled hole; what opens revisions, why attempts fail |
| `ingestion_gap` | 1 process, 1 vendor, 4 bars, 1 hole | finding 5 |

**Bounds.** `MaxBar`: a key enters, becomes doubtful up to the threshold, is abandoned
and enters again within five bars with threshold 3. `Replays`: two repeats already
reach a threshold within one bar. Two keys are enough to have one in the work of a
run and one outside; two versions to have a change. Two workers suffice for row
locks, as a lock is held by one and awaited by another. In `Outbox` two messages make
a batch with a rest that can be overtaken; `Lease = 2` and `DelayCap = 2` let a retry
come before and after the end of a lease; `MaxAge` and the cap on `elapsed` only merge
times that no guard tells apart. One fault of each kind already combines four faults
in one behaviour; the second rejection lets a retry fail again, with a longer delay, beside
another message. A message that fails for ever is beyond the bound. In `CommandJobs` two slots give an older round that waits and a newer one whose producer
dies before or after superseding it, inside the slot or with the session over; `Lease = 1` is the
shortest lease that can be overrun. In `ScheduledScan` two instruments
and two scanners, of two families, let a run stop between instruments and between evaluations, with
`Parallel = 1` one scan at a time is enough for both; three bars are one that sets the
watermark and two that are missed. In `Listener` two updates fit in an answer (`Limit`), so
that three make a second poll; two faults lose a session and kill the successor. In
`Ingestion` the windows are as short as the rules allow that overlap bars must be two
(`MinCache`), three requests and three changes (`MaxChanges`: the third bar closes, the vendor adjusts or
corrects) reach the third conflict of a save and open at most three revisions besides the first, so
that `MaxRevision` cuts nothing off, and an answer of two bars may have a hole that another one
fills. One vendor is what TLC can afford with three requests: that a request may go from the archive
of one vendor to the bars of another is in the model, and covered by the proofs, which hold for any
number of vendors, but not by this run. Keys and versions are symmetric; symmetry is used only in
runs without liveness properties.

**Fairness.** `Outbox`: time passes, and a publisher process that is restarted when it
dies (`publisher-loop` in `src/compose.yaml`) goes on claiming and sending. The choice
between accepted and rejected is not fair: faults are bounded instead, which says that
Telegram recovers. `CommandJobs`: worker loops and the summaries loop run for ever, the
outbox serves its messages, time passes. A round is begun only while its slot lasts, so that
fairness of the loop does not promise it. Requests, follow-ups, new slots and the end of a
session are not fair, nobody has to ask anything. `ScheduledScan`: the lanes of
`scan-worker` loop until they are stopped, `scan-due` is scheduled, both are restarted,
and fifteen minutes pass; closing bars, enabling scanners, faults and the end of the
twelve minutes are not fair. `Listener`: the service is
restarted whenever it ends (`restart: unless-stopped`), the pulse is scheduled, and the
server notices broken sessions. Fairness is weak throughout: claiming is polled, and
what is claimable stays so until somebody claims it.

**Deadlock** is checked in every run but those of `Ingestion`, which has no work that could
be stuck when its bounded requests are done. `MarketOver` and `Quiet` are the only steps that
do nothing; their guards say that the bounded inputs are used up and all work is done,
so a state in which work is stuck would be reported.

## 4. Abstract specifications

`StateLifecycle` is what a subscriber may rely on: a key is outside, in, in doubt, lost
or halted; the legal moves; and that a message is the message of the move that was made.
The mapping takes the status of the row to its phase (an absent row is outside) and the
outbox to the news. The refinement is proved for one worker that repeats bars in any order.
It is not claimed for two: a worker that does not see a freshly inserted row announces a
second entry, which the unique keys drop only for the same bar.

`AtLeastOnce` is clause 25. Wanted is every row of the outbox, closed every row that is
`sent`; `Served` says that what is wanted is closed in the end.

`UpdateFeed` is clause 26: updates arrive, and each is consumed after the one before it,
together with the answer if it has one. The mapping takes the checkpoint to what is consumed
and the outbox rows of the listener to what is answered. Jobs, locks, batches and what
Telegram forgets have no counterpart: they are the means.

## 5. The proofs

`StateStore_proofs` proves, for all sets of keys, versions and workers, all bounds and
all thresholds:

| Theorem | Says |
|---|---|
| `TypeCorrect` | `Spec => []TypeOK` |
| `NoLostUpdate` | what a transaction read under `FOR UPDATE` is stored until it commits; two lock holders never share a row |
| `NoMessageWithoutTransition` | every outbox message has its transition in the log (clause 24) |
| `EndsRestOnEvidence` | only a successful evaluation without the key ends a state (clauses 8, 9) |
| `AbandonedStays` | ABANDONED is left by a halt or a logged entry (clause 10) |
| `DoubtStaysBounded` | a doubtful row is below the threshold, for thresholds above 1 |

Assumptions: `ThresholdAssumption` (the guard of `reconcile_state`) and
`StoreAssumption` (the constants are of their types). With threshold 1 the last theorem
is false: a change of producer writes UNKNOWN with count 1. The code uses 3.

The argument. Type correctness goes branch by branch through `Reconcile`
(`ReconcileType`), from there to the written row (`UpsertType`) and to each variable of
a commit (`CommitType`). What a transaction decides on is only the present state of a
key if nobody changed the row since it was read; `AbandonedIsTerminal` is false of a
decision on stale rows. Hence the inductive invariant

    IInv == TypeOK /\ LockedRowsAreCurrent

whose second part says that locked transactions hold disjoint sets of rows and that
what they read is what is stored. It is preserved because a lock is granted only when
all rows are free, and a commit writes rows it holds or rows that nobody holds. Every
change of a row is then a commit of a run in whose work the key is
(`RowsChangeByCommit`), and the action properties follow from what the decision for
that key can be.

`StateFeed_proofs` proves what a subscriber may rely on when a slice is fed by its scan lane only,
for all sets of keys and versions, any number of bars and any threshold:

| Theorem | Hypotheses | Says |
|---|---|---|
| `UpgradesAreSilent` | `OneWorker` | a change of version or ruleset announces nothing (clause 12) |
| `DoubtIsCounted` | `EveryBarOnce` | `unknown_bars` is the number of bars of the doubt |
| `EpisodesAreClosed` | `EveryBarOnce`, `NoHalts` | between two announced entries the log has an end |
| `TheLogRebuildsTheRows` | `EveryBarOnce`, `NoHalts` | the last entries of the log say the status of every row |
| `ActivesAreTold` | and `AllNotify` | an active state was announced, and nothing to the contrary since |
| `EndsFollowBeginnings` | and `AllNotify` | no end is announced of what was not announced to begin |

The hypotheses describe a lane: it holds the advisory lock of its universe and timeframe
(`OneWorker`), evaluates a bar again only when an evaluation was not stored (`EveryBarOnce`, which is
`OneWorker` and `Replays = 0`), no caller sets `instrument_halted` (`NoHalts`), and it runs with
`--notify` and keeps up, as a bar that is not the newest or is older than
`notification_max_age` is evaluated silently (`AllNotify`; `application/scheduled_scan.py:169`).
`/tara` is outside of them; what `states_concurrent` checks, and `StateStore_proofs` proves, is not.

The argument. A worker that is alone sees every row (`WholeView`), so that it decides on what is
stored. Rows, log and messages speak of bars up to the newest one and the run of a newer one
(`InOrder`): what a commit writes has a bar that no entry has yet, and the unique keys of log and
outbox, which drop repetitions, drop nothing. Both are in `FeedInv`; `NeverHalted`,
`RunningAreAnnounced` and `OverAreClosed` then say for each status what is in log and outbox, and
each branch of `reconcile_state` keeps them.

`StateLifecycle_proofs` proves `OneWorkerImplementsLifecycle`: with one worker and a
threshold above 1, `Spec => ImplementsLifecycle`. Each branch of `reconcile_state` is
checked against the moves of the life cycle (`DecisionFollows`); that a worker which is alone
decides on what is stored, and so that the move is made from the present phase, is the
invariant `SeesAll`, over which a commit is a step of the life cycle (`CommitIsStep`) and
every other action stutters.

`Listener_proofs` proves, for all sets of consumers, of updates and of limits
(`ListenerAssumption`):

| Theorem | Says |
|---|---|
| `TypeCorrect` | `Spec => []TypeOK`: the checkpoint is that of an update that was sent |
| `CommandsAreAnswered` | no command below the checkpoint is without answer and job |
| `ExtraJobsExcused` | a second job needs an interruption between a job and its checkpoint, one each |
| `ListenerImplementsFeed` | the listener implements `UpdateFeed` (clause 26) |

The inductive invariant `FeedInv` adds to the types that a session has the lock
(`OneSession`), that Telegram forgets only what was passed (`OnlyPassedAreForgotten`), that
the batch of a consumer with a session starts right behind the checkpoint (`BatchesFollow`)
and that what is about to be committed was handled (`CommitsAreReady`). A consumer without a
session may hold an old batch; it is harmless because the next statement ends it. The jobs
need one more, `JobsAreAccounted`: a job that is not excused belongs to an update that is
passed, or to the one that a session is about to commit.

`Ingestion_proofs` proves, for all processes, windows, sources and bounds
(`IngestionAssumption`):

| Theorem | Says |
|---|---|
| `TypeCorrect` | `Spec => []TypeOK`: in particular no save has a fourth conflict |
| `SnapshotsStay` | the bars of a snapshot stay as they were, and a rebuild with their number has no others (clause 16) |
| `ConflictsExcused` | after its first conflict a save fails only for revisions others opened |
| `RevisionsOpenForCorrections` | revisions have no gaps in their numbers, and each was opened by a frame that an earlier one contradicts |

`AgreeInv` says that no frame and no revision says two things of one bar, and that snapshots
name stored bars: a combination of archive and overlap agrees with itself because the
overlap was verified or replaced the older bar. `RivalInv` counts: a worker whose next
attempt is at a revision with bars has seen a rival for each conflict after the first, as an
attempt after a conflict goes to a revision that was empty when it was chosen.

`SnapshotsStay` needs that series are finite (`SeriesAreFinite`): a rebuild that contains the bars
of a snapshot and has as many is the snapshot.

`RevisionsOpenForCorrections` rests on `CorrectionInv`, which follows a worker between its
statements: it reads archives of revisions that are there (`ArchivesAreStored`), and an attempt
at a revision above the first is made only if that revision exists or the frame contradicts an
earlier one (`AttemptsCorrect`). The latter survives the saves of others, as these only add bars
(`StoreAdds`): what was contradicted stays contradicted, and what was empty may be filled but
not emptied. No assumption is made about what vendors answer.

`Outbox_proofs` proves, for all finite sets of messages and publishers, all batch sizes, leases,
delays and faults (`OutboxAssumption`):

| Theorem | Says |
|---|---|
| `TypeCorrect` | `Spec => []TypeOK`: however often a message was tried, its delay is capped |
| `DuplicatesExcused` | each delivery after the first has a crash, a lost answer or an overrun of its own (clause 25) |
| `HoldersExcused` | more than one publisher holds a message only as often as leases were overrun |
| `DuplicatesCostFaults` | a message is delivered at most once more than there were crashes, lost answers and overruns |
| `NothingSentTwice` | until the first of these faults nothing is sent twice: the conditions of finding 2 |
| `OutboxImplementsPromise` | the outbox implements `AtLeastOnce` without `Served`, the promise that rests on fairness |

The argument counts what may still happen together with what has happened
(`DeliveriesAreCounted`): the deliveries of a message, the publishers that hold it and may yet
deliver it, and one more if it can be claimed, are at most one and its excuses. A claim moves
one from the last summand to the second, a delivery from the second to the first; only an
excused event adds. `HoldersAreCounted` is the same for holders. That a publisher whose claim is
over still settles the row (`MarkFailed` compares the status only) shows in the count: it makes
the row claimable, but gives up what the publisher held. That excuses are not cheap is
`ExcusesAreFaults`: a message has no more of them than faults happened, one less while a claim of
it would be excused (`Overdue`), as only another overrun can make it overdue again. Rejections,
retries and the number of publishers do not occur in the bound. For the refinement, `PromiseInv`
says that what Telegram acknowledged was delivered, so that `MarkSent` closes nothing else.

`CommandJobs_proofs` proves, for all finite sets of requests and candidates, all workers,
producers, slots, leases and faults (`JobsAssumption`):

| Theorem | Says |
|---|---|
| `TypeCorrect` | `Spec => []TypeOK` |
| `AnswersSettle`, `SettledAreAnswered` | only settled jobs are answered; a failed one has its answer, a completed one its results and, unless it is automatic, its answer |
| `ContradictionsExcused` | answers, results and row disagree only about jobs that outlived their lease |
| `PdfsFollow` | the PDF of a round starts after the summaries of the round were sent, with any number of producers |
| `OnlyTheNewestWaits` | with one producer no PDF round waits that is older than another |

`FINISH_JOB` does not look at who holds the lease. What keeps answers and row together is
`HeldUnderLease`: a job that did not overrun has one executor, whose lease runs. `PdfsFollow`
needs `SummariesGoFirst`: the summaries of a round are in the outbox before its PDF job is
inserted, so that the claim cannot miss a predecessor which is still to come. `OnlyTheNewestWaits`
needs that a producer inserts rounds in their order and inserts none while one waits
(`RoundsInOrder`), which is why it assumes one producer: a second one may insert its round between
the supersession and the insert of the first (section 6).

`ScheduledScan_proofs` proves, for all finite universes, all sets of scanners, all processes,
lookbacks, retries and faults (`ScanAssumption`):

| Theorem | Says |
|---|---|
| `TypeCorrect` | `Spec => []TypeOK`: an instrument has one outcome per bar |
| `OneRunAtATime` | one process at a time serves the lane as long as no session is lost |
| `CompletedCyclesAreReported` | a completed cycle has the report of every instrument with two families, it is to come, a crash lost it, or an overtaken scan completed the families |
| `OnlyOldBarsAreLeftOut` | `scan-due` alone, with unchanged scanners, leaves out only bars older than the lookback |
| `MissedBarsCompleted` | clause 18 of such a lane, while no bar is that old and no instrument failed: the conditions of finding 3 |
| `NoBarPassedSilently` | a bar that a watermark passed is evaluated, or its failure is recorded, for every instrument; or it was due and left out when a run was planned |

A watermark moves only in the hands of the process that owns the lane. `OwnerMissesNothing`
says of it that every bar between a watermark and the bar it works on is accounted for, so
that the move passes nothing else; it holds when the run is planned because a plan
is an interval that begins behind the earliest watermark (`PlanIsWhole`), and it survives runs
that are over but whose scans go on (`OrphanScan`), as evaluations are only ever added. Plans are
sets of numbers that are worked off from below; that such a set has a least member
(`LowestIsIn`) is proved by the pigeonhole principle, as induction is out of the prover's reach.

`CompletedCyclesAreReported` needs `Coverage`. Resumption looks at evaluations only, so the
invariant relates them to reports: an instrument with the evaluations of all known scanners has its
report, or it has only that to come, or was interrupted (`FullIsReported`), as a scan ends with
the report and evaluates all scanners of its run, those that were evaluated before included: with
the missing scanners only, the families of a scan could be too few. The catalogue grows while runs
are under way; `Known` is the catalogue of the run that owns the lane (`KitsAreKnown`). Who still works
on a bar that another run has completed finds nothing new (`CompletedIsReported`).

`MissedBarsCompleted` shows that finding 3 has no other causes than those it names. In a lane
without live worker whose scanners were all there in the beginning (`FixedLane`) the watermarks move
together (`InStep`), so that the earliest is the common one and plans leave out old bars only.

Only model-checked: everything that must eventually happen (`EverythingIsServed`,
`EverythingIsSettled`, `NewestRoundIsReported`, `NewestBarIsCovered`, `OnlyUnknownSymbolsStop`),
as liveness under fairness is out of the prover's reach. Every safety property of a passing run
is a theorem.

## 6. Findings

1. **`states_reentry`.** `_upsert_state` (`persistence/postgres/state_store.py:288`) keeps
   the `valid_from` of any stored row when the new status is ACTIVE, so a state entered
   again claims to be valid since the bar of its last exit.
2. **`outbox_overlap`.** A batch that takes longer than its lease is sent a second time
   by another publisher; `src/docs/setup/operations.md:149-150` excludes it.
3. **`scan_gap`.** One scanner without a watermark makes `earliest_watermark` answer none
   (`persistence/postgres/runtime.py:513`), and the planner then takes the newest bar only
   (`scheduling/xist.py:84`). A scanner enabled while bars are missing thus moves the
   watermarks of all scanners past bars that were never evaluated; clause 18 and the
   comment at `scheduling/xist.py:83` exclude it. The live worker skips bars by design
   (`src/docs/live-scan-flow.md:5`), although `src/docs/setup/operations.md:28-30` says
   otherwise of it; the run has no live worker.
4. **`listener_poison`.** `/tara` or a research for a well-formed symbol that no active
   instrument has makes the insert of the job raise
   (`persistence/postgres/symbol_commands.py:205`). Nothing catches it before the end of
   the process, the checkpoint stays, and the restarted listener fetches the same update
   again: no later command is consumed.
5. **`ingestion_gap`.** The daily archive is extended by an answer that lacks a bar, as only two
   shared bars are compared (`application/ingestion.py:128-133`); the docstring (`:74-76`) promises
   the complete window on an unexpected gap.

Met while modelling, and not kept as runs:

* `unknown_bars` counts evaluations (`scanning/state_machine.py:97`): a bar evaluated three
  times abandons a state after one unknown bar. `DoubtCountsBars` holds of a feed that
  evaluates every bar once.
* `validate_target` (`application/ingestion.py:303`) accepts a full download only if its last bar
  closes exactly at the requested moment. Requests for the present (`cli.py:905, 1034, 1433`) never
  do: they end as `refused` and succeed only while the archive can be extended, although
  `src/docs/ATC_ARTIMLI_VERI_ARSIVI.md:11` promises the full download.
* The waiting PDF round is superseded in one statement and the new one inserted in another
  (`application/full_scan_pdf.py:176-192`). If the producer dies in between in the last slot of a
  session, `summary_slot` yields the slot no more, nobody inserts the round, and the one before it
  stays superseded, so that the evening has no PDF; `src/docs/live-scan-flow.md:23` says that the
  newest round is kept. `LostTo` in `NewestRoundIsReported` names exactly these. During a session
  the next slot makes up for it.
* With two scan workers an older PDF round can wait although a newer one was queued
  (`application/full_scan_pdf.py:177`); `src/docs/live-scan-flow.md:23` excludes it. In
  `jobs_queue` one producer makes the rounds.
* A missed bar on which every instrument fails is skipped when a newer bar of the same run
  succeeds (`application/scheduled_scan.py:257-262`), and an instrument that fails is not
  evaluated again (the latter is documented). `PassedBarsAccountForAll` names both.
* After a stop of more than `maximum_lookback_days` the older bars are not planned and the
  watermark passes them (`scheduling/xist.py:62`); `skipped` names them.
* A scan interrupted between its last evaluation and its confluence report loses the report,
  as the resumption check (`cli.py:1157-1166`) looks at evaluations only; `unreported` names
  these in `CompletedAreReported`.
* A run of an older bar that waited for the lock overwrites the row of a newer bar (nothing
  compares `last_seen_at`), and the same transition taken twice on one bar is logged once.
* A correction that is older than the overlap is not noticed, and a frame may join bars before and
  after an adjustment (`application/ingestion.py:131-134`).
* A hole of a snapshot that is filled later under the same revision changes what a rebuild by
  range returns. `src/scripts/atc_saved_scan_plans.py:307` compares the number of bars and
  refuses; `application/trade_dashboard.py:65` does not compare it.

## 7. What is not modelled

* **Scanners, features, trade plans, research, fundamentals, reports, renderers**: computations
  over prices, texts and layouts with no state of their own.
* **Legacy programs and scripts** (`src/_legacy`, `src/scripts`): what the new system replaces,
  and commands run once, by hand. Together with the former they are most of the
  84,000 lines, which is why the definitions of this project stand for a few percent of them:
  what has state, concurrency or failure is a small part of the repository, and it is the part
  that is modelled.
* **Provider cooldowns**: in `Ingestion` a vendor may fail at any time, which includes one that
  is not asked. **Universe**: upserts of downloaded lists. **Migrations**: a sequential runner
  under one lock. **Shadow comparison**: decides nothing.
* **News**: in the plan.
* Inside `Ingestion`: short histories of vendors, resampling but for the bars it drops, the
  30-day limit of the archive.
  Inside `Listener`: texts of answers, administrators, topics. Inside `ScheduledScan`: calendars,
  changes of the universe, `scan-due` with one worker.

## 8. Plan

Done: state machine, state store, outbox, command jobs, scheduled scan, listener, ingestion;
the proofs of every safety property of the passing runs, with three refinements.

1. Proofs: the jobs as a refinement of a queue that settles each request once.
2. `News`: items, revisions and the message of an item; a first run that tells nobody.
3. `Cooldowns`: caches of several processes that lag behind the table.
