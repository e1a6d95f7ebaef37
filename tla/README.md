# AutoSIEM: specifications, model checking and proofs

TLA+ models of AutoSIEM from the sources it reads (sockets, APIs, buckets,
files, feeds) over the queue, the rules, the baseline and the incidents to the
proposals and the triage of its analysts, checked with TLC. With TLAPS the
safety of durable ingest, of the queue file, the journal, the sources, the
listeners, the outbox, the baseline, the response, the web API and the triage
is proved for every value of the constants. Paths below are relative to the
repository (`src/autosiem/...` for the Python package); every definition names
the lines it models in `PROJECT.json`.

## 1. The system

AutoSIEM receives security events (syslog and CEF datagrams, files, vendor
APIs), normalizes them, runs detection rules and a behavioral baseline,
correlates findings into incidents, proposes responses and stores everything in
SQLite or PostgreSQL, where analysts triage it through a CLI and a web API.

| Part | Source | State it keeps | Operations | Interacts with |
|---|---|---|---|---|
| Syslog listener | `listeners.py` `SyslogServer` | socket, running flag, failure counts | `start`, `_serve_bursts`, `record_failure`, `stop` | hands bursts to `admit` or to the batching handler, on its receive thread |
| Batching handler | `listeners.py` `BatchingHandler` | buffer, first arrival, closed flag | `__call__`, `_run`, `close` | calls the pipeline from its own thread |
| Queue drainer | `listeners.py` `QueueDrainer` | arrivals, closed flag, retry deadline | `notify`, `_run`, `close` | calls `drain_queue` from its own thread |
| Durable queue | `bus.py` `DurableQueue` | SQLite rows, acknowledgement count | push, pull, acknowledge, set aside, requeue, compact | shared by threads of one process and by other processes |
| Durable ingest | `distributed.py` `DistributedPipeline` | held result, unacknowledged offsets, backend backlog | `admit`, `drain_queue`, `replay_from_queue`, `run` | queue, journal, pipeline, store, event backend |
| Event journal | `archive.py` | JSON-lines file, scanned bytes, count | append, read, restore | several processes, under a file lock |
| Detection pipeline | `pipeline.py`, `detection.py`, `normalization.py` | none but its parts' | `process_lines` | baseline, suppression, correlation, response planning |
| Sigma rules | `sigma.py`, `sigma_sync.py` | synced rules, their manifest | parse, compile, match, export, sync | the pipeline reads them when it starts |
| Enrichment | `enrichment.py`, `threat_intel.py` | indexes read at start | enrich, adjust risk, routine findings | scales the risk that correlation adds up |
| Behavioral baseline | `anomaly.py` | bounded counters per entity | `update`, `signals`, `to_dict` | persisted through the store |
| Suppression, feedback | `suppression.py`, `feedback.py` | suppressions, repeat counter, decisions per rule | `apply`, `weight_for_rule` | store |
| Correlation and risk | `risk.py` | none | `correlate_findings`, `merge_into_stored` | stored open incidents |
| Response | `soc_runtime.py`, `soar.py`, `policy.py` | proposals and their decisions | decide, plan, authorize, propose | store, analysts |
| Decision engine, LLM | `system_one/`, `llm.py` | none | assess, retry, gate, fit a prompt, validate | providers |
| Store | `storage.py`, `postgres.py`, `projections.py` | events, findings, incidents, proposals, audit chain, outbox | save, triage, audit, drain outbox | everything |
| Connectors | `connectors.py` | a state file per source | poll one page after another | vendor APIs, buckets, files |
| Update job | `update_job.py`, `kev.py` | caches of ATT&CK and KEV, indicators | refresh each source | files, HTTP |
| Web API, access control | `web/api.py`, `rbac.py` | the users file | authenticate, request handlers | store |

What is hard in it: the receive thread, the drain thread, an operator's command
and other processes share one queue file; every failure of the store, of the
queue, of the journal and of the event backend is retried, and a process may be
killed between any two writes; wakeups, retry delays and an orderly stop meet on
one condition variable; analysts and the pipeline write the same incidents;
resume points are saved before what they point past is processed; one baseline
row is shared by threads, processes and retries; and content changes under a
system that reads it once.
`PROJECT.json` lists each hazard at its line, with the property that covers it
or the reason why none does yet.

## 2. The modules

| Module | Models | Kind |
|---|---|---|
| `BackendCopy` | the bounded copy of stored events kept for ClickHouse or OpenSearch (`_send_to_backend`, `_flush_backend`) | actions used as conjuncts |
| `QueueDrain` | `admit`, `drain_queue`, `_settle_batch`, `_settle`, `_save_held`, `_set_aside` and what surrounds them: store outages, refused queue and journal writes, an operator's requeue, `kill -9` and a restart | specification |
| `DrainLoop` | `QueueDrainer._run` over `QueueDrain`: when `drain_queue` is called (after an announcement, an error, a start) and what is announced to nobody | specification |
| `AtLeastOnceIngest` | what durable ingest promises for each accepted line | abstract specification |
| `QueueDrain_proofs` | the inductive invariant of `QueueDrain`, the refinement, and what a drain leaves behind: the baseline, the copy for the backend, lines set aside, what a replay reports | proofs |
| `DurableQueue` | the queue file itself: rows, the per-process lock, room checks, acknowledgements, chunked compaction, reopening | specification |
| `Journal` | the journal file, its writers, torn writes and truncation | specification |
| `DurableQueue_proofs` | the bounds of the queue file and the rows it keeps | proofs |
| `Journal_proofs` | sequence numbers and the records a reader finds; the types of all sources | proofs |
| `QueueListener` | receive thread, `QueueDrainer` and stop of `cli listen` in queue mode | specification |
| `BatchListener` | receive thread, worker pool, `BatchingHandler` and stop of `cli listen` without a queue | specification |
| `ConnectorPoll` | `autosiem poll` of Okta, GitHub and Entra: pages, retries, cursors, remembered ids, state file | specification |
| `ObjectPoll` | `autosiem poll` of CloudTrail objects in a bucket | specification |
| `FileTail` | the connectors that tail a file by byte offset | specification |
| `Feeds` | `update`, `load-intel`, `sigma-sync`, and a pipeline that starts and reads what they left | specification |
| `Ordered` | finite sets of numbers in ascending order, for the sorted lists of connectors, of the sync, of clusters and of an export's records | operators |
| `Sources_proofs` | resume points of `ConnectorPoll`, `ObjectPoll` and `FileTail`; what `Feeds` reports | proofs |
| `SigmaRules` | condition parser, compiler, matcher and exporter of Sigma rules, against what a condition means | pure operators, driven by four actions |
| `Enrichment` | exports, the enrichers, routine findings, risk | pure operators, driven by the growth of the exports |
| `Baseline` | the signals and the learning of the behavioral baseline; its row, its revisions, its restores | specification |
| `Correlation` | repeat suppression, feedback weights, clusters, merges into stored incidents | specification |
| `Correlation_proofs` | repeats, clusters and stories, for every finite set of findings | proofs |
| `ModelAdvice` | System One from configuration to disposition, the gate, the LLM's prompt and decision | specification |
| `CaseResponse` | decisions, proposals, runbooks, the policy's gates, what is investigated again, filing and deciding | specification |
| `WebApi` | authentication, permissions, tenants, and changes of the users file by requests and by `autosiem users` | specification |
| `Outbox` | the event outbox of PostgreSQL and the deliveries to each destination | specification |
| `Triage`, `MCTriage` | clients of one SQLite or PostgreSQL store: triage, decisions, saved results with their merges, the audit chain, row and audit locks | specification, instances |
| `Triage_proofs` | two-phase locking and what follows from it; the audit chain | proofs |
| `MCListeners` | `QueueListener`, `BatchListener`, `Outbox`: what must make progress by itself | instances |
| `MCListeners_proofs` | wakeups, stops, receipts | proofs |
| `MCIntake` | `ConnectorPoll`, `ObjectPoll`, `FileTail`, `DurableQueue`, `Journal`, `Feeds`: where data comes from and what keeps it | instances |
| `MCAnalysis` | `Enrichment`, `Baseline`, `Correlation`, `ModelAdvice`, `CaseResponse`, `WebApi`: what is made of an event | instances |
| `MCEvents` | `MCAnalysis` and `SigmaRules` | instances |
| `Analysis_proofs` | the baseline, the users file and the requests, the proposals, the advice, the enrichment, and correlation as an instance of `Correlation_proofs` | proofs |
| `MCBaseline` | one pipeline of a restarting process | instance of `Baseline` |

`MCListeners`, `MCIntake` and `MCAnalysis` hold instances of several components
that share no state in them. Their variable `part` says which of them runs in a
behaviour; the others keep their first state (the listeners are stopped). So a
run explores each component as if alone: the number of states is the sum over
the parts, not their product. Variables and constants whose names collide are
renamed in `INSTANCE ... WITH`; each property is the conjunction of what the
parts promise about one question. What the modules assume of their constants is
a definition there and an assumption here (`ListenersAssumption`,
`IntakeAssumption`, `CorrelationAssumption`). `MCAnalysis` takes correlation as an
instance of `Correlation_proofs`, whose theorems hold for every set of findings;
`Analysis_proofs` cites them for the findings of the run.

**How they fit.** `QueueListener` says when `drain_queue` runs, and treats a
drain as one step with an outcome; `QueueDrain` says what a drain does, step by
step, and treats the queue as rows whose status changes atomically;
`DrainLoop` EXTENDS `QueueDrain` with who calls it;
`DurableQueue` says how those statements interleave with each other, and with
the deletion of acknowledged rows, which `QueueDrain` leaves out because nothing
else reads an acknowledged row. `Triage` says what happens inside the save that
`QueueDrain` takes as one step. `QueueDrain` EXTENDS `BackendCopy`, whose
operators are conjuncts of its own actions, and implements `AtLeastOnceIngest`
under the mapping `Phase` (a row's status), `saved` and `crashes`.

A poll hands what it fetched to the pipeline and the store directly, without a
queue (`ConnectorPoll!Ingest`). That, and `QueueDrain!Process`, is one step there;
what happens in it is taken apart by subject: the match
(`SigmaRules`), context (`Enrichment`), the baseline (`Baseline`, whose row is
`QueueDrain!storedBase`), suppression and incidents (`Correlation`), advice
(`ModelAdvice`), proposals (`CaseResponse`). `CaseResponse` leaves the choice of
an incident to `Correlation` and takes one that shares an entity; it takes an
LLM's decision as given, which `ModelAdvice` bounds. `Correlation!SaveFails` and
`Baseline!SaveFails` are the two halves of `QueueDrain`'s restore of `before`. A
save writes what `Triage` describes statement by statement, and on PostgreSQL
the row that `Outbox` delivers. `Feeds` leaves the rules and indicators that
`SigmaRules` and `Enrichment` read, and `WebApi` lets the analysts of `Triage`
in.

### QueueDrain: state and code

| Variable | Code |
|---|---|
| `last`, `row` | rows of the `messages` table: `AUTOINCREMENT`, and `acked` (0 pending, 1 acked, 2 dead) |
| `kind` | what a row carries, and how processing or saving it fails, if it does |
| `archived`, `archiving` | lines in the journal; the burst between `push_many` and `_archive_lines` |
| `store`, `saved`, `storedBase` | health of the primary store, committed results, stored baseline |
| `learned`, `before` | the baseline in memory (with the suppression engine's `_seen`), and the snapshot taken before the last processing |
| `held`, `unacked` | `_held` and `_unacked` |
| `pc`, `todo`, `suspects`, `settled` | the frames of `drain_queue` and the recursive `_settle`: `todo` is the set of halves still to settle, `settled` whether `_settle` saved anything |

A batch is a set of offsets, because the code always handles its lines in the
order of the offsets. `Bisect` turns the recursion of `_settle` into the set of
halves still to settle, taken left to right (`Foremost`), which is the order in
which the calls return. A death of the process keeps rows, results, the stored
baseline and the journal and clears everything else; the new process may be a
version in which failing lines work. `storedBase` is written by `Process`,
since `process_lines` ends by persisting the baseline, before the result is
saved. A save that fails does so before its commit: the one case that is left
out is a commit that succeeds although the client sees an error, which the
stores decide with the uniqueness of event ids. That the new process can load
the baseline is assumed; `Baseline` has the load that fails.

`DrainLoop` adds `due`, that `_wait_for_work` will return (lines were announced,
or a retry is set), and `untold`, the rows that came to wait while the drainer
slept and were announced by nobody: those an operator requeued from another
process, and a burst whose journal write failed after its queue commit. A drain
pulls whatever waits, so an announcement of any line covers them all.

### DurableQueue

A push is two steps, because `pending()` runs before the insert opens SQLite's
write transaction: threads of one process hold one lock across both, two
processes do not. `ack_many` is two locked sections, compaction a loop of
transactions. `AckMany` acknowledges any set of pending rows, as out-of-order
drains would.

### QueueListener and BatchListener

Time is whether a deadline has passed. `thread` and `flusher` are where the
drainer's and the flusher's thread are, with one value for each wait of
`_wait_for_work` and `_run`. Closing a UDP socket does not wake a thread blocked
in `recvfrom`, so in both models the receive thread may take one more datagram
after `stop()` has given up waiting for it; that a thread which has a datagram
in hand finishes with it within those five seconds is assumed. `BatchListener`
numbers the lines, since which of them a batch takes matters there; the workers
are a set of lines, because a worker touches nothing shared before it counts a
line or hands it to the handler.

### Journal

The file is a sequence of pieces (the text of a record, a part of one, a
newline), so positions stand for byte offsets: `scanned` and `count` are
`_scanned` and `_count` of each process's `JournalFile`. An append is two steps
under the file lock, so that a process can die after ending a torn line and
before writing, and a write may leave any part of itself; `spared` are the
records whose whole text a torn write left, without its newline. The next append
ends such a line and does not count it, though readers find it.

A writer that looks at the file (`Look`) after it was emptied, while it is still
shorter than what the writer had scanned, starts over; `missed` remembers a
writer that looked too late, and `SeqIsPosition` speaks of files nobody missed:
there a record's number is that of the records before it, less at most the spared
ones among them. `SeqUnique`, which the docstring promises, is violated by the
spared ones (`JournalUnique`).

### Triage

An operation is one transaction, taken statement by statement: `tx[c].pc` is
the next one, and what it has written is kept in `tx[c]` until `Commit` makes it
visible (`mine` the columns it wrote, `entries` its audit rows, `own` findings
that opened an incident of their own). What differs between the drivers is what
a statement waits for: on SQLite nothing until the first write, and then the one
writer (`writer`); on PostgreSQL the row it selects for update (`rowLock`) and
the advisory lock of the audit (`auditLock`), both until the end of the
transaction. The first statement after which SQLite is locked is the first
*write*: Python's driver begins a transaction there and not at a select, so
`update_incident` reads its row, and an operation that only audits reads the
last hash, before any lock. `status` stands for the triage columns a verdict
depends on and `assignee` for the others; `resolution` behaves as `assignee`.
The two audit rows a result may add for suppressions and case notes are left
out: they follow another audit of the same transaction.

### ConnectorPoll, ObjectPoll and FileTail

A cursor is the number of records before it; `Page(u)` and `HasNext` are the
service. `file` is what the state file reads back as: a write that is torn reads
back as no file at all, because the code takes a file that does not parse for an
absent one. Every run is a new process, which loads the file, follows pages
(`pc`), saves the file and then hands its events over; Okta saves after each
page, the others once. What a status means (`OktaRequest`, `GitHubRequest`,
`EntraRequest`) differs per connector. In `ObjectPoll` keys are numbered in the
order in which S3 lists them, and objects arrive in any order. In `FileTail` a
line is written in two halves, so positions count halves; `gen` is which file
stands at the path, after rotations.

### Feeds

Three commands, each a process with its own program counter, and files that are
truncated before they are written (`TruncateCache`, `WriteCache`), so that a kill
in between leaves `Torn`, and so does a write that fails (`WriteFails`: a full
disk), which the update catches: it names the feed as failed and goes on. The
indicators are renamed into place. A pipeline that
starts (`StartPipeline`) reads everything at once: the commands are processes of
their own, and each of its reads is of one file.

### SigmaRules and Enrichment

The code's recursion over parsed conditions and nested selections is recursion
over trees here. Texts are members of a small set with a matcher for each
operator; `Means` is the reference: what a condition says of an event, evaluated
block by block without compiling anything. `Docs` holds an event for each
combination that the operators tell apart. `RECURSIVE` operators are kept to
`SigmaRules`, about which nothing is proved; `MCEvents` adds it to `MCAnalysis`
for the run `Analysis`, and every behaviour of its `EventSpec` is one of the
`Spec` that the theorems are about. Two things a compiled rule does not do as its
condition says are exceptions of `RulesExact`: a block that names a field twice
keeps the last item only (`AsKept`), and a lone null or number is compared by
value as it stands but as text once it is negated or merged (`TextTells`).
`NegatesExactly` and `ItemsKept` state what the docstrings say without them.
`Enrichment` adds a line to an export per step; `Start` reads all files and
builds the indexes the way the constructors do, first or last entry winning as
in the code; `Speaks` is the reference, which says whose record is meant by a
name without an index.

### Baseline, Correlation and CaseResponse

In all three a batch is processed in one step and saved in another, with
everything that other processes and analysts may do in between.
`CaseResponse!Joined` is the incident of the highest risk among the candidates,
as a set that holds it alone. In both modules the lookup of stored incidents may
fail, which costs the merge and nothing else (`Correlation!LookupFails`).
`Baseline!known` is the `ContextVar` of `PostgresStorage`: a revision for each
thread of each process. A start whose row cannot be read, or does not parse,
begins empty and without a revision (`LoadFails`); on PostgreSQL its saves are then
refused, on SQLite its first save replaces the history that could not be read, so
`LearnedKept` speaks of PostgreSQL. `to_dict` and `from_dict` keep what the model
has of a state: the counters, the sets and the peers, which they write and read
under the same keys. Signals keep their points; the window of a burst is a
count. `Correlation!seen` is the repeat counter, and an instance is one delivery
of a finding, since a redelivered event gets new finding ids; `counted` is the
history the property compares with. `CaseResponse!judged` remembers the findings
an incident was investigated with last, `raced` that two pipelines had merged
into it at once.

### ModelAdvice

Probabilities are percentages. `told` holds the raw replies of this incident,
`statuses` the results of the HTTP calls: both are history, for the properties.
A prompt is the lengths of its parts, which is all that `_fit_context` looks at.
`fallback` is set when the answer that is kept came from the fallback: asked for
want of certainty and failing, it leaves the primary's answer and no flag. A chat
that raises one of the errors `annotate` catches ends in the local report (`Chat`
with no reply); one that raises another leaves `process_lines` (`ChatRaises`).

### WebApi

`inodes`, `target` and `tmp` are the users file: a save opens the `.tmp` name,
writes it and renames it, so two savers can write one inode. A request passes
the middleware (`Receive`) and is then served in one step, or, when it changes
users, in those of the handler: load, open, write, rename, audit. Routes are
taken by kind, which fixes the permission, the rows touched and the audit row:
the pages of lists and of search call the API's functions and so ask for their
permission, the pages of an incident and of the audit log ask for none (the rules
page, which asks for `rules:read`, is not among them);
`touched` is what the last request read or wrote.

### Outbox

`rows` are committed outbox rows; the identity is drawn when a row is inserted
(`saves`), so rows may commit out of order. A drain selects the rows without a
receipt for its destination, locks the first that is free, delivers it and
commits the receipt; the lock is the row's, whatever the destination. A fault
ends the run, with or without the delivery's effect.

## 3. Model checking

`expect: violation` runs reproduce a disagreement between the code and what the
repository says about it; each has an entry under `findings`.

| Run | Question | Bounds and why they are enough |
|---|---|---|
| `QueueDrainCrash` | is any accepted line lost, stored twice by one process, or set aside by a dead store? Is the baseline right after every retry, is the replay message true? Does the drain implement `AtLeastOnceIngest`? | 3 rows in one batch (bisected twice), one of them possibly a marker; two faults and one death at every step (an outage in each half of a bisection); a store that breaks for good |
| `QueueDrainLive` | is a good line eventually stored, and never set aside because of an outage? | 3 rows, batches of 2 (a line behind a batch, a failing one beside a good one), a journal that may fail, a requeue at any time, one fault, one death; `LoopSpec` |
| `QueueDrainBackend` | is every stored event accounted for by the copy? | 4 events and a bound of 2: the backlog overflows by a whole batch; a journal |
| `QueueDrainPoison` (violation) | does a failing line block good ones behind it? | two rows, batch size 1; `LoopSpec` |
| `Listeners` | lost wakeups, progress through failing drains and deliveries, stopping, true receipts | with a queue: 4 lines, batches of 2, 2 failed drains, one failed journal write; without: 3 lines in datagrams of 2, batches of 1 and of 2; outbox: 2 events saved by 2 clients, 2 destinations, 1 fault. `FairSpec`. Two lines beyond a batch are left in the buffer or the queue; an id commits after its successor |
| `Intake` | do resume points skip or replay anything, does the queue keep its rows and bounds, can the journal be read, do the feeds say what is so? | APIs: 4 records, one without an id, pages of 2, 2 pages and 2 attempts a run, 2 remembered ids, one death, one lost state file: a poll is cut by its page limit, and the window overflows in a page. Bucket: 5 keys, one no log, one corrupt, 3 listed, 2 read a run. Files: 3 lines, one rotation, one restart. Queue: 5 rows, bound 2, bursts of 2, compaction after 3 in chunks of 2, one refused transaction, for two threads of a process and for two processes. Journal: 2 writers, 5 records in bursts of up to 2, 2 tears, emptied once. Feeds: 2 releases (the second exceeds the limit and repeats a curated id), 2 versions, 2 runs, one kill, a cache write that fails in any run |
| `JournalUnique` (violation) | are sequence numbers unique? | one writer, 2 records, one tear |
| `Analysis` | do rules match what they say, are incidents one story, is the baseline exact, is advice some provider's, do proposals act only on evidence, does context only sharpen, does a request stay in its tenant? | some 5600 rules of up to 3 blocks, with nulls, numbers and a field named twice among them, under some 60 conditions; 4 findings in 2 batches of up to 3, of which 3 follow one another; 3 baseline batches of 2 pipelines, 2 stops, 1 failed save or load; 5 settings of the models, 3 prompts, 1 retry; 4 batches of findings for 2 pipelines, 2 runbooks, 1 closing, 1 decision; exports of up to 3 lines, in every order; 3 requests in 2 slots, a `users` command, 1 crash |
| `BaselineSurvives` (violation) | does a baseline outlive restarts? | 1 pipeline, PostgreSQL, batches on a thread of their own |
| `BatchLate` (violation) | is a line read after the stop lost uncounted? | 1 line |
| `Triage` | are updates, findings, verdicts and decisions lost or overridden, who can deadlock, does the audit chain hold? | both drivers, 2 clients, 3 operations, 2 incidents (a result may merge into both, in either order), 1 proposal: two operations race after or before a third |
| `TriageAuditOnly` (violation) | is the audit chain intact on SQLite while nobody tampers? | SQLite only, otherwise the same |

Deadlock is checked in the runs of `QueueDrain`. It is not in `QueueDrainLive` and
`QueueDrainPoison`, whose drainer may sleep for ever, in `Listeners` and
`BatchLate`, whose listeners really end, and in `Intake`,
`JournalUnique`, `Analysis`, `BaselineSurvives` and the runs of `Triage`, where the bounds end every
behaviour (a deadlock of locks is a state of `Triage`, which `TimeOut` ends).
These constants only bound the exploration: `MaxOffset`, `MaxMarkers`,
`MaxFaults`, `MaxCrashes`, `MaxLines`, `BatchLines`, `MaxDatagram`, `MaxFailures`,
`ArchiveFaults`, `MaxBurst`, `MaxRecords`, `MaxEntries`, `MaxLostSaves`, `MaxKey`,
`MaxGen`, `MaxRestarts`, `MaxTears`, `MaxTruncations`, `MaxVersion`, `MaxRuns`,
`MaxKills`, `MaxSaves`, `MaxBatches`, `MaxSaveFails`, `MaxFails`, `MaxClosed`,
`MaxFeedback`, `MaxStops`, `MaxIncidents`, `MaxCloses`, `MaxDecisions`,
`MaxRequests`, `MaxMerges` and `MaxOps`. The others are settings of the code,
made small: `MaxPages`, `MaxRetries`, `SeenCap`, `MaxObjects`, `MaxFindings`,
`ScanLimit` and their like. Symmetry is used where identities do not matter, for
the clients and incidents of `Triage`; rows and lines have an order.

**Fairness.** `DrainLoop!Fairness`: the drainer calls `drain_queue` when
`_wait_for_work` lets it (after an announcement, an error or a start), a drain
that runs goes on, and an outage of the store ends. Nothing calls it otherwise:
after a drain that returned it sleeps without a timeout, however many rows an
operator requeues from another process. No fairness is assumed of traffic,
faults, deaths, requeues or the backend. `QueueListener!Fairness` and `BatchListener!Fairness`:
the threads run and time passes; traffic, failures and the stop signal are free.
`MCListeners!Fairness` adds that the delivery to each destination is run again
and again, as `docs/postgresql.md` tells the operator to arrange with a process
supervisor or a scheduler; saves, aborts and faults are free.

**What the violations show.** `GoodLineNotBlocked`: when the head of the
queue holds `batch_size` failing lines (one with `--batch-size 1`), each drain
pulls exactly those, saves nothing, sets nothing aside, and raises; the lines
behind them are never pulled. `GoodLinesStored` states what does hold, of lines that were announced.
`SeqUnique`: a torn write leaves a whole text without its newline; the next
append ends the line, moves past it uncounted and gives its own record the number
of the one it has just completed. `SeqIsPosition` states what does hold.
`NoLineLostUncounted`: a datagram that arrives after the stop is read by the
receive thread, still blocked in `recvfrom`, and put in a buffer that has no
flusher any more. With a queue such a burst is queued and waits for the next
start. `AuditChainIntact`: on SQLite two requests that only audit (changes of
users do) read the same last hash, and both of their rows link to it.
`AuditChained` states what does hold. `BaselineSurvives`: the first process
inserts the baseline on its worker thread as revision 1. After a restart the
pipeline is built, and the revision loaded, on the main thread; the worker's
context starts without one, so its first save expects no row, meets its own and
is refused, and so is every later one: what the process learns is lost at its
end. With `Threaded = {}`, as for one-shot commands, the property holds.
`LearnedKept` states what does hold with threads: nothing stale overwrites.

**What else the models showed.** These definitions are in the modules without a
run of their own; each is violated as described.

| Definition | How | Against |
|---|---|---|
| `QueueDrain!StoredBaselineLearnsOnce` | with `MaxCrashes` 1: the baseline is written before the result is saved, and a death in between makes the next process learn the lines again | `docs/deployment-and-collection.md:316` |
| `QueueDrain!ReplayCaveat` | without its `crashes = 0`: after a death between save and acknowledgement, a failing replay says nothing pending was saved; only `_unacked` of this process is looked at | `cli.py:608` |
| `QueueDrain!JournaledBeforeProcessed` | with `Archive`: `admit` commits the burst to the queue first and archives it second | `docs/deployment-and-collection.md:323` |
| `QueueListener!KeptDrained` | with `ArchiveFaults` 1: the exception of the journal write skips `notify`, and the burst waits for other traffic | `docs/deployment-and-collection.md:313` |
| `Journal!SeqUnique` | with `MaxTruncations` 1: the file was emptied and has regrown past what a writer had scanned, so the writer keeps its old count | `archive.py:64` |
| `Correlation!RepeatsWithinWindow` | a batch that reaches back in time before an earlier one finds later repeats in its window | `suppression.py:5` |
| `CaseResponse!EveryChangeInvestigated` | two pipelines merge into an incident, each looking only at its own change, and no one investigates the sum; or a merge is orphaned by a closing | `docs/deployment-and-collection.md:320` |
| `CaseResponse!TargetsAlwaysInIncident` | the incident a merge meant was closed: its proposals, made for all of its findings, go to the new incident | `soar.py:9` |
| `DurableQueue!CheckpointKept` | without `OperatorsKeepOut`: an operator's `compact` in another process deletes every acknowledged row after the ceiling was read; a row below the ceiling that is acknowledged next is then the newest, and is deleted | `bus.py:260` |
| `ModelAdvice!TransportErrorsRetried` | a connection error raises at once; only statuses are retried | `system_one/config.py:67` |
| `ModelAdvice!NeverBreaks` | a chat reply whose content is null: `extract_json_object` raises an `AttributeError`, which `annotate` does not catch, and the batch fails | `llm.py:282` |
| `Baseline!PeersAreOthers` | `_peer_signals` scores before the baseline learns and takes one off the peer group for the entity itself, also for one never met, which is not in it (eight known users give "0 of 7 other user peer(s)"); `PeerCountsExact` says what holds of entities met before | `anomaly.py:182` |
| `SigmaRules!ItemsKept` | two items on one field in a block (`Image\|startswith`, `Image\|endswith`): the later replaces the earlier, and the rule matches more than it says | `docs/engineering-history.md:302`, `sigma.py:496` |
| `SigmaRules!NegatesExactly` | `not (field: null)` becomes `not_equals`, which compares the text "None" with the empty text of a missing field, and holds of it; `not (field: 5)` is false of the text "5", which `field: 5` does not match either | `sigma.py:24` |
| `ConnectorPoll!RestartSkipsNothing` | a death between the save of the cursor and the ingest of what was fetched | `connectors.py:742` |
| `ObjectPoll!ResumesCleanly` | an object delivered late, with a key before the last one read | `connectors.py:1532` |
| `FileTail!PartialLineReread` | the offset is set to the end of the file, half a line included | `connectors.py:123` |

Met while modelling, without a definition of their own: of two SigmaHQ rules
with one id the second takes the first one's file, and both are counted
(`FeedsAssumption` says ids are unique, as they are in SigmaHQ); an orphaned merge puts
clusters that are not connected into one incident; `not all of sel*` is refused
when blocks were merged by operators; where decisions are not terminal (SQLite),
reversing one can leave two live proposals for one action; a fallback's answer
replaces the primary's even when it is less certain; an LLM confidence of NaN
counts as 0.5; no caller sets another autonomy level than the default; two
"truncated" marks exceed a budget smaller than they are; two user changes at
once lose one of them, and sharing the `.tmp` name can tear the users file,
which answers every request with 503 until it is repaired; saving users drops
the permissions given to one user; removing the last user switches access
control off; the UI's comment form names no tenant, and its incident and audit
pages ask for no permission; a finding with two accounts is turned down if either may do it;
a malformed export either stops the start or loses its context without a word,
depending on where it is malformed; `update` with a URL for indicators replaces
those of `load-intel`; a sync that is killed can leave the old manifest with half
a directory; an outbox document the sink always rejects holds back those after
it in each run; and the lock of an outbox row is shared by all destinations.

## 4. Proofs

Eight modules hold theorems. Each states its properties for every value of the
constants that satisfies the assumptions in the modules (natural ranges; what
else is assumed is said below), and each follows one pattern: an inductive
invariant, one lemma per action that keeps it, and the property as a
consequence. A lemma per group of actions says what they leave alone.

| Module | Theorem | States |
|---|---|---|
| `QueueDrain_proofs` | `TypeCorrect` | `TypeOK`, with the bound on the backend's backlog |
| | `NoLineLost` | `AckedIsSaved` |
| | `NoDuplicateFromRetries` | `SavedOncePerProcess` |
| | `Refinement` | `ImplementsIngest` |
| | `LearnsOnce` | `LearnedOnce` |
| | `DeadStoreBlamed` | `NoDeadLettersFromDeadStore` |
| | `NoEventForgotten` | `BackendAccounted` |
| | `OnlyFailingSetAside` | `OnlyFailingLinesSetAside` (action property) |
| | `ReplayReportsOwed` | `ReplayCaveat` (action property) |
| `DurableQueue_proofs` | `QueueStaysBounded` | `QueueBounded` |
| | `RowsKept` | `QueueRowsKept` (action property) |
| `Journal_proofs` | `JournalReads` | `JournalReadable`, whatever a tear spares |
| | `SourcesTyped` | `TypeOK` of `MCIntake`, whatever a tear spares |
| `Sources_proofs` | `SourcesSkipNothing` | `NothingSkipped` |
| | `SourcesReplayNothing` | `NothingReplayed` |
| | `FeedsSaySo` | `FeedsHonest` |
| `MCListeners_proofs` | `ListenersTyped` | `TypeOK` |
| | `WakeupsKept` | `NoLostWakeup` |
| | `StopSettled` | `StopSettles` |
| | `ReceiptsHonest` | `ReceiptsTrue` |
| `Analysis_proofs` | `StoredBaselineGrows` | `LearnedKept` (action property) |
| | `BaselineStaysExact` | `BaselineExact` |
| | `WebStaysSound` | `WebSound` |
| | `ResponseStaysSound` | `ResponseSound` |
| | `AdviceStaysSound` | `AdviceSound` |
| | `EnrichmentStaysSound` | `EnrichmentSound` |
| | `RepeatsAlone` | `OnlyRepeatsSuppressed` |
| | `StoriesStayKept` | `StoriesKept` |
| `Correlation_proofs` | `RepeatsCounted` | `OnlyRepeatsSuppressed`, for every set of findings |
| | `StoriesAreKept` | `ClustersAreComponents`, `OneStory` and `FiledOnce`, for every set of findings |
| `Triage_proofs` | `TriageTyped` | `TypeOK` |
| | `AuditLinked` | `AuditChained` |
| | `UpdatesKept` | `NoUpdateLost` |
| | `FindingsKept` | `NoFindingLost` |
| | `OnlyMergesDeadlock` | `DeadlockNeedsMerges` |
| | `VerdictsStand` | `VerdictStands` (action property) |
| | `DecisionsStand` | `DecisionsFinal` (action property) |

**Durable ingest.** That an acknowledged row was saved depends on what
`_unacked` may hold, and that nothing is saved twice on no line ever being in
two places. `IInv` says where each line the drain has in hand is: `InHandWait`
(lines in hand still wait; those in `_unacked` are saved), `OnePlace` (a line is
in one half, the held batch or the suspects), `Control` (what each point of the
drain knows of its frames), `Unsaved` (a line neither acknowledged nor in
`_unacked` was not saved by this process) and `Grounded` (markers are never in
hand; `settled` means something is saved). `BisectKeeps` is the lemma about
halves. The refinement lemmas map `Admit` to `Accept`, `Save` to `Store`, `Ack`
to `Finish`, `SetAside` to `PutAside`, `RequeueDeadLetters` to `PutBack`,
`CrashRestart` to `Restart`, and everything else to a stutter.

`OutcomeInv` adds to it what the baseline has learned at each point
(`LearnedFromSaved`: what is saved, and the held or half-processed batch once),
and why a line is a suspect (`SuspectsFail`). A dead letter and the message of
a failing replay are then accounted for by the suspects and by `_unacked`.

**The queue file.** `DurableInv` follows the lock of each process
(`QueueLocked`): of its threads at most one is between its room check and its
insert. With one process the room it was given is still the room there is
(`QueueRoom`); with several, what waits and what is about to be inserted exceed
`max_pending` by at most a burst of each process but one (`QueueWaiting`). The acknowledged rows still there are counted:
each was counted towards the next compaction or is about to be (`QueueOwing`,
`QueueAcked`), and a ceiling lies below the checkpoint for as long as no
operator of another process compacts (`QueueCeilings`). Numbers of rows are
compared by cardinalities of sets of tokens, since no sum over the processes can
be taken without induction.

**The journal.** `JournalInv`: texts stand at odd positions and newlines at even
ones, with a torn piece at most at the end (`Lines`); whoever holds the file
lock has caught up (`JournalHeld`); what a writer counted is the number of
records up to where it scanned, and each record carries the number of those
before it (`JournalCounts`, `JournalNumbers`), less at most those that a tear
spared (`Near`): a torn line holds a record only if it was spared
(`EndsSpared`), and passing it over keeps a count near (`TornIsShort`). The types have an
invariant of their own, `SizesInv`: what a writer has counted and the records
after where it scanned are together no more than were ever handed to an append
(`JournalSized`), and a record costs at most three pieces, since a torn write
lacks the newline that the next append adds (`Unended`). `SourcesTyped` joins
it with the invariants of the queue file and of the sources, which contain the
types of their parts.

**The sources.** `SourcesInv` is the conjunction of an invariant for each. A
polled API (`PollInv`): no position, in memory or in the file, lies behind
something uncovered (`PollCovered`), whatever dies or is lost; and as long as
nothing died and no save was lost (`PollOnce`), what was delivered reaches at
most one page beyond where the poll stands (`Reached`), without a hole
(`Filled`), and the window of ids holds the last of it (`Remembered`), since it
is at least as long as a page. Then a page that overlaps delivers what is new
only. `ObjectInv` says the same of keys in a bucket, where the resume point is a
key and `start-after` excludes it; `TailInv` of halves of lines. `FeedInv` says
what an update knows while it runs (`Sound`), and how far a sync has come
(`Written`: the files are those of the first n rules kept); that its manifest
counts right is a bijection between files and rules (`FilesCounted`). The
lemmas about sorted lists stand at the head of the module: an element's rank is
the number of smaller ones, and ranks are ordered as the elements
(`RanksRise`, `InOrderIs`, `SmallestIs`).

**The listeners and the outbox.** `ListenersInv` is `QueueInv`, `MemoryInv` and
`OutboxInv`. A thread that sleeps without a timeout knows of no line
(`QueueAwake`): what waits and was not told of is in the hands of the receive
thread, which is about to tell (`QueueTold`). Each step of a stop leaves behind
nobody who holds a line read before it (`QueueLast`, `MemoryStop`). A drain
that is about to commit a receipt has put that row's event into its sink
(`OutboxRuns`), and sinks and committed rows only grow (`OutboxReceipts`).

**The baseline.** `LearnInv`: who has the revision of the row has everything the
row learned, but for what it undid itself and has not saved since (`Holds`,
`UpToDate`), and so has the snapshot a failed save goes back to. A write that is
accepted on PostgreSQL comes from such a thread, so it loses nothing that was
saved. `CoherentInv`: the parts of a baseline agree (`Coherent`) wherever it is
kept, in memory, in the row or in the snapshot, because each is some
`Learning!Update` of one that does.

**The users and the requests.** `WebInv`: a request that changes the users has
loaded them (`ChangesLoaded`); and as long as no two changes overlapped, the only
one there is has made of the file's content exactly what its route says, up to
where it stands (`Halfway`, `ChangesAlone`), so that the rename, or a crash
before it, leaves the file at what was meant. That `.tmp` and the file are
different inodes is part of `WebTypes`.

**The response.** `ResponseInv` carries the properties through the gap between
an investigation and its save. What a pipeline has in hand was proposed for the
findings it looked at (`RowsSound`, from `ProposedSound`, `PlannedSound` and
`VerdictFacts`, which follow the runtime, the runbooks and the policy's gate),
and a pipeline that merges into an incident nobody else is merging into has seen
all of it (`Alone`), whatever is closed or decided meanwhile. `MaterialFacts`:
what is not material to an investigated incident stays immaterial when the
change is filed.

**The advice.** `AdviceInv`: what was told came from a provider that was asked,
the answer kept is a valid one of what was told, and a valid answer of the first
provider stays unless the settings ask for certainty (`ToldInv`); the outcome is
what the policy makes of that answer (`WeighedInv`); each call has left its status
(`CallsInv`). A prompt is cut by a search over the number of findings; its result
is the greatest number that fits (the search keeps a number that fits below and
one that does not above, and halves what lies between).

**Enrichment.** An index is a fold over an export's records, in which a record
takes over its own names and fills in the bare ones. `FoldEnds` says when a fold
equals a closed form: they begin alike and go on alike. The closed form is `Table`:
of the records that have a name as their own the last speaks, or else the first
that has it in part, which is what `Speaks` says of names. `ContextInv` then says
that the index is the table of the records read, and the scored finding what the
enrichers make of it by that index.

**Correlation.** Three things here are induction over data, and are proved with
the set of the numbers a fact holds of as the parameter (`Induct`), since the
library's theorems take an operator there. (1) The repeat counter. A bucket of
times is `Backed`: its entries are the times of as many different instances of its
rule and entity that were counted, in rising order. So a bucket longer than the
threshold means that many repeats within the window, as long as batches come in
order (`CountInv`, which also holds of the counter of a batch in hand, saved or
not). (2) The clusters. However the links are drawn one after the other, the
union-find keeps `United`: two findings have one root if, and only if, they are
joined by the links so far (`AllUnited`); consecutive findings of an entity join
all that are near (`NearUnited`); so clusters are components
(`RootsAreComponents`). (3) The incidents. A cluster that joins an incident is
linked to it, or holds a finding of it, so the union is connected (`StoryGrows`);
`Pending` says what `merge_into_stored` handed to the save still means when an
analyst has closed a target meanwhile, and `StorySave` that each kept finding is
filed in one incident then.

The theorems of `Analysis_proofs` hold for any thresholds of the baseline and of
its peer groups, any windows, limits and retries, any pipelines, slots, routes,
stops, crashes, closings and decisions; the findings, batches, settings, prompts,
runbooks, accounts and exports are those of `MCAnalysis`, definitions and not
constants. Assumed are `MinGlobal >= 1` (`MinGlobalAssumption`), autonomy levels of
0 to 4 as in `policy.py` (`AutonomyAssumption`), that requests name routes that
exist (`RoutesAssumption`), that thresholds are integers and limits natural
numbers (`AdviceAssumption`), and that windows and the repeat threshold are
natural numbers (`CorrelationAssumption`). `Correlation_proofs` assumes the last
(`WindowsAssumption`) and that findings are finitely many, have a time and a risk,
and are told apart by rule and event (`FindingsAssumption`), which is proved of
those of `MCAnalysis`.

**Triage.** The argument is two-phase locking. What a transaction has read and
will write (`Reading`, `Merging`, `Chaining`) stays true of the committed rows
because it holds the locks that say so (`Holding`). `OthersUndisturbed` shows
that no step of another client changes that short of a commit, and
`CommitExcludes` that a commit touches no row and no audit tail that another
transaction relies on. `CommitRows` is what a commit does to the rows; the
action properties follow from it.

**What the proofs changed in the models.** The runs had passed before each of
these changes.

- `Triage!DeadlockNeedsMerges` was too strong: a client that waits for a merging
  result need not merge itself. It now says that of two that wait for each other
  one is a result that has dealt with an incident and wants another.
- `DurableQueue!CheckpointKept` was false for an operator's compaction in a
  second process, a case the run does not contain: the guard `OperatorsKeepOut`
  and the entry in the table above are due to the failed proof.
- `QueueDrain!ReplayCaveat` needs `crashes = 0`, as its own table entry says.
- `Threads` is finite and not empty, `SeenCap` is at least `PageSize` (1000 ids
  are remembered; `per_page` is at most 100 and `$top` at most 1000), and the rules of a SigmaHQ
  release have ids of their own: each was used without being said.
- Some `CASE` arms overlapped, where the code has a chain of `if`s; they are
  exclusive now.
- `Baseline!PeerCountsExact` spoke of every entity; with other thresholds than the
  run's it is false of one that was never met, which led to `PeersAreOthers` and
  the entry in the table above.
- Sorted lists are defined by counting (`Ordered`), and `AckedRowsBounded` counts
  pairs instead of adding up, because induction over an operator is out of the
  prover's reach.
- For the same reason `Correlation!ByTime` places an instance by the number of
  those before it, and the clusters and free targets, and the records of an export
  that parse, are taken in the order of their positions (`InOrder`); the community
  modules' `SetToSortSeq` and `SelectSeq` are opaque to the prover. Findings of one
  moment keep the order they were raised in, as `sorted` does, which the model had
  tied to the event's number.

**Only model-checked.** Liveness under fairness (`GoodLinesStored`,
`LinesSettle`, `StopEnds`, `EveryEventProjected`), which the prover cannot
reach. `RulesExact`: `SigmaRules` has `RECURSIVE` operators, which switch the
prover's solver off in every module that reaches them.

## 5. Not modelled, and the plan

Not modelled, because it is wording, layout or pure I/O: text generation and
retrieval (LLM, RAG, reports), redaction, metrics, argument handling, HTTP and
its routing, file modes, the mapping of vendor fields to normalized events, the
syntax of STIX patterns and of YAML, and the vendored data. Not modelled,
although it has behaviour:

- schema migrations of both stores, retention, and read-only queries;
- threshold rules over time, and the matching and expiry of an analyst's
  suppressions;
- the in-memory and Kafka buses, `ArchiveWriter`, and records appended to the
  journal with a number given by the caller;
- the evaluation and baseline commands of System One, and the background thread
  of `UpdateJob.periodic` (one exception of a run ends it);
- the one-shot `DistributedPipeline.run`.

Next, in this order:

1. Composition of two drains on one queue file (`listen` and `--replay`).
2. Migrations of the stores.
3. Threshold rules and the expiry of suppressions.
4. The theorems of `Analysis_proofs` for any exports, batches and accounts, as
   `Correlation_proofs` is for any findings.
