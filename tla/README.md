# VulnTrack in TLA+

VulnTrack collects vulnerability reports (Trivy, Semgrep, Gitleaks, Nuclei),
reconciles each with the findings it already has, lets analysts triage them and
scans its own targets on a schedule. It is a FastAPI service in several
replicas, PostgreSQL, Redis (an RQ queue and a read cache), a worker and a
scheduler. What is hard in it lies between these processes, and, on one side of
them, in a dozen queries written apart over one table. File and line
numbers refer to the repository (`app/jobs.py` is `src/app/jobs.py`).

## 1. Inventory

| Component | State it keeps | Operations | Talks to |
|---|---|---|---|
| Ingestion front: `main.py ingest_scan`, `scanning.py _ingest`, `storage.py` | a row of `scans`, the raw report on disk | create asset and scan, commit, invalidate, enqueue, 202 | queue, cache |
| Worker: `jobs.py process_scan`, `worker.py` | `scans.status`, `findings`, one database session | start, match each item, flush, enrich, close stale findings, commit, notify; on failure roll back and mark failed | database, EPSS, KEV, notifications |
| Triage: `web.py _apply_status_change`, one row or bulk | `findings.status`, `finding_notes` (the journal) | read rows, write status and note, commit, invalidate | database, cache |
| Auto-scan: `scheduler.py`, `web.py` targets and webhook, `scanning.py scan_target` | `scan_targets.last_status`, `last_scan_at`, RQ jobs | create, delete, scan on demand, tick, push, run, finish | queue, worker |
| Read cache: `cache.py` | two families of Redis keys with a TTL | `cached_json`, `invalidate` | API replicas |
| Parsers and fingerprints: `parsers.py`, `models.py make_fingerprint` | none | report to list of findings, finding to identity | worker |
| Posture: `web_posture.py`, `sla.py`; risk: `risk.py` | none, reads findings and the journal | MTTR, SLA, flow, score, bands | dashboard |
| Aggregates: `web_stats.py`, `web_modules.py` | none | counts, pages, filters | dashboard |
| Accounts: `auth.py`, `security.py`, login of `main.py` and `web.py` | `users`, JWT in a header or a cookie | create, log in, check a role | every endpoint |
| AI explanation: `web.py`, `ai.py` | `findings.ai_explanation` | generate once, then answer from the column | Ollama |
| Browser: `static/app.js` | filters, page, selection, last answer | reload, bulk triage, save filters | API |
| Reports, metrics, backup, deployment | files, counters | | |

What makes each correct, in one line: a *report* is applied whole or not at all
and only to findings of its own asset and scanner; a *scan* is processed once
and ends; a *decision* of an analyst is journaled; a new *finding* is announced
at most once; a *target* is scanned when due and not twice at a time, and one
that says "success" was scanned; an *answer* from the cache is old by a bounded
time; a *unique name* is created once; a *wait* for a row ends; a *number* is
the same on every page that shows it, and moves only for a reason the analyst
knows; a *table* on screen answers the filters beside it.

The behaviours that are hard, by name (with their lines in `PROJECT.json`,
"hazards"): reads of the matching loop used at a commit many seconds later;
enqueue before commit (scheduler, webhook) and commit before enqueue (ingest);
two workers on the same rows; death of a job between two commits; RQ's timeout
as an exception raised anywhere; one commit for several targets; the fill of
the cache against its invalidation; locks taken row by row in two orders; a
coroutine that waits for a row on the event loop its rival needs; RQ's timer
swallowed by the handlers of other failures; searches and bulk changes of the
browser that overlap; ties, bounds and roundings of the counters; lists cut at
limits of their own; a window that starts at an instant and is drawn in days.

## 2. Modules

| Module | What it is |
|---|---|
| `ScanLedger` | abstract specification: what the tables `scans` and `findings` promise, with no queue, worker, session or lock; with a late timeout, a completed scan may also be disowned, its findings as they were |
| `Ingestion` | front, queue, workers and analysts at the grain of the database transaction |
| `IngestionRefinement` | `Ingestion` implements `ScanLedger` (`INSTANCE ... WITH contended <- touched`) |
| `IngestionProofs` | its inductive invariant and theorems |
| `TargetLife` | abstract specification: what a target with a cron schedule goes through, with no queue, tick, session or worker |
| `AutoScan` | targets, scheduler, webhook, queue, `scan_target` |
| `AutoScanRefinement`, `AutoScanProofs` | `AutoScan` implements `TargetLife` (`INSTANCE ... WITH life <- Stages`); its invariants and theorems |
| `ReadCache`, `ReadCacheProofs` | one key of the cache |
| `Transactions` | the requests that create, upload and triage, and a scan, at the grain of the SQL statement: locks, unique indexes, deadlocks, the event loop |
| `TargetJob` | `scan_target` on top of `Transactions`: clone, scanners, `process_scan` in the same job, RQ's timer and kill |
| `TargetJobRefinement` | a job of `TargetJob` is one flight of `AutoScan` (`INSTANCE AutoScan WITH ...`) |
| `Scoring` | severities, deadlines, the risk score and its SQL expression: pure operators |
| `Findings` | the table with the columns the pages read, over the hours: parsers, fingerprint, EPSS and KEV, triage, criticality |
| `Overview`, `ThreatModules`, `Posture` | what `web_stats.py`, `web_modules.py` and `web_posture.py` compute over it |
| `Pages` | the three together: how what one page shows relates to the others and to the past |
| `LedgerProofs` | what the sessions of `Ingestion` know, and that it implements `ScanLedger` |
| `TargetJobProofs` | the sessions of `Transactions` and the job of `TargetJob` |
| `FindingsProofs`, `PagesProofs` | the table of `Findings` and its steps; what the pages compute over it |
| `WorkspaceProofs` | the explorer and the explanations |
| `Explanation` | the AI explanation of a finding under several drawers |
| `Workspace` | the explorer of the browser and its searches and bulk changes in flight, composed with `Explanation` |
| `MCIngestion`, `MCAutoScan`, `MCReadCache`, `MCTargetJob`, `MCPages`, `MCWorkspace` | the small instances |

One program text is seen at three grains. `process_scan` is one step in
`Findings` (where columns and numbers matter), a step per item and per commit in
`Ingestion` (where sessions of several workers race), and a step per SQL
statement in `Transactions` (where row locks, their order and the handlers
around them matter). Two theorems tie the last two to what the others take for
granted: a flush is one step in `Ingestion` because nobody alters what a
session of `Transactions` holds before it commits (`LocksProtectRows`), and a job of
`scan_target` is one step of `AutoScan`'s worker because all it does to its
target's row is to begin and to finish, or to die (`JobIsOneFlight`).

### Ingestion

One action per step that another process can see or come between:

| Action | Code |
|---|---|
| `Upload`, `Enqueue`, `Abandon` | `ingest_scan` up to its commit (main.py:368); `enqueue` and 202 (377); a death or Redis down between the two |
| `IngestOwnScan` | `scan_target` calling `_ingest` and `process_scan` in one job (scanning.py:192-197) |
| `Dequeue`, `StartProcessing` | the worker takes a job; `processing` is committed alone (jobs.py:30-31) |
| `MatchItem` | one turn of the loop (49-99): skip a fingerprint already seen, read the row, remember an INSERT or a reopening |
| `Flush` | `db.flush()` (101): waits for row locks; a fingerprint somebody else inserted is a unique violation, so `Flush` is disabled and only `Rollback` is left |
| `CloseStale` | enrichment, then the stale query (106-153) |
| `Publish` | the commit (155-161) |
| `Notify` | `_maybe_notify` (170, 193-217), best effort |
| `Rollback`, `FailLate`, `MarkFailed` | the handler (179-187), entered before or (`LateTimeout`) after the commit |
| `Kill` | the process dies, or an exception is raised outside the handler's `try`; RQ does not retry |
| `ReadFindings`, `CommitTriage` | the SELECT and the commit of `api_change_status` and `api_bulk_status` |

The session does not autoflush (`database.py:22`) and PostgreSQL runs in READ
COMMITTED, so a session is a record of what it has decided (`tx`: rows to
insert, reopen, close) and reads see what is committed at that moment. A flush
takes the locks of all its rows in one step (`Held`, `FreeFor`). The order in
which it takes them, which is what lets two sessions deadlock, is in
`Transactions`; here the outcome for a scan, an exception, is `Rollback` at any
point.

Abstracted data: a fingerprint is a model value, a report a sequence of them; a
parser, storage or database error is `Rollback`; severity is membership of
`Alertable`; `updated_at`, `last_seen`, EPSS, KEV, note bodies and free comments
are columns no property reads.

`killed` and `touched` are history variables. `touched[s]` collects the rows
other transactions changed while scan `s` was processing: the refinement needs
it because on exactly these rows the code reads early and writes late, and the
ledger allows either writer's value there, and nothing else anywhere else.

### AutoScan

`StartTick`/`ReceivePush`, `EnqueueOne`, `CommitMarks` are the loop of
`scheduler.tick` and `github_webhook`: read targets, enqueue each, set
`last_status` in the session, commit once. `CommitFails` is the UPDATE of a
deleted row, which fails the whole commit; `Abort` an exception or a death in
the loop. SQLAlchemy writes an attribute only if it changed, so a webhook that
loaded `queued` writes nothing (`noWrite`). `Begin`, `NotFound`, `Finish` and
`Kill` are `scan_target`; its loop over scanners is one step here, and a module
of its own, `TargetJob`. `stranded` and `extra` are
history: how a target was left busy without a job, and which targets had a job
that did not come from a committed tick. No endpoint changes `enabled`, so it
is not a variable.

`Stage` reads a target's place in `TargetLife` off its jobs and the history: at
rest, asked for (queued, or taken by a worker that has not begun), scanned, lost
(stranded) or shared (`extra`). Of a shared target the abstract specification
promises nothing; of any other it says that a scan begins only for a date that is
past, that the date is over when the scan ends, that nobody asks twice, and that a
lost target is never asked for again.

### ReadCache

The rows behind a key are a version number. `Miss` reads it, `Store` writes it
to Redis later; `Commit`, `ScanKeys`, `DeleteKey` are an API writer,
`CommitOnly` the worker (`process_scan`), `_ingest` and
`api_set_criticality`, which never invalidate; `SkipInvalidation` a
`RedisError`. `MaxFill`, how long a reader may take between its SELECT and its
SETEX, is an assumption: nothing in the code bounds it.

### Transactions and TargetJob

A session plans its statements (`Create`, `Upload`, `Triage`, `Scan`, later
`CloseStale`) from what it reads: a set of statements (`todo`), each with its
place in the order of SQLAlchemy's unit of work, which is the rows it changes by
primary key, then the rows it adds in the order they were added. A triage with a
note updates the selected rows whose status it does not change as well
(`Touched`). Then it writes one row at a time, the one with the lowest place
(`Statement`). `Blocked` is PostgreSQL's wait for the transaction that wrote the
row or the index entry first, `Taken` a second entry of a unique index, `Victim`
the detector's choice in a cycle of waits. `Commit` publishes everything and
frees the locks; so does any other end, with nothing published. The two insert
races of `Ingestion` with two workers stay there: here there is one worker, as
deployed.

`ingest_scan` is `async` and calls the database without `await`: from `Upload`
to its end it owns the event loop of its process (`loop`), and no other request
of that process begins (`Dispatched`). When `save_report` raises, the session
is closed by the dependency's `finally`, which FastAPI runs in a thread the
loop has to start (`Close`).

`TargetJob` has a step per place where the job can be stopped. Its loop goes
over the positions of the target's list of scanners (`Listing`), since a list may
name a scanner twice. The job begins with any `last_status`: a scan on demand
sets none (`api_run_scan_target`). `TimerFires` is
the one exception of RQ's timer (`queue.py:9`), raised at any of them except
inside a call to PostgreSQL, and what catches it: nothing (`TimerFailsJob`), the
clone's handler, the loop's (`TimerFailsScanner`), `process_scan`'s
(`TimerFailsScan`), or the handlers of EPSS, KEV and the notification, which
take it for an outage (`TimerSwallowed`). `Kill` is the end RQ makes of a horse
that outlives the timer, and any other death.

### Findings, the pages, Scoring

A row has the columns the pages read. `Scan` is `process_scan` whole: parse,
fingerprint, the first of each fingerprint (`FirstSeen`), the row each one is
about (`RowOf`), reopen or insert (`Matched`), enrich from what the feeds
answered (`Enriched`; `fetch_epss_scores` leaves out a failed batch,
`fetch_kev_set` is empty when the request fails, and a row without a CVE is left
alone), close the rest of the source (`CloseStale`). These are functions over
the rows, not a loop over them, so that they can be reasoned about; the order of
the loop is kept where it decides something, the first of two items and the ids
of new rows. Time is in hours, from midnight of day 0 (`Day`), EPSS in
hundredths, a score before rounding in quarters of a point (so `round` to even
is exact). A title is the rank of the ATT&CK rule it matches; a CVE is a number.
`fixedAs` is history: whether a finding wore the overdue badge when it was last
set to fixed.

`Overview`, `ThreatModules` and `Posture` define one operator per function of
the three Python files, with its name, over the current table. Each list the
code cuts is cut (`Limit`, 8, 8, 8, 8, 6, 8 and 12 in the code): a list in a total
order is the first of its rows (`FirstByEpss`), one ordered by a count alone is any
of the lists the database or a stable sort may return (`Tops`), and a property of
it holds for each of these. The flow counts what is not older than 30 times 24
hours (`FlowStart`), so the first of its 31 days is cut at the time of day it is
now. Labels and widths are left out.

### Workspace and Explanation

`state`, `selected` and `lastData` are the variables of `renderFindings`. Each
click changes `state` and appends a search to `reloads`; the server counts
(`Count`) and cuts the page (`CutPage`) in two statements; `Show` puts an answer
on screen when it arrives, whatever was asked since. `tickedAfter` is history: how
many bulk changes had been sent when a row was last ticked. Findings are numbered in
the order of the sort column, so a descending sort is the reverse. `bulks` are
the bulk changes in flight; `Elsewhere` is a scan, another analyst, or the
drawer of this one, which patches a finding and does not search again.
`Explanation` is `api_finding_explain` with the call to the model as two steps,
and the button of the drawer that is disabled meanwhile.

## 3. Runs

| Run | Question | Instance | States |
|---|---|---|---|
| `ingestion_pair` | two workers: `OnePlacePerScan` (with the types), `OneAlertPerFinding`, `NoTraceUnlessPublished` | 3 scans, 2 findings, reports that meet in both orders, 1 death | 0.9 M |
| `ingestion_live` | two workers and every failure: `DecisionJournaled`, `ImplementsLedger`, and `AcceptedScanEnds` under `FairSpec` | 2 scans, 3 findings of 2 scanners, reports that meet in both orders, an empty one and one of the other scanner, 1 triage, 1 death, late timeout | 0.5 M |
| `ingestion_late` | violation of `NoTraceUnlessPublished` with `LateTimeout` | 3 scans, 1 worker | - |
| `autoscan` | `TypeOK`, `BusyUnlessStranded`, `OneCronJob`, `ImplementsLife`, and `DueTargetIsScanned` under `FairSpec` | 2 targets, scheduler, 1 webhook, 1 worker, 1 request, 1 exception, 1 death | 0.8 M |
| `autoscan_busy` | violation of `BusyMeansInFlight` | the tick alone, no failure | - |
| `readcache` | `TypeOK`, `BoundedStaleness`, `StaleOnlyByRacingFill` | 2 readers, 2 API writers, the worker, TTL 2, fill 1, clock 5, 2 commits | 1.8 M |
| `readcache_writes` | violation of `WritesInvalidate` | the worker as only writer, no failure | - |
| `transactions` | `TypeOK`, `DeadlockNeedsAScan`, `CreatedOnce`, `SuccessMeansScanned`, `LeftoversHaveACause`, `IsOneFlight`, and `EveryWaitEnds` under `FairSpec` | a job of two applicable scanners out of three, two requests that upload, create or triage the same rows in two orders, 1 report that cannot be saved, the timer, 1 death | 96 k |
| `pages` | the twelve agreements of `Pages`, and its `TypeOK` | 2 assets, 6 reports of four scanners, 3 instants on 3 days, lists of 1 and 2 rows, 2 reports applied, 2 decisions, 1 feed request that fails | 75 k |
| `pages_mttr` | violation of `MttrCountsTheFixed` | as `pages`, no failure | - |
| `workspace` | `TypeOK`, `TableMatchesFilters`, `RowsFitCount`, `TicksSurvive`, `OneExplanation` | 2 findings on pages of 1, 2 clicks, 1 change elsewhere, 1 lost call, 2 analysts with the same drawer | 1.9 M |
| `explain_twice` | violation of `ExplainedOnce` | 2 analysts with the same drawer | - |

Bounds. Three scans are what it takes to open a finding, close or race it, and
see it again; two of them concurrent with two workers meet every pair of steps.
Three findings give a report that lists, one that omits and one of another
scanner. One triage request suffices for each race with one scan because it may
take any set of rows to any status at any point. A clock of 5 lets an entry with
TTL 2 be stored late, expire and be replaced. In `transactions` two requests and
the job are what a cycle of waits takes, with two rows selected in two orders,
one of them listed by the report and the other closed by it. In `pages` two
reports and two decisions reopen, close, correct twice and date a finding on
either side of a deadline: a critical finding of hour 0 is due at the second
instant, a high one is 12 hours late at the third. At the third, noon of day 30,
the flow's window begins at noon of day 0, whose bar is cut by it. The lists of
rules, CVEs, assets and grave findings keep one row and the priorities of the
vulnerabilities two, so that each is cut in some states and full or short in
others; the EPSS values are the bounds of the histogram. In `workspace` two
clicks are what it takes for answers to overtake each other, and one row per
page for a page to be left empty. Every bound is a constant with `Max` in its
name; they limit only how often something happens. `ImplementsLedger` runs with
the two workers of `ingestion_live`, where its abstract steps race;
`ImplementsLife` with one worker, as deployed, and for several it is what
`TargetsLive` says. Deadlock is not checked: with all scans processed, or the
clock at its end, the instance is over.

Symmetry is used for workers (`ingestion_pair`) and for readers and writers
(`readcache`), in runs without a liveness property; no definition tells them
apart. In `workspace` it is used for the two analysts.

Fairness. `Work(w)` is weakly fair: the worker is restarted for ever (`restart:
unless-stopped`), and a statement that waits for a lock ends by RQ's timeout of
600 s (`queue.py:9`), which is `Rollback`, or by RQ killing the horse a minute
later, which is `Kill`. `Enqueue` is weakly fair: a handler that has committed
goes on unless it is abandoned. `StartTick` and each producer's loop are weakly
fair: the tick runs every minute in a `while True` with a catch-all. Users,
GitHub, triage, the cron's date, exceptions and deaths are not fair. A leads-to
is conditioned on what the code does not promise: a scan whose own job died and
a target stranded as below are exempt. In `transactions`, each request that has
begun and the job's next step are weakly fair (threads and processes are
scheduled, PostgreSQL breaks a cycle); beginning, failing to save, the timer and
deaths are not.

### What the passing runs over rows, pages and screens show

`ingestion_pair` and `ingestion_live`. Among two workers a scan that failed or
was killed leaves no trace, without the late timeout; a new finding is announced
by one; a decision never lacks its entry; and off the rows that were changed
under a scan, what it publishes is what its report says of the tables at that
moment.

`transactions`. Triages and creations lock in one order and never wait in a
cycle among themselves: a deadlock takes a scan that holds its report's rows and
goes on to close stale ones (`DeadlockNeedsAScan`), and ends in a 500 for the
analyst or a failed scan. One creator of a name wins; the others get a 409 or, if
both had found it free, an unhandled unique violation (`CreatedOnce`). A target
that says "success" has all its applicable scanners' scans completed, whichever
handler caught what (`SuccessMeansScanned`), and a scan left pending or
processing needs an interruption of its own (`LeftoversHaveACause`). Seen from its
target's row the job says "running" once and then, once, how it ended
(`IsOneFlight`): a second outcome, or an outcome written by a job that never
began, would be a step `AutoScan` does not have. Every wait
ends with one exception, `Hung`: an upload of a new asset whose report could not
be saved, while another upload of that asset waits for its row on the same event
loop. The waiting coroutine occupies the loop that would start the thread that
closes the first session, and neither PostgreSQL (no cycle of locks) nor the
application has a timeout. The state is reachable in the instance; `EveryWaitEnds`
names it as the only one.

`pages`. The counts of six queries written apart agree, and a list of rules or
CVEs accounts for all of them as long as its limit has not cut it. The explorer's
SQL order and the Python score of the posture never contradict each other, and
neither list of the gravest leaves out what the explorer puts above it, cut as it
is. A page partition holds for each sort. Compliance is what the analyst saw. What
the flow showed for a past day only shrinks: corrections move to a later day, and
the bar of its first day loses what gets older than the window, beside a timeline
that shows the whole day; on the other days discoveries never move. Hygiene and
risk change only for the stated reasons.

`workspace`. The table on screen is the answer of the last search unless that
answer was overtaken or failed; a count and its page differ only if somebody
committed in between. A ticked row is lost only to a click that unticks it, or to
the answer of a bulk change that changed it or was sent before it was ticked: the
second case is a loss the code permits (app.js:660). An explanation is what all
read, until two requests overlap.

Where the code disagrees with a text beside it and no run is spent on it, because
one look at the two lines shows it:

- app.js:289 says each tile leads to the filtered list of what it counts; the
  counts take `open` and `in_progress`, the links ask for `open`.
- web_stats.py:215-216 says the ranking of assets weighs open findings;
  `per_asset` holds the severities of every status (`AssetWeight`).
- app.js:688 says no finding matches the filters; a chip or a sort keeps the page
  number, and a page beyond the last is empty although the count is not.

### What the violations show

1. `ingestion_late`: the handler of `process_scan` covers the statements after
   the commit. RQ's timeout striking there marks a published scan `failed`
   (against the comment at jobs.py:168-169).
2. `pages_mttr`: the MTTR and the SLA compliance are over the findings with a
   journal entry to `fixed`. A scan closes findings without one, and a finding it
   reopens keeps its own, so they are not the corrected findings
   (web_posture.py:8-10 and 79-80).
3. `autoscan_busy`: the tick enqueues before it commits `queued`; a job that
   ends first has its outcome overwritten and the target is never due again.
4. `readcache_writes`: the worker, `_ingest` and `api_set_criticality` commit
   without invalidating (against docs/load-testing.md:91).
5. `explain_twice`: two requests that overlap both find no text and both ask the
   model, against web.py:853-854; the second text replaces the one the first
   analyst reads.

## 4. Proofs

Every safety and action property of the passing runs is a theorem, 36 of them,
and seven more say what no run asks: what becomes of accepted scans, who may
change a finding and who may undo a decision, what locks are for. Some 350
lemmas carry them. They hold for every value of the constants that satisfies the
modules' named assumptions (`ConstantsAssumption`, `ReportsAssumption`,
`TargetsAssumption`, `CacheAssumption`, `TransactionsAssumption`,
`TargetAssumption`, `ExplanationAssumption`, `WorkspaceAssumption`,
`FindingsAssumption`, `FeedsAssumption`, `LimitAssumption`, `PagesAssumption`),
which say what the code guarantees of its inputs: bounds are naturals; reports
list findings of their own source; a name that stands for "nothing" is not a
member; primary keys are distinct; there is one worker beside `TargetJob`'s
requests, as deployed; a published EPSS is between 0 and 1; a page holds at
least one row (`ge=1` in `api_findings`), a cut list too, and the overview's
list of the gravest is not longer than that of the vulnerabilities (8 and 12).
TLC evaluates each of them on the instance of a run. An invariant below was
checked by TLC on the same instance before it was proved.

| Theorem | Property | Argument |
|---|---|---|
| `ScansHaveOnePlace` | `OnePlacePerScan` | inductive as it is. `QueueFresh` (queued scans are pending, distinct, on no worker and in no request) is what makes `Dequeue` keep one worker per scan |
| `TracesArePublished` | - | a row names a scan only once that scan's commit is over, late timeout or not: only the worker at `closing`, whose scan is `processing`, stamps rows, and in the same step |
| `FailedScansLeaveNoTrace` | `NoTraceUnlessPublished` if `LateTimeout = FALSE` | from it: a completed scan is never marked failed because `failing` is only entered from `processing` |
| `NoAcceptedScanIsLost` | - | `Cares`: a scan answered with 202 is in the queue, with a worker, ended, or its own job died. Inductive beside `OnePlacePerScan`: a worker lets go of a scan only when it has ended or dies. It is the safety half of `AcceptedScanEnds` |
| `SessionsKnowTheirRows` | `LedgerInv` | what a session of `process_scan` decided early is right, row by row, on every row nobody else has changed since its scan started: `CursorInv` (how far the loop is), `DecidedInv` (inserts and reopenings), `StaleInv` (rows to close) |
| `PipelineImplementsLedger` | `ImplementsLedger` | the refinement, one lemma per group of actions. `Publish` is the ledger's by `LedgerInv`: off `touched` the buffered decision is the verdict on the tables as they are at the commit, on `touched` the ledger allows either writer; every other step of a worker starts, registers or fails a scan, or stutters. A timeout after the commit is the ledger's `Disown`, which needs that a scan past its commit is contended by nobody (`Settled`) |
| `ScansStayHome` | - | `[][HomeStep]_vars`: a finding changes only by a triage or by the commit of a scan of its own asset and scanner. From `LedgerInv`: what a session decided is of its report's source |
| `DecisionsOutliveScans` | - | `[][UndoStep]_vars`: a false positive or an accepted risk is undone only by a triage of that row, or by a scan that already ran when the row was last changed. From `LedgerInv`: off `touched`, what a scan reopens or closes has no such verdict |
| `FindingsAnnouncedOnce` | `OneAlertPerFinding` | `LockInv` (flushes lock disjoint rows, what one inserted is absent to the others) and `AlertInv` (what was or is about to be announced has a row, and one scan is concerned) |
| `DecisionsAreJournaled` | `DecisionJournaled` | inductive with the types: triage writes row and entry in one commit, scans write only statuses no analyst alone gives |
| `OnlyTwoWaysToStrand` | `BusyUnlessStranded` | `Backed`: a live busy target has a job or is stranded; an absent row has no status and a started job has a target |
| `SchedulerNeverDoubles` | `OneCronJob` | for targets no other producer touched: jobs are distinct, a job's target is marked in the scheduler's session or busy, and a target about to be enqueued has no job |
| `TargetsLive` | `ImplementsLife` | the refinement, one lemma per group of actions. Of targets that are not shared: one about to be enqueued or with a job has a date to answer (`Dated`), a stranded one has no job, is in no tick and busy (`Forsaken`); with `CronInv` a job that ends was its target's only one, so the target goes back to rest, or is lost, in that step |
| `StalenessIsBounded` | `BoundedStaleness` | what a reader holds was current when it read it, at most `MaxFill` ago; a replaced entry ends within `MaxFill + TTL` of its replacement |
| `OnlyRacingFillsSurvive` | `StaleOnlyByRacingFill` | a reader that saw no commit holds the newest version; invalidations only remove |
| `JobAmongSessions` | `DbInv`, `JobInv` | `DbInv`: locks are exclusive, a statement waits only for what it plans, updates follow the primary keys, a created name is in the table and was created by one. `JobInv`: a scanner behind the job is in its `errors` or has a completed scan, one ahead has none, and the scans left over number at most the interruptions |
| `NamesCreatedOnce` | `CreatedOnce` | from `DbInv` |
| `OnlyScansDeadlock` | `DeadlockNeedsAScan` | in a cycle of sessions of which none is closing stale rows, whoever waits holds rows (a creation has one statement and holds nothing while it waits), and takes them in the order of the keys: whoever waits for the lowest row of the cycle holds a lower one, which another waits for |
| `LocksProtectRows` | - | `[][CommitsWhatItHolds]_vars`: a row or a status changes only by the commit of the one session that holds it. `AllCovered`: a status a session will commit is of a row it has locked or of one a statement it has yet to send locks; at the commit no statement is left |
| `JobIsOneFlight` | `IsOneFlight` | the refinement: every step of scanners, sessions, timer and other requests stutters, and `EndInv` gives the guards of the steps that do not (the target is busy until the job is over) |
| `SuccessIsEarned` | `SuccessMeansScanned` | from `JobInv`, at the end of the loop |
| `LeftoversAreExplained` | `LeftoversHaveACause` | from the bound in `JobInv`: each kill, and the timer once, leaves at most the scan at hand |
| `ExplorerInvariant` | `TableInv`, `ExplainInv` | `TableInv`: the last search sent carries what is on screen, a count is that of the table unless the version moved, whoever counts after a reported change covers it. `ExplainInv`: before an overlap, who asks the model is alone and found no text |
| `TableAnswersFilters`, `PagesFitCounts`, `TicksAreKept` | `TableMatchesFilters`, `RowsFitCount`, `TicksSurvive` | from `TableInv`; for the ticks, `TickInv`: a ticked row that a bulk change in flight does not name was ticked after it was sent. A page's size: the ranks of n rows are a bijection onto 0..n-1, and the page is an interval of them |
| `FindingExplainedOnce` | `OneExplanation` | from `ExplainInv` |
| `TableInvariant` | the table's types, `IsRow` | each row is of a scanner that can have found it (`IsSourced`) and has a published probability if it has a CVE; a scan keeps ids, identities and first days (`ScanRows`) |
| `IdentityIsUnique` | `OneRowPerIdentity` | `RowOf` is injective: known rows by induction hypothesis, fresh items get different ids because the number of fresh items up to one grows with it |
| `ComplianceIsHonest` | `ComplianceIsWhatWasFlagged` | the last correction in the journal is the day `fixedAs` speaks of; reopenings change neither it nor the deadline |
| `PastIsSettled` | `PastFlowOnlyMoves` | a step dates what it adds now and moves a correction only to now; the window's start does not go back, so the instants of a past day that it still covers are among those it covered (`DayIsMonotone`, `FixDatesAreInstants`) |
| `HygieneIsEarned` | `HygieneRisesByRepair` | the counts of an asset can only grow if no open finding of it leaves, and the score falls with each of them |
| `RiskFallsWithNews` | `RiskFallsOnlyByNews` | `ScoreIsMonotone`: more of any ingredient never lowers the rounded and bounded score |
| `OpenCountsAreOne`, `ThreatCountsAreOne`, `OverdueIsOne`, `DatesAreOne` | `OpenCountsAgree`, `ThreatCountsAgree`, `OverdueAgree`, `DatesAgree` | each page's number as the cardinality of a set of ids, and a partition of one set into the other's parts; a list shorter than its limit has every key (`TopKeysAre`, `TopIs`) |
| `GravestIsOne`, `RankingsAreOne` | `GravestAgree`, `RankingsAgree` | the gravest of a set is one element's severity and bounds the others'; the SQL score orders as the terms do, the Python score follows by `ScoreIsMonotone`. Of n rows in a total order, the ones a limit keeps are ahead of the others (`FirstAreAhead`), and the first of fewer rows are among the first of more (`FirstAreFirst`) |
| `PagesCutTheTable` | `PagesPartition` | the number of rows before a row is a bijection from n matching rows onto 0..n-1 (the order is total because the id breaks ties); its quotient by the page size is the page |
| `TypeCorrect`, `AutoScanTypeCorrect`, `CacheTypeCorrect`, `JobTypes`, `ExplorerTypes`, `TableTypes` | `TypeOK` of the six state machines (of `Ingestion`, a conjunct of `OnePlacePerScan`) | conjuncts of the invariants above, or inductive with them |

The theorems of `PagesProofs` are about one state: `TableInv` implies the
agreement, whatever steps built the table. They would fail for a table with,
say, a Semgrep row that has a CVE, which is why `TableInv` carries `IsSourced`
and why that had to be proved of the parsers and of `Enrich` first.

Two arguments recur because the prover's library cannot be used for them. Set
induction takes an operator, so a sum over a set (`SumOf`, a fold) is shown to be
the last value of a function on its subsets (`Sums`), whose existence and
uniqueness are proved by a smallest counterexample among the subsets
(`SmallestExists`: least cardinality). And the least of a set of numbers
(`LeastExists`: the statement a flush executes next, the scanner at hand, the
lowest counterexample) comes from the well-foundedness of `<`.

Only model-checked: `AcceptedScanEnds`, `DueTargetIsScanned` and `EveryWaitEnds`,
liveness under fairness, which the prover does not reach, on the instances of
their three runs. The five violations are TLC's too.

## 5. Not modelled

- `introuvable` in `process_scan` (no code deletes a scan); rate limiting, HTTP
  validation, HTML and CSS, the drawing of the pages, saved views, metrics,
  migrations, deployment: no state another step depends on.
- Sessions, tokens and roles: a request's token is checked once against the
  user's row and nothing is kept between requests, so there is no step another
  can come between. Creating an account is `Create` and `Refuse`.
- The layout of the PDF and the CSV (the PDF's figures are `report_figures`, the
  CSV's filters are `export`); free comments (`api_add_note`).
- The free text filter `q`, sorts by title and status, recent scans, rule
  categories, widths of bars.
- The connection pool: an explanation keeps its connection while the model
  answers (listed under hazards).
- `backup.sh`, `restore.sh`: shell over files, without a process of the
  application.
- The internals of RQ, SQLAlchemy, PostgreSQL, Redis, uvicorn and anyio, used as
  the code relies on them (marked external in the map).

## 6. Plan

The modules of the first plan are written, their safety properties proved, and
the grains tied together. Worth doing next, in this order:

1. The deletion of a target while its job is in flight: `TargetJob` keeps its
   target, and `AutoScan`, where the deletion is modelled, sees the job as one
   step. `IsOneFlight` would then have `row` as a variable.
2. `Ingestion`'s sessions read row by row from `Transactions`, for several scans at
   a time: `LocksProtectRows` gives what a flush holds, the statements before
   it are still one step per item.
3. `backup.sh` as a process beside the database: a dump that fails half way counts
   among the newest backups that retention keeps.
