------------------------------- MODULE Ingestion -------------------------------
(***************************************************************************)
(* A scan report from its upload to its findings: POST /scans/ingest       *)
(* (app/main.py), the RQ queue (app/queue.py), the worker's process_scan   *)
(* (app/jobs.py), and the analysts who triage the same findings meanwhile  *)
(* (app/web.py).                                                           *)
(*                                                                         *)
(* The grain is the database transaction of PostgreSQL in READ COMMITTED   *)
(* with a session that does not autoflush: a statement reads what is       *)
(* committed at that moment, an update stays in the session until a flush  *)
(* sends it, a flush locks the rows it writes until the commit.            *)
(***************************************************************************)
EXTENDS Naturals, Sequences, FiniteSets

CONSTANTS
  MaxScan,       \* bound: scan ids are 1..MaxScan
  Workers,       \* RQ worker processes of the queue "ingest"
  Analysts,      \* web sessions allowed to triage
  Fingerprints,  \* what Finding.make_fingerprint can return for the reports
  SourceOf,      \* the (asset, scanner) pair a fingerprint belongs to
  Alertable,     \* fingerprints whose severity reaches notify_min_severity
  Reports,       \* records [src, items], items in the order of the parser
  NoReport,      \* the report of a scan that does not exist yet
  NoRequest,     \* an analyst with no request in flight
  MaxTriage,     \* bound: triage requests served
  MaxKill,       \* bound: jobs whose process dies
  LateTimeout    \* whether RQ's job timeout may strike after the commit

Scans == 1..MaxScan

FindingStatus == {"open", "in_progress", "fixed", "false_positive", "accepted"}

ScanStatus == {"absent", "pending", "processing", "completed", "failed"}

ASSUME ConstantsAssumption ==
  /\ MaxScan \in Nat /\ MaxTriage \in Nat /\ MaxKill \in Nat
  /\ LateTimeout \in BOOLEAN
  /\ Alertable \subseteq Fingerprints
  /\ NoReport \notin Reports

(* A report lists findings of its own source: the fingerprint hashes the     *)
(* asset name with the scanner (or with the CVE and component of a package). *)
ASSUME ReportsAssumption ==
  \A r \in Reports : /\ r.items \in Seq(Fingerprints)
                     /\ \A i \in DOMAIN r.items : SourceOf[r.items[i]] = r.src

VARIABLES
  scanStatus,    \* scans.status, "absent" before the INSERT
  report,        \* the raw report saved for the scan
  findingStatus, \* findings.status, "absent" when there is no row
  lastScan,      \* findings.scan_id, 0 when there is no row
  lastNote,      \* new_status of the newest status_change note of a finding
  uploading,     \* scans committed by a request that has not enqueued them yet
  accepted,      \* scans whose request enqueued them and answered 202
  queue,         \* the RQ list "ingest"
  pc,            \* where each worker is in process_scan
  job,           \* the scan each worker processes, 0 for none
  tx,            \* what each worker's session has read and not yet committed
  request,       \* an analyst's request between its SELECT and its commit
  alerted,       \* the new findings announced by the notification of a scan
  triages,       \* triage requests served (bounded by MaxTriage)
  killed,        \* history: scans whose job lost its process
  touched        \* history: rows others changed while a scan was processing

dbVars   == <<scanStatus, report, findingStatus, lastScan, lastNote>>
webVars  == <<uploading, accepted, request, triages>>
workVars == <<pc, job, tx, alerted, killed>>
vars == <<dbVars, webVars, queue, workVars, touched>>

--------------------------------------------------------------------------------
(* What a session knows of the report and of the tables.                     *)

(* Finding statuses a scan may close: the filter of the stale query.         *)
Unresolved == {"open", "in_progress"}

EmptyTx == [pos |-> 1, fresh |-> {}, reopen |-> {}, stale |-> {}]

TxType == [pos : Nat \ {0}, fresh : SUBSET Fingerprints,
           reopen : SUBSET Fingerprints, stale : SUBSET Fingerprints]

Items(w) == report[job[w]].items

(* seen_fingerprints: the items before the cursor.                           *)
Seen(w) == {Items(w)[i] : i \in 1..(tx[w].pos - 1)}

ParsedAll(w) == tx[w].pos > Len(Items(w))

(* Rows a flush has written and whose locks the commit has yet to release.   *)
Held(w) == IF pc[w] \in {"enriching", "closing"} THEN Seen(w) ELSE {}

FreeFor(w, rows) == \A v \in Workers \ {w} : Held(v) \cap rows = {}

Changed == {f \in Fingerprints : \/ findingStatus'[f] # findingStatus[f]
                                 \/ lastScan'[f] # lastScan[f]}

(* The rows this step changes are noted by every scan being processed, the   *)
(* step's own scan (0: none) excepted.                                       *)
TouchOthers(own) ==
  touched' = [s \in Scans |->
                CASE s = own -> {}
                  [] s # own /\ scanStatus[s] = "processing" -> touched[s] \cup Changed
                  [] s # own /\ scanStatus[s] # "processing" -> touched[s]]

NextId == {s \in Scans : /\ scanStatus[s] = "absent"
                         /\ \A t \in Scans : t < s => scanStatus[t] # "absent"}

--------------------------------------------------------------------------------
Init ==
  /\ scanStatus = [s \in Scans |-> "absent"]
  /\ report = [s \in Scans |-> NoReport]
  /\ findingStatus = [f \in Fingerprints |-> "absent"]
  /\ lastScan = [f \in Fingerprints |-> 0]
  /\ lastNote = [f \in Fingerprints |-> "none"]
  /\ uploading = {}
  /\ accepted = {}
  /\ queue = <<>>
  /\ pc = [w \in Workers |-> "idle"]
  /\ job = [w \in Workers |-> 0]
  /\ tx = [w \in Workers |-> EmptyTx]
  /\ request = [a \in Analysts |-> NoRequest]
  /\ alerted = [s \in Scans |-> {}]
  /\ triages = 0
  /\ killed = {}
  /\ touched = [s \in Scans |-> {}]

--------------------------------------------------------------------------------
(* POST /scans/ingest: the row is committed, then the job is enqueued.       *)

Upload(s, r) ==
  /\ s \in NextId
  /\ scanStatus' = [scanStatus EXCEPT ![s] = "pending"]
  /\ report' = [report EXCEPT ![s] = r]
  /\ uploading' = uploading \cup {s}
  /\ UNCHANGED <<findingStatus, lastScan, lastNote, accepted, request, triages,
                 queue, workVars, touched>>

(* A retried enqueue that keeps the request open.                            *)
MutEnqueue(s) ==
  /\ s \in uploading
  /\ Len(queue) < MaxScan
  /\ queue' = Append(queue, s)
  /\ accepted' = accepted \cup {s}
  /\ UNCHANGED <<dbVars, uploading, request, triages, workVars, touched>>

Enqueue(s) ==
  /\ s \in uploading
  /\ queue' = Append(queue, s)
  /\ uploading' = uploading \ {s}
  /\ accepted' = accepted \cup {s}
  /\ UNCHANGED <<dbVars, request, triages, workVars, touched>>

(* The API process dies, or Redis refuses the job: the client gets no 202    *)
(* and nothing ever processes the committed row.                             *)
Abandon(s) ==
  /\ s \in uploading
  /\ uploading' = uploading \ {s}
  /\ UNCHANGED <<dbVars, accepted, request, triages, queue, workVars, touched>>

--------------------------------------------------------------------------------
(* The worker.                                                               *)

Dequeue(w) ==
  /\ pc[w] = "idle" /\ queue # <<>>
  /\ job' = [job EXCEPT ![w] = Head(queue)]
  /\ queue' = Tail(queue)
  /\ pc' = [pc EXCEPT ![w] = "starting"]
  /\ UNCHANGED <<dbVars, webVars, tx, alerted, killed, touched>>

(* scan_target runs a scanner itself, commits the scan and calls             *)
(* process_scan in the same job: no queue in between.                        *)
IngestOwnScan(w, s, r) ==
  /\ pc[w] = "idle" /\ s \in NextId
  /\ scanStatus' = [scanStatus EXCEPT ![s] = "pending"]
  /\ report' = [report EXCEPT ![s] = r]
  /\ job' = [job EXCEPT ![w] = s]
  /\ pc' = [pc EXCEPT ![w] = "starting"]
  /\ UNCHANGED <<findingStatus, lastScan, lastNote, webVars, queue, tx, alerted,
                 killed, touched>>

(* scan.status = "processing", committed on its own.                         *)
StartProcessing(w) ==
  /\ pc[w] = "starting"
  /\ scanStatus' = [scanStatus EXCEPT ![job[w]] = "processing"]
  /\ pc' = [pc EXCEPT ![w] = "matching"]
  /\ UNCHANGED <<report, findingStatus, lastScan, lastNote, webVars, queue, job,
                 tx, alerted, killed, touched>>

(* One turn of the loop over the parser: skip what this scan has seen, read  *)
(* the existing row, decide what the session will write.                     *)
Matched(w, f) ==
  CASE f \in Seen(w) -> tx[w]
    [] f \notin Seen(w) /\ findingStatus[f] = "absent" ->
         [tx[w] EXCEPT !.fresh = @ \cup {f}]
    [] f \notin Seen(w) /\ findingStatus[f] = "fixed" ->
         [tx[w] EXCEPT !.reopen = @ \cup {f}]
    [] OTHER -> tx[w]

MatchItem(w) ==
  /\ pc[w] = "matching" /\ ~ParsedAll(w)
  /\ tx' = [tx EXCEPT ![w] = [Matched(w, Items(w)[tx[w].pos]) EXCEPT !.pos = @ + 1]]
  /\ UNCHANGED <<dbVars, webVars, queue, pc, job, alerted, killed, touched>>

(* db.flush(): the INSERTs and UPDATEs reach the database and lock their     *)
(* rows.  The whole flush waits until no other transaction holds one of them.*)
MutCollides(w) == FALSE
Collides(w) == \E f \in tx[w].fresh : findingStatus[f] # "absent"

(* A commit in place of the flush.                                           *)
MutFlush(w) ==
  /\ pc[w] = "matching" /\ ParsedAll(w)
  /\ FreeFor(w, Seen(w))
  /\ ~Collides(w)
  /\ pc' = [pc EXCEPT ![w] = "enriching"]
  /\ lastScan' = [f \in Fingerprints |-> IF f \in Seen(w) THEN job[w] ELSE lastScan[f]]
  /\ UNCHANGED <<scanStatus, report, findingStatus, lastNote, webVars, queue, job,
                 tx, alerted, killed, touched>>

Flush(w) ==
  /\ pc[w] = "matching" /\ ParsedAll(w)
  /\ FreeFor(w, Seen(w))
  /\ ~Collides(w)
  /\ pc' = [pc EXCEPT ![w] = "enriching"]
  /\ UNCHANGED <<dbVars, webVars, queue, job, tx, alerted, killed, touched>>

(* After the calls to EPSS and KEV, the stale query: unresolved findings of  *)
(* the same asset and scanner the report no longer lists.  An empty report   *)
(* closes nothing.                                                           *)
MutStale(w) ==
  {f \in Fingerprints : findingStatus[f] \in Unresolved /\ f \notin Seen(w)}
Stale(w) ==
  {f \in Fingerprints : /\ Seen(w) # {}
                        /\ SourceOf[f] = report[job[w]].src
                        /\ findingStatus[f] \in Unresolved
                        /\ f \notin Seen(w)}

CloseStale(w) ==
  /\ pc[w] = "enriching"
  /\ tx' = [tx EXCEPT ![w].stale = Stale(w)]
  /\ pc' = [pc EXCEPT ![w] = "closing"]
  /\ UNCHANGED <<dbVars, webVars, queue, job, alerted, killed, touched>>

(* The commit: findings and scan become visible together.                    *)
Written(w, f) == CASE f \in tx[w].fresh \cup tx[w].reopen -> "open"
                   [] f \in tx[w].stale -> "fixed"
                   [] OTHER -> findingStatus[f]

Publish(w) ==
  /\ pc[w] = "closing"
  /\ FreeFor(w, tx[w].stale)
  /\ findingStatus' = [f \in Fingerprints |-> Written(w, f)]
  /\ lastScan' = [f \in Fingerprints |-> IF f \in Seen(w) THEN job[w] ELSE lastScan[f]]
  /\ scanStatus' = [scanStatus EXCEPT ![job[w]] = "completed"]
  /\ pc' = [pc EXCEPT ![w] = "notifying"]
  /\ TouchOthers(job[w])
  /\ UNCHANGED <<report, lastNote, webVars, queue, job, tx, alerted, killed>>

(* The job is over, the session closed.                                      *)
Release(w) ==
  /\ pc' = [pc EXCEPT ![w] = "idle"]
  /\ job' = [job EXCEPT ![w] = 0]
  /\ tx' = [tx EXCEPT ![w] = EmptyTx]

(* _maybe_notify: at most one message, only about new findings at or above   *)
(* the threshold; a failed delivery is logged and forgotten.                 *)
Announced(w) == tx[w].fresh \cap Alertable

MayAnnounce(w) == \/ alerted' = [alerted EXCEPT ![job[w]] = Announced(w)]
                  \/ UNCHANGED alerted

Notify(w) ==
  /\ pc[w] = "notifying"
  /\ MayAnnounce(w)
  /\ Release(w)
  /\ UNCHANGED <<dbVars, webVars, queue, killed, touched>>

--------------------------------------------------------------------------------
(* Failures of a job.                                                        *)

(* Any exception of the try block before the commit, the unique violation of *)
(* a flush, a database deadlock and RQ's job timeout included: the session   *)
(* rolls back.                                                               *)
Rollback(w) ==
  /\ pc[w] \in {"matching", "enriching", "closing"}
  /\ pc' = [pc EXCEPT ![w] = "failing"]
  /\ tx' = [tx EXCEPT ![w] = EmptyTx]
  /\ UNCHANGED <<dbVars, webVars, queue, job, alerted, killed, touched>>

(* The handler also covers the statements after the commit: a job timeout    *)
(* that strikes there, before or after the notification, fails a scan whose  *)
(* findings are published.                                                   *)
FailLate(w) ==
  /\ pc[w] = "notifying" /\ LateTimeout
  /\ MayAnnounce(w)
  /\ pc' = [pc EXCEPT ![w] = "failing"]
  /\ tx' = [tx EXCEPT ![w] = EmptyTx]
  /\ UNCHANGED <<dbVars, webVars, queue, job, killed, touched>>

MutMarkFailed(w) ==
  /\ pc[w] = "failing"
  /\ Release(w)
  /\ UNCHANGED <<dbVars, webVars, queue, alerted, killed, touched>>

MarkFailed(w) ==
  /\ pc[w] = "failing"
  /\ scanStatus' = [scanStatus EXCEPT ![job[w]] = "failed"]
  /\ touched' = [touched EXCEPT ![job[w]] = {}]
  /\ Release(w)
  /\ UNCHANGED <<report, findingStatus, lastScan, lastNote, webVars, queue,
                 alerted, killed>>

(* The process dies in the middle of a job, or an exception leaves the job   *)
(* outside the handler's try: the connection closes, the database rolls      *)
(* back, RQ moves the job to the failed registry and no retry is configured. *)
Kill(w) ==
  /\ pc[w] # "idle"
  /\ Cardinality(killed) < MaxKill
  /\ killed' = killed \cup {job[w]}
  /\ Release(w)
  /\ UNCHANGED <<dbVars, webVars, queue, alerted, touched>>

--------------------------------------------------------------------------------
(* Triage: PATCH /ui/api/findings/{id} (one row) and POST .../bulk (several). *)

ReadFindings(a, rows, to) ==
  /\ request[a] = NoRequest /\ triages < MaxTriage
  /\ rows # {} /\ \A f \in rows : findingStatus[f] # "absent"
  /\ request' = [request EXCEPT
       ![a] = [rows |-> rows, to |-> to, old |-> [f \in rows |-> findingStatus[f]]]]
  /\ triages' = triages + 1
  /\ UNCHANGED <<dbVars, uploading, accepted, queue, workVars, touched>>

(* _apply_status_change writes and journals only the rows that were read     *)
(* with another status.                                                      *)
Transitions(q) == {f \in q.rows : q.old[f] # q.to}

(* A bulk change that journals nothing for the rows a scan had reopened.     *)
MutJournaled(q) == {f \in Transitions(q) : q.old[f] # "open"}
Journaled(q) == Transitions(q)

CommitTriage(a) ==
  /\ request[a] # NoRequest
  /\ LET q == request[a] IN
       /\ \A w \in Workers : Held(w) \cap Transitions(q) = {}
       /\ findingStatus' = [f \in Fingerprints |->
            IF f \in Transitions(q) THEN q.to ELSE findingStatus[f]]
       /\ lastNote' = [f \in Fingerprints |->
            IF f \in Journaled(q) THEN q.to ELSE lastNote[f]]
  /\ request' = [request EXCEPT ![a] = NoRequest]
  /\ UNCHANGED <<scanStatus, report, lastScan, uploading, accepted, triages, queue,
                 workVars>>
  /\ TouchOthers(0)

--------------------------------------------------------------------------------
(* What a worker does unless its process dies.                               *)
Work(w) ==
  \/ Dequeue(w)
  \/ \E s \in Scans, r \in Reports : IngestOwnScan(w, s, r)
  \/ StartProcessing(w) \/ MatchItem(w) \/ Flush(w) \/ CloseStale(w)
  \/ Publish(w) \/ Notify(w) \/ Rollback(w) \/ FailLate(w) \/ MarkFailed(w)

Upstream ==
  \/ \E s \in Scans, r \in Reports : Upload(s, r)
  \/ \E s \in Scans : Enqueue(s) \/ Abandon(s)

Triage(a) ==
  \/ \E rows \in SUBSET Fingerprints, to \in FindingStatus : ReadFindings(a, rows, to)
  \/ CommitTriage(a)

Next ==
  \/ Upstream
  \/ \E w \in Workers : Work(w) \/ Kill(w)
  \/ \E a \in Analysts : Triage(a)

Spec == Init /\ [][Next]_vars

(* The worker process is restarted for ever (restart: unless-stopped), a     *)
(* statement that waits for a lock ends by the job timeout, and a handler    *)
(* that has committed goes on to enqueue unless its process dies.            *)
FairSpec ==
  /\ Spec
  /\ \A w \in Workers : WF_vars(Work(w))
  /\ \A s \in Scans : WF_vars(Enqueue(s))

--------------------------------------------------------------------------------
RequestType ==
  {q \in [rows : SUBSET Fingerprints, to : FindingStatus,
          old : UNION {[rows -> FindingStatus] : rows \in SUBSET Fingerprints}] :
     DOMAIN q.old = q.rows}

(* Every table and every process holds a value the code can put there.       *)
TypeOK ==
  /\ scanStatus \in [Scans -> ScanStatus]
  /\ report \in [Scans -> Reports \cup {NoReport}]
  /\ findingStatus \in [Fingerprints -> FindingStatus \cup {"absent"}]
  /\ lastScan \in [Fingerprints -> Scans \cup {0}]
  /\ lastNote \in [Fingerprints -> FindingStatus \cup {"none"}]
  /\ uploading \subseteq Scans
  /\ accepted \subseteq Scans
  /\ queue \in Seq(Scans)
  /\ pc \in [Workers -> {"idle", "starting", "matching", "enriching", "closing",
                         "notifying", "failing"}]
  /\ job \in [Workers -> Scans \cup {0}]
  /\ tx \in [Workers -> TxType]
  /\ alerted \in [Scans -> SUBSET Alertable]
  /\ request \in [Analysts -> RequestType \cup {NoRequest}]
  /\ triages \in 0..MaxTriage
  /\ killed \subseteq Scans
  /\ touched \in [Scans -> SUBSET Fingerprints]

(* Which statuses a scan has at each point of the job that processes it.     *)
Phase(step) ==
  CASE step = "starting" -> {"pending"}
    [] step \in {"matching", "enriching", "closing"} -> {"processing"}
    [] step = "notifying" -> {"completed"}
    [] step = "failing" -> IF LateTimeout THEN {"processing", "completed"}
                                          ELSE {"processing"}
    [] OTHER -> ScanStatus

Reported == \A s \in Scans : scanStatus[s] # "absent" => report[s] \in Reports

JobPhase == \A w \in Workers :
  IF pc[w] = "idle" THEN job[w] = 0
                    ELSE job[w] \in Scans /\ scanStatus[job[w]] \in Phase(pc[w])

OneWorkerPerScan == \A v, w \in Workers : v # w /\ job[v] = job[w] => job[w] = 0

Unstarted(s) == scanStatus[s] = "pending" /\ \A w \in Workers : job[w] # s

QueueFresh ==
  /\ \A i, j \in DOMAIN queue : queue[i] = queue[j] => i = j
  /\ \A i \in DOMAIN queue : Unstarted(queue[i]) /\ queue[i] \notin uploading

UploadFresh == \A s \in uploading : Unstarted(s)

(* Each scan is in at most one place: a request that has not enqueued it, the *)
(* queue, one worker, or none; and its row agrees with that place.  This is  *)
(* the inductive invariant of IngestionProofs.                               *)
OnePlacePerScan ==
  TypeOK /\ Reported /\ JobPhase /\ OneWorkerPerScan /\ QueueFresh /\ UploadFresh

(* A scan that failed, died or still runs leaves no trace in the findings:   *)
(* whatever row names a scan, that scan is completed.  It is the one commit  *)
(* at the end of process_scan, and the rollback of its handler, that give it.*)
NoTraceUnlessPublished ==
  \A f \in Fingerprints :
    lastScan[f] # 0 => scanStatus[lastScan[f]] = "completed"

(* A finding is announced as new at most once, even when two workers insert  *)
(* it at the same time: the loser of the unique index sends nothing.         *)
OneAlertPerFinding ==
  \A s, t \in Scans : s # t => alerted[s] \cap alerted[t] = {}

(* A status only an analyst can give is the one the newest entry of the      *)
(* finding's journal names: no decision without its entry, no entry of a     *)
(* later decision on a row that kept an earlier one.                         *)
DecisionJournaled ==
  \A f \in Fingerprints :
    findingStatus[f] \in {"in_progress", "false_positive", "accepted"}
      => lastNote[f] = findingStatus[f]

(* A scan answered with 202 ends completed or failed, unless its own job     *)
(* lost its process: no lock, failure or death of another job blocks it.     *)
AcceptedScanEnds ==
  \A s \in Scans :
    s \in accepted ~> (scanStatus[s] \in {"completed", "failed"} \/ s \in killed)
================================================================================
