--------------------------------- MODULE TargetJob ---------------------------------
(***************************************************************************)
(* scan_target (app/scanning.py) among the other sessions: the loop over   *)
(* the scanners of a target, each of which is run, ingested and processed  *)
(* by process_scan (app/jobs.py) in the same job, under the one timer of   *)
(* RQ.                                                                     *)
(*                                                                         *)
(* The timer is an exception raised once, in the job's own thread, at any  *)
(* statement but not inside a call to PostgreSQL.  The handlers it meets   *)
(* are those of process_scan and of the loop: most of them swallow it.  RQ *)
(* kills a job that survives it for a minute.                              *)
(***************************************************************************)
EXTENDS Transactions

CONSTANTS
  Job,          \* the worker's session that runs the job
  Target,       \* [name, type, scanners]
  ReportOf,     \* what each scanner finds, in the order of its report
  WithCve,      \* scanners whose findings have CVEs, to enrich
  DastEnabled,  \* setting dast_enabled
  MaxKill       \* bound: deaths of the job's process

SCANNERS_BY_TYPE ==
  [image |-> {"trivy"}, repository |-> {"trivy", "semgrep", "gitleaks"}, url |-> {"nuclei"}]

Scanners == DOMAIN ReportOf

(* A scanner is known by its place in the list, where it may be twice.       *)
Listing == DOMAIN Target.scanners

Applicable == {i \in Listing : Target.scanners[i] \in SCANNERS_BY_TYPE[Target.type]}

ASSUME TargetAssumption ==
  /\ Workers = {Job} /\ MaxKill \in Nat /\ DastEnabled \in BOOLEAN
  /\ Target.name \in Names /\ Target.scanners \in Seq(Scanners)
  /\ \A sc \in Scanners : ReportOf[sc] \in Seq(Fingerprints)

VARIABLES
  at,          \* where the job is
  left,        \* scanners it has yet to run, the first of the list being run
  errors,      \* scanners in its list of errors
  scans,       \* status of the Scan row of each scanner of the list
  lastStatus,  \* scan_targets.last_status
  armed,       \* the timer has not fired
  kills        \* deaths (at most MaxKill)

jobVars == <<at, left, errors, scans, lastStatus, armed, kills>>

vars == <<dbVars, jobVars>>

(* A request for a scan leaves last_status as it is; when the tick and the   *)
(* webhook write "queued" is module AutoScan's.                              *)
JobInit ==
  /\ Init
  /\ at = "queued" /\ left = {} /\ errors = {}
  /\ lastStatus \in {"none", "queued", "running", "success", "error"}
  /\ scans = [i \in Listing |-> "none"]
  /\ armed = TRUE /\ kills = 0

Current == CHOOSE i \in left : \A j \in left : i <= j

CurrentScanner == Target.scanners[Current]

Mark(st) == scans' = [scans EXCEPT ![Current] = st]

--------------------------------------------------------------------------------
(* last_status = "running" is committed before anything else; a URL is not   *)
(* scanned unless the operator allowed it.                                   *)
Start ==
  /\ at = "queued"
  /\ at' = "started" /\ lastStatus' = "running"
  /\ UNCHANGED <<dbVars, left, errors, scans, armed, kills>>

Prepare ==
  /\ at = "started"
  /\ left' = Applicable
  /\ at' = CASE Target.type = "url" /\ ~DastEnabled -> "giving up"
             [] Target.type = "repository"          -> "cloning"
             [] OTHER                               -> "choosing"
  /\ UNCHANGED <<dbVars, errors, scans, lastStatus, armed, kills>>

Clone ==
  /\ at = "cloning" /\ at' \in {"choosing", "giving up"}
  /\ UNCHANGED <<dbVars, left, errors, scans, lastStatus, armed, kills>>

(* An early return that does not write how the job ended.                    *)
MutGiveUp ==
  /\ at = "giving up"
  /\ at' = "over"
  /\ UNCHANGED <<dbVars, left, errors, scans, lastStatus, armed, kills>>

GiveUp ==
  /\ at = "giving up"
  /\ at' = "over" /\ lastStatus' = "error"
  /\ UNCHANGED <<dbVars, left, errors, scans, armed, kills>>

Choose ==
  /\ at = "choosing" /\ left # {}
  /\ at' = "running"
  /\ UNCHANGED <<dbVars, left, errors, scans, lastStatus, armed, kills>>

(* The scanner stays in the list.                                            *)
MutNextScanner == at' = "choosing" /\ UNCHANGED left

NextScanner == at' = "choosing" /\ left' = left \ {Current}

(* The error is dropped.                                                     *)
MutCatch == NextScanner /\ UNCHANGED errors

(* The except of the loop: the error is kept, the next scanner runs.         *)
Catch == NextScanner /\ errors' = errors \cup {Current}

ScannerFails ==
  /\ at = "running"
  /\ Catch
  /\ UNCHANGED <<dbVars, scans, lastStatus, armed, kills>>

(* The scanner's report goes through _ingest, in a session of its own.       *)
Ingest ==
  /\ at = "running"
  /\ at' = "ingesting"
  /\ Upload(Job, [kind |-> "upload", name |-> Target.name])
  /\ UNCHANGED <<left, errors, scans, lastStatus, armed, kills>>

Ingested ==
  /\ at = "ingesting"
  /\ Commit(Job) /\ Mark("pending")
  /\ at' = "ingested"
  /\ UNCHANGED <<left, errors, lastStatus, armed, kills>>

IngestFails ==
  /\ at = "ingesting"
  /\ UniqueViolation(Job) \/ SaveFails(Job)
  /\ Catch
  /\ UNCHANGED <<scans, lastStatus, armed, kills>>

--------------------------------------------------------------------------------
(* process_scan.                                                             *)

StartProcessing ==
  /\ at = "ingested"
  /\ at' = "matching" /\ Mark("processing")
  /\ UNCHANGED <<dbVars, left, errors, lastStatus, armed, kills>>

Match ==
  /\ at = "matching"
  /\ at' = "processing"
  /\ Scan(Job, [kind |-> "scan", scanner |-> CurrentScanner, items |-> ReportOf[CurrentScanner]])
  /\ UNCHANGED <<left, errors, scans, lastStatus, armed, kills>>

(* A report that cannot be read, or is not what the parser expects.          *)
MatchFails ==
  /\ at = "matching"
  /\ at' = "handling"
  /\ UNCHANGED <<dbVars, left, errors, scans, lastStatus, armed, kills>>

Execute ==
  /\ at \in {"ingesting", "processing"}
  /\ Write(Job) \/ SaveReport(Job) \/ CloseStale(Job)
  /\ UNCHANGED jobVars

Publish ==
  /\ at = "processing"
  /\ Commit(Job) /\ Mark("completed")
  /\ at' = "notifying"
  /\ UNCHANGED <<left, errors, lastStatus, armed, kills>>

Notify ==
  /\ at = "notifying"
  /\ NextScanner
  /\ UNCHANGED <<dbVars, errors, scans, lastStatus, armed, kills>>

ScanFails ==
  /\ at = "processing"
  /\ UniqueViolation(Job) \/ Victim(Job)
  /\ at' = "handling"
  /\ UNCHANGED <<left, errors, scans, lastStatus, armed, kills>>

(* A handler that leaves the scan as it is.                                  *)
MutHandle ==
  /\ at = "handling"
  /\ Catch
  /\ UNCHANGED <<dbVars, scans, lastStatus, armed, kills>>

(* The handler marks the scan failed and raises again.                       *)
Handle ==
  /\ at = "handling"
  /\ Mark("failed") /\ Catch
  /\ UNCHANGED <<dbVars, lastStatus, armed, kills>>

Finish ==
  /\ at = "choosing" /\ left = {}
  /\ at' = "over"
  /\ lastStatus' = IF errors = {} THEN "success" ELSE "error"
  /\ UNCHANGED <<dbVars, left, errors, scans, armed, kills>>

--------------------------------------------------------------------------------
(* The timer.                                                                *)

Dead == at' = "dead" /\ left' = {} /\ UNCHANGED errors

(* Outside any handler, the job fails.                                       *)
TimerFailsJob ==
  /\ at \in {"started", "choosing", "giving up"}
  /\ Dead
  /\ UNCHANGED <<dbVars, scans>>

TimerFailsClone ==
  /\ at = "cloning"
  /\ at' = "giving up"
  /\ UNCHANGED <<dbVars, left, errors, scans>>

(* Before process_scan has committed "processing", or in its handler, only   *)
(* the loop catches it.                                                      *)
TimerFailsScanner ==
  /\ \/ at \in {"running", "ingested", "handling"} /\ UNCHANGED dbVars
     \/ at = "ingesting" /\ End(Job, "stopped") /\ UNCHANGED <<rows, status, op, fails>>
  /\ Catch
  /\ UNCHANGED scans

(* Within process_scan's try, before its commit or after it.                 *)
TimerFailsScan ==
  /\ \/ at \in {"matching", "notifying"} /\ UNCHANGED dbVars
     \/ at = "processing" /\ End(Job, "stopped") /\ UNCHANGED <<rows, status, op, fails>>
  /\ at' = "handling"
  /\ UNCHANGED <<left, errors, scans>>

(* The handlers of the EPSS and KEV calls and of the notification take it    *)
(* for an outage of the service they call.                                   *)
TimerSwallowed ==
  /\ \/ at = "processing" /\ Flushed(Job) /\ CurrentScanner \in WithCve
     \/ at = "notifying"
  /\ UNCHANGED <<dbVars, at, left, errors, scans>>

TimerFires ==
  /\ armed /\ ~Blocked(Job)
  /\ armed' = FALSE
  /\ \/ TimerFailsJob \/ TimerFailsClone \/ TimerFailsScanner \/ TimerFailsScan
     \/ TimerSwallowed
  /\ UNCHANGED <<lastStatus, kills>>

(* The death of the process: its session is rolled back, nothing is written. *)
Kill ==
  /\ at \notin {"queued", "over", "dead"} /\ kills < MaxKill
  /\ kills' = kills + 1
  /\ Dead
  /\ End(Job, "stopped")
  /\ UNCHANGED <<rows, status, op, fails, scans, lastStatus, armed>>

--------------------------------------------------------------------------------
Step ==
  \/ Start \/ Prepare \/ Clone \/ GiveUp \/ Choose \/ ScannerFails
  \/ Ingest \/ Ingested \/ IngestFails
  \/ StartProcessing \/ Match \/ MatchFails \/ Execute \/ Publish \/ Notify
  \/ ScanFails \/ Handle \/ Finish

Others(r) == (Begin(r) \/ Go(r)) /\ UNCHANGED jobVars

Next ==
  \/ \E r \in Requests : Others(r)
  \/ Step \/ TimerFires \/ Kill

Spec == JobInit /\ [][Next]_vars

(* A session that has begun goes on, a cycle is broken, and the job runs on: *)
(* threads, workers and PostgreSQL are scheduled.  Nobody has to begin, to   *)
(* fail to save, to fire or to die.                                          *)
FairSpec ==
  /\ Spec
  /\ \A r \in Requests : WF_vars(Go(r) /\ UNCHANGED jobVars)
  /\ WF_vars(Step)

--------------------------------------------------------------------------------
(* Every column, session and step of the job holds a value the code can put  *)
(* there.                                                                    *)
TypeOK ==
  /\ DbTypeOK
  /\ at \in {"queued", "started", "cloning", "giving up", "choosing", "running", "ingesting",
             "ingested", "matching", "processing", "handling", "notifying", "over", "dead"}
  /\ left \subseteq Applicable
  /\ errors \subseteq Applicable
  /\ scans \in [Listing -> {"none", "pending", "processing", "completed", "failed"}]
  /\ lastStatus \in {"none", "queued", "running", "success", "error"}
  /\ armed \in BOOLEAN /\ kills \in 0..MaxKill

(* A job that ends in success has completed a scan of every scanner the      *)
(* target may be given, and one that ends in error has not: whatever handler *)
(* caught the failures, the timer and the races with other creators of the   *)
(* asset.                                                                    *)
SuccessMeansScanned ==
  LET complete == \A i \in Applicable : scans[i] = "completed"
  IN  at = "over" =>
        /\ lastStatus = "success" => complete
        /\ lastStatus = "error" /\ Applicable # {} => ~complete

(* A scan left "pending" or "processing" by a job that is over takes an      *)
(* interruption of its own, the timer or a death, and a job that was not     *)
(* interrupted out of any handler does not leave its target "running".       *)
LeftoversHaveACause ==
  /\ at \in {"over", "dead"} =>
       Cardinality({i \in Listing : scans[i] \in {"pending", "processing"}})
         <= kills + (IF armed THEN 0 ELSE 1)
  /\ at = "over" => lastStatus \in {"success", "error"}

(* Whatever lock a session waits for, it gets it or fails, and the job ends  *)
(* whatever its scanners, its rivals and their locks do to it: no wait is    *)
(* for ever, but those behind a coroutine that blocks the very event loop    *)
(* the holder of its lock needs to close its session.                        *)
EveryWaitEnds ==
  /\ \A s \in Sessions : Blocked(s) ~> ~Blocked(s) \/ Hung
  /\ at # "queued" ~> at \in {"over", "dead"} \/ Hung
================================================================================
