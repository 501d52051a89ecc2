-------------------------------- MODULE AutoScan --------------------------------
(***************************************************************************)
(* VulnTrack scanning its own targets: the scheduler's tick                *)
(* (app/scheduler.py), the GitHub webhook, the scan on demand and the      *)
(* creation and deletion of targets (app/web.py), the RQ queue, and the    *)
(* worker's scan_target (app/scanning.py).  They meet in two places that   *)
(* no transaction joins: the column scan_targets.last_status and the list  *)
(* of jobs in Redis.                                                       *)
(*                                                                         *)
(* The scheduler and the webhook are the same loop over two selections:    *)
(* read targets, for each one enqueue a job and set last_status in the     *)
(* session, and commit once after the loop.                                *)
(***************************************************************************)
EXTENDS Naturals, Sequences, FiniteSets

CONSTANTS
  Targets,      \* ids of table scan_targets
  Scheduled,    \* targets created with a cron schedule
  Watched,      \* repository targets the pushed repository matches
  Hooks,        \* webhook requests, each in its own API process
  Scheduler,    \* the scheduler process (one replica)
  Workers,      \* RQ workers
  MaxRequest,   \* bound: webhook deliveries and scans on demand
  MaxAbort,     \* bound: ticks or webhooks that end by an exception
  MaxKill       \* bound: jobs whose process dies

ASSUME TargetsAssumption ==
  /\ Scheduled \subseteq Targets /\ Watched \subseteq Targets
  /\ Scheduler \notin Hooks /\ "none" \notin Targets
  /\ MaxRequest \in Nat /\ MaxAbort \in Nat /\ MaxKill \in Nat

Producers == Hooks \cup {Scheduler}

VARIABLES
  row,          \* whether each target's row exists
  lastStatus,   \* scan_targets.last_status, "none" for NULL
  due,          \* whether the cron date after last_scan_at is past
  queue,        \* the RQ list, target ids
  running,      \* the target of each worker's job, or "none"
  started,      \* whether that job has committed "running"
  todo,         \* targets a producer has read and not yet enqueued
  marks,        \* targets a producer has enqueued and not yet committed
  noWrite,      \* targets a producer's session loaded as "queued" already
  requests,     \* webhooks and scans on demand served (at most MaxRequest)
  aborts,       \* exceptions in a producer (at most MaxAbort)
  kills,        \* jobs that died (at most MaxKill)
  stranded,     \* history: status says busy although no job is left
  extra         \* history: a job came from outside a tick that committed

vars == <<row, lastStatus, due, queue, running, started, todo, marks, noWrite,
          requests, aborts, kills, stranded, extra>>

Busy == {"queued", "running"}

Status == {"none", "queued", "running", "success", "error"}

Live(t) == row[t] = "live"

QueuedJobs(t) == {i \in DOMAIN queue : queue[i] = t}

RunningJobs(t) == {w \in Workers : running[w] = t}

InFlight(t) == QueuedJobs(t) # {} \/ RunningJobs(t) # {}

Init ==
  /\ row = [t \in Targets |-> "absent"]
  /\ lastStatus = [t \in Targets |-> "none"]
  /\ due = [t \in Targets |-> FALSE]
  /\ queue = <<>>
  /\ running = [w \in Workers |-> "none"]
  /\ started = [w \in Workers |-> FALSE]
  /\ todo = [p \in Producers |-> {}]
  /\ marks = [p \in Producers |-> {}]
  /\ noWrite = [p \in Producers |-> {}]
  /\ requests = 0 /\ aborts = 0 /\ kills = 0
  /\ stranded = {} /\ extra = {}

--------------------------------------------------------------------------------
(* The table, edited from the page "Cibles de scan".                         *)

Create(t) ==
  /\ row[t] = "absent"
  /\ row' = [row EXCEPT ![t] = "live"]
  /\ UNCHANGED <<lastStatus, due, queue, running, started, todo, marks, noWrite,
                 requests, aborts, kills, stranded, extra>>

Delete(t) ==
  /\ Live(t)
  /\ row' = [row EXCEPT ![t] = "deleted"]
  /\ UNCHANGED <<lastStatus, due, queue, running, started, todo, marks, noWrite,
                 requests, aborts, kills, stranded, extra>>

(* A scan on demand only enqueues: it neither reads nor writes last_status.  *)
RunOnDemand(t) ==
  /\ Live(t) /\ requests < MaxRequest
  /\ queue' = Append(queue, t)
  /\ requests' = requests + 1
  /\ extra' = extra \cup {t}
  /\ UNCHANGED <<row, lastStatus, due, running, started, todo, marks, noWrite,
                 aborts, kills, stranded>>

(* The next date of the cron expression after last_scan_at goes by.          *)
CronElapses(t) ==
  /\ t \in Scheduled /\ Live(t) /\ ~due[t]
  /\ due' = [due EXCEPT ![t] = TRUE]
  /\ UNCHANGED <<row, lastStatus, queue, running, started, todo, marks, noWrite,
                 requests, aborts, kills, stranded, extra>>

--------------------------------------------------------------------------------
(* The scheduler and the webhook.                                            *)

Resting(p) == todo[p] = {} /\ marks[p] = {}

(* due_targets skips a target whose last_status says a scan is in flight.    *)
MutErrorIsFinal ==
  {t \in Scheduled : Live(t) /\ due[t] /\ lastStatus[t] \notin Busy \cup {"error"}}
MutDueTargets == {t \in Scheduled : Live(t) /\ due[t] /\ lastStatus[t] # "running"}
DueTargets == {t \in Scheduled : Live(t) /\ due[t] /\ lastStatus[t] \notin Busy}

(* The webhook takes every matching target, in flight or not.                *)
Matched == {t \in Watched : Live(t)}

StartTick ==
  /\ Resting(Scheduler) /\ DueTargets # {}
  /\ todo' = [todo EXCEPT ![Scheduler] = DueTargets]
  /\ UNCHANGED <<row, lastStatus, due, queue, running, started, marks, noWrite,
                 requests, aborts, kills, stranded, extra>>

ReceivePush(h) ==
  /\ Resting(h) /\ Matched # {} /\ requests < MaxRequest
  /\ todo' = [todo EXCEPT ![h] = Matched]
  /\ requests' = requests + 1
  /\ extra' = extra \cup Matched
  /\ noWrite' = [noWrite EXCEPT ![h] = {t \in Matched : lastStatus[t] = "queued"}]
  /\ UNCHANGED <<row, lastStatus, due, queue, running, started, marks, aborts, kills,
                 stranded>>

EnqueueOne(p, t) ==
  /\ t \in todo[p]
  /\ queue' = Append(queue, t)
  /\ todo' = [todo EXCEPT ![p] = @ \ {t}]
  /\ marks' = [marks EXCEPT ![p] = @ \cup {t}]
  /\ UNCHANGED <<row, lastStatus, due, running, started, noWrite, requests, aborts,
                 kills, stranded, extra>>

(* What the session's UPDATEs touch at the commit: assigning "queued" to a   *)
(* row that was loaded with that value is no change.                         *)
Writes(p) == marks[p] \ noWrite[p]

Drop(p) == /\ todo' = [todo EXCEPT ![p] = {}]
           /\ marks' = [marks EXCEPT ![p] = {}]
           /\ noWrite' = [noWrite EXCEPT ![p] = {}]

(* The commit comes after the jobs are visible to the workers: one may have  *)
(* run already, and "queued" then covers its outcome.                        *)
CommitMarks(p) ==
  /\ todo[p] = {} /\ marks[p] # {}
  /\ \A t \in Writes(p) : Live(t)
  /\ lastStatus' = [t \in Targets |-> IF t \in Writes(p) THEN "queued" ELSE lastStatus[t]]
  /\ stranded' = stranded \cup {t \in Writes(p) : ~InFlight(t)}
  /\ Drop(p)
  /\ UNCHANGED <<row, due, queue, running, started, requests, aborts, kills, extra>>

(* An UPDATE that matches no row (the target was deleted) fails the whole    *)
(* commit: the jobs stay, none of the statuses is written.                   *)
CommitFails(p) ==
  /\ todo[p] = {} /\ marks[p] # {}
  /\ \E t \in Writes(p) : ~Live(t)
  /\ extra' = extra \cup marks[p]
  /\ Drop(p)
  /\ UNCHANGED <<row, lastStatus, due, queue, running, started, requests, aborts,
                 kills, stranded>>

(* An exception in the loop (Redis, the database) or the death of the        *)
(* process: what is enqueued stays enqueued, nothing is written.             *)
Abort(p) ==
  /\ ~Resting(p) /\ aborts < MaxAbort
  /\ aborts' = aborts + 1
  /\ extra' = extra \cup marks[p]
  /\ Drop(p)
  /\ UNCHANGED <<row, lastStatus, due, queue, running, started, requests, kills,
                 stranded>>

--------------------------------------------------------------------------------
(* The worker's job scan_target.                                             *)

Dequeue(w) ==
  /\ running[w] = "none" /\ queue # <<>>
  /\ running' = [running EXCEPT ![w] = Head(queue)]
  /\ queue' = Tail(queue)
  /\ UNCHANGED <<row, lastStatus, due, started, todo, marks, noWrite, requests,
                 aborts, kills, stranded, extra>>

EndJob(w) == /\ running' = [running EXCEPT ![w] = "none"]
             /\ started' = [started EXCEPT ![w] = FALSE]

(* last_status = "running", committed before the scanners run; a deleted     *)
(* target ends the job.                                                      *)
Begin(w) ==
  /\ running[w] # "none" /\ ~started[w] /\ Live(running[w])
  /\ lastStatus' = [lastStatus EXCEPT ![running[w]] = "running"]
  /\ started' = [started EXCEPT ![w] = TRUE]
  /\ UNCHANGED <<row, due, queue, running, todo, marks, noWrite, requests, aborts,
                 kills, stranded, extra>>

NotFound(w) ==
  /\ running[w] # "none" /\ ~started[w] /\ ~Live(running[w])
  /\ EndJob(w)
  /\ UNCHANGED <<row, lastStatus, due, queue, todo, marks, noWrite, requests, aborts,
                 kills, stranded, extra>>

(* _finish_target, whatever the way to it: DAST disabled, clone failed, a    *)
(* scanner in error, or success.  It writes only a target that still exists. *)
MutFinished(t, outcome) == lastStatus
MutFinishedWord(t, outcome) ==
  IF Live(t) THEN [lastStatus EXCEPT ![t] = "completed"] ELSE lastStatus
Finished(t, outcome) ==
  IF Live(t) THEN [lastStatus EXCEPT ![t] = outcome] ELSE lastStatus

Finish(w, outcome) ==
  /\ started[w]
  /\ LET t == running[w] IN
       /\ lastStatus' = Finished(t, outcome)
       /\ due' = IF Live(t) THEN [due EXCEPT ![t] = FALSE] ELSE due
       /\ stranded' = stranded \ {t}
  /\ EndJob(w)
  /\ UNCHANGED <<row, queue, todo, marks, noWrite, requests, aborts, kills, extra>>

(* The process dies in the middle of the job, which RQ does not run again:   *)
(* last_status keeps "queued" or "running".                                  *)
Kill(w) ==
  /\ running[w] # "none" /\ kills < MaxKill
  /\ kills' = kills + 1
  /\ EndJob(w)
  /\ stranded' = LET t == running[w] IN
       IF lastStatus[t] \in Busy /\ QueuedJobs(t) = {} /\ RunningJobs(t) = {w}
         THEN stranded \cup {t} ELSE stranded
  /\ UNCHANGED <<row, lastStatus, due, queue, todo, marks, noWrite, requests, aborts,
                 extra>>

--------------------------------------------------------------------------------
Operator == \E t \in Targets : Create(t) \/ Delete(t) \/ RunOnDemand(t)

Loop(p) == \/ \E t \in Targets : EnqueueOne(p, t)
           \/ CommitMarks(p) \/ CommitFails(p)

Work(w) == \/ Dequeue(w) \/ Begin(w) \/ NotFound(w)
           \/ \E outcome \in {"success", "error"} : Finish(w, outcome)

Next == \/ Operator
        \/ \E t \in Targets : CronElapses(t)
        \/ StartTick \/ \E h \in Hooks : ReceivePush(h)
        \/ \E p \in Producers : Loop(p) \/ Abort(p)
        \/ \E w \in Workers : Work(w) \/ Kill(w)

Spec == Init /\ [][Next]_vars

(* The scheduler wakes up every minute for ever and both it and the workers  *)
(* are restarted when they die; users and GitHub owe nothing.                *)
FairSpec == /\ Spec
            /\ WF_vars(StartTick)
            /\ \A p \in Producers : WF_vars(Loop(p))
            /\ \A w \in Workers : WF_vars(Work(w))

--------------------------------------------------------------------------------
(* Every column, job and session holds a value the code can put there.       *)
TypeOK ==
  /\ row \in [Targets -> {"absent", "live", "deleted"}]
  /\ lastStatus \in [Targets -> Status]
  /\ due \in [Targets -> BOOLEAN]
  /\ queue \in Seq(Targets)
  /\ running \in [Workers -> Targets \cup {"none"}]
  /\ started \in [Workers -> BOOLEAN]
  /\ todo \in [Producers -> SUBSET Targets]
  /\ marks \in [Producers -> SUBSET Targets]
  /\ noWrite \in [Producers -> SUBSET Targets]
  /\ requests \in 0..MaxRequest
  /\ aborts \in 0..MaxAbort
  /\ kills \in 0..MaxKill
  /\ stranded \subseteq Targets
  /\ extra \subseteq Targets

(* What BUSY says of a target (app/scheduler.py): a scan is in flight.       *)
BusyMeansInFlight ==
  \A t \in Targets : Live(t) /\ lastStatus[t] \in Busy => InFlight(t)

(* A busy target without a job has only two causes: a job whose process      *)
(* died, or a tick or webhook that wrote "queued" after the job it had       *)
(* enqueued was over.  Deletions, duplicates, exceptions, failed commits and *)
(* other writers of last_status never strand a target.                       *)
BusyUnlessStranded ==
  \A t \in Targets : Live(t) /\ lastStatus[t] \in Busy /\ t \notin stranded => InFlight(t)

(* The scheduler's ticks alone never put a second job of a target in flight: *)
(* only a webhook, a scan on demand or a tick that could not commit does.    *)
OneCronJob ==
  \A t \in Targets \ extra :
    Cardinality(QueuedJobs(t)) + Cardinality(RunningJobs(t)) <= 1

(* A due target is scanned, unless it is deleted or was stranded: aborted    *)
(* ticks, failed commits, duplicates and deaths of other jobs delay it only. *)
DueTargetIsScanned ==
  \A t \in Scheduled :
    Live(t) /\ due[t] ~> ~due[t] \/ ~Live(t) \/ t \in stranded
================================================================================
