----------------------------- MODULE AutoScanProofs -----------------------------
(***************************************************************************)
(* Proofs about the auto-scan, for every set of targets, any number of     *)
(* webhooks and workers and any bound on requests, exceptions and deaths:  *)
(* what can leave a target busy without a job, why the scheduler alone     *)
(* never doubles one, and that a target's life is that of TargetLife.      *)
(***************************************************************************)
EXTENDS AutoScanRefinement, FiniteSetTheorems, TLAPS

On(q, t) == \E i \in DOMAIN q : q[i] = t

Once(q, t) == \A i, j \in DOMAIN q : q[i] = t /\ q[j] = t => i = j

Runs(t) == \E w \in Workers : running[w] = t

(* A row that does not exist has no status and no job.                       *)
AbsentUntouched == \A t \in Targets : row[t] = "absent" => lastStatus[t] = "none"

StartedHasJob == \A w \in Workers : started[w] => running[w] \in Targets

(* BusyUnlessStranded, in terms of the queue and the workers.                *)
Backed == \A t \in Targets :
  Live(t) /\ lastStatus[t] \in Busy /\ t \notin stranded => On(queue, t) \/ Runs(t)

Inv == TypeOK /\ AbsentUntouched /\ StartedHasJob /\ Backed

--------------------------------------------------------------------------------
(* The queue.                                                                *)

LEMMA OnAppend ==
  ASSUME NEW q \in Seq(Targets), NEW u \in Targets, NEW t \in Targets
  PROVE  On(Append(q, u), t) <=> On(q, t) \/ u = t
<1>1. /\ DOMAIN q = 1..Len(q) /\ Len(q) \in Nat
      /\ DOMAIN Append(q, u) = 1..(Len(q) + 1)
      /\ Append(q, u)[Len(q) + 1] = u
      /\ \A i \in 1..Len(q) : Append(q, u)[i] = q[i]
  OBVIOUS
<1>2. \A i \in 1..(Len(q) + 1) : i \in 1..Len(q) \/ i = Len(q) + 1
  BY <1>1
<1>3. \A i \in 1..Len(q) : i \in 1..(Len(q) + 1)
  BY <1>1
<1>4. Len(q) + 1 \in 1..(Len(q) + 1)
  BY <1>1
<1> HIDE <1>1
<1> QED
  BY <1>1, <1>2, <1>3, <1>4, Zenon DEF On

LEMMA OnceAppend ==
  ASSUME NEW q \in Seq(Targets), NEW u \in Targets, NEW t \in Targets,
         Once(q, t), u # t \/ ~On(q, t)
  PROVE  Once(Append(q, u), t)
BY DEF On, Once

LEMMA OnTail ==
  ASSUME NEW q \in Seq(Targets), q # <<>>, NEW t \in Targets
  PROVE  On(q, t) <=> Head(q) = t \/ On(Tail(q), t)
<1>1. ASSUME On(Tail(q), t) PROVE On(q, t)
  <2>1. PICK i \in DOMAIN Tail(q) : Tail(q)[i] = t
    BY <1>1 DEF On
  <2>2. i + 1 \in DOMAIN q /\ q[i + 1] = t
    BY <2>1
  <2> QED
    BY <2>2 DEF On
<1>2. ASSUME On(q, t), Head(q) # t PROVE On(Tail(q), t)
  <2>1. PICK i \in DOMAIN q : q[i] = t
    BY <1>2 DEF On
  <2>2. i - 1 \in DOMAIN Tail(q) /\ Tail(q)[i - 1] = t
    BY <1>2, <2>1
  <2> QED
    BY <2>2 DEF On
<1>3. ASSUME Head(q) = t PROVE On(q, t)
  BY <1>3 DEF On
<1> QED
  BY <1>1, <1>2, <1>3

LEMMA OnceTail ==
  ASSUME NEW q \in Seq(Targets), q # <<>>, NEW t \in Targets, Once(q, t)
  PROVE  Once(Tail(q), t) /\ (Head(q) = t => ~On(Tail(q), t))
<1>1. \A i \in DOMAIN Tail(q) : i + 1 \in DOMAIN q /\ Tail(q)[i] = q[i + 1] /\ i \in Nat \ {0}
  OBVIOUS
<1>2. 1 \in DOMAIN q /\ Head(q) = q[1]
  OBVIOUS
<1>3. Once(Tail(q), t)
  BY <1>1 DEF Once
<1>4. Head(q) = t => ~On(Tail(q), t)
  BY <1>1, <1>2 DEF Once, On
<1> QED
  BY <1>3, <1>4

LEMMA InFlightIsAJob ==
  ASSUME NEW t PROVE InFlight(t) <=> On(queue, t) \/ Runs(t)
BY DEF InFlight, QueuedJobs, RunningJobs, On, Runs

LEMMA BackedIsBusy == Backed <=> BusyUnlessStranded
BY InFlightIsAJob DEF Backed, BusyUnlessStranded

--------------------------------------------------------------------------------
(* One lemma per action.                                                     *)

LEMMA InitInv == Init => Inv
BY TargetsAssumption DEF Init, Inv, TypeOK, Status, AbsentUntouched, StartedHasJob, Backed,
   Live, Busy

LEMMA CreateInv == ASSUME NEW t \in Targets, Inv, Create(t) PROVE Inv'
<1>1. TypeOK'
  BY DEF Inv, TypeOK, Create
<1>2. AbsentUntouched' /\ StartedHasJob'
  BY DEF Inv, TypeOK, AbsentUntouched, StartedHasJob, Create
<1>3. Backed'
  BY DEF Inv, TypeOK, AbsentUntouched, Backed, Create, Live, Busy, On, Runs
<1> QED
  BY <1>1, <1>2, <1>3 DEF Inv

LEMMA DeleteInv == ASSUME NEW t \in Targets, Inv, Delete(t) PROVE Inv'
<1>1. TypeOK'
  BY DEF Inv, TypeOK, Delete
<1>2. AbsentUntouched' /\ StartedHasJob' /\ Backed'
  BY DEF Inv, TypeOK, AbsentUntouched, StartedHasJob, Backed, Delete, Live, On, Runs
<1> QED
  BY <1>1, <1>2 DEF Inv

LEMMA RunOnDemandInv == ASSUME NEW t \in Targets, Inv, RunOnDemand(t) PROVE Inv'
<1>1. TypeOK'
  BY TargetsAssumption DEF Inv, TypeOK, RunOnDemand
<1>2. AbsentUntouched' /\ StartedHasJob'
  BY DEF Inv, AbsentUntouched, StartedHasJob, RunOnDemand
<1>3. Backed'
  BY OnAppend DEF Inv, TypeOK, Backed, RunOnDemand, Live, Runs
<1> QED
  BY <1>1, <1>2, <1>3 DEF Inv

LEMMA CronElapsesInv == ASSUME NEW t \in Targets, Inv, CronElapses(t) PROVE Inv'
BY DEF Inv, TypeOK, AbsentUntouched, StartedHasJob, Backed, CronElapses, Live, On, Runs

LEMMA StartTickInv == ASSUME Inv, StartTick PROVE Inv'
<1>1. TypeOK'
  BY TargetsAssumption DEF Inv, TypeOK, StartTick, DueTargets
<1> QED
  BY <1>1 DEF Inv, AbsentUntouched, StartedHasJob, Backed, StartTick, Live, On, Runs

LEMMA ReceivePushInv == ASSUME NEW h \in Hooks, Inv, ReceivePush(h) PROVE Inv'
<1>1. Matched \subseteq Targets
  BY TargetsAssumption DEF Matched
<1>2. TypeOK'
  <2>1. /\ todo' \in [Producers -> SUBSET Targets]
        /\ noWrite' \in [Producers -> SUBSET Targets]
        /\ extra' \subseteq Targets
    BY <1>1 DEF Inv, TypeOK, ReceivePush
  <2>2. requests' \in 0..MaxRequest
    BY TargetsAssumption DEF Inv, TypeOK, ReceivePush
  <2> QED
    BY <2>1, <2>2 DEF Inv, TypeOK, ReceivePush
<1> QED
  BY <1>2 DEF Inv, AbsentUntouched, StartedHasJob, Backed, ReceivePush, Live, On, Runs

LEMMA EnqueueOneInv ==
  ASSUME NEW p \in Producers, NEW t \in Targets, Inv, EnqueueOne(p, t) PROVE Inv'
<1>1. TypeOK'
  BY DEF Inv, TypeOK, EnqueueOne
<1>2. AbsentUntouched' /\ StartedHasJob'
  BY DEF Inv, AbsentUntouched, StartedHasJob, EnqueueOne
<1>3. Backed'
  BY OnAppend DEF Inv, TypeOK, Backed, EnqueueOne, Live, Runs
<1> QED
  BY <1>1, <1>2, <1>3 DEF Inv

LEMMA CommitMarksInv == ASSUME NEW p \in Producers, Inv, CommitMarks(p) PROVE Inv'
<1>1. Writes(p) \subseteq Targets
  BY DEF Inv, TypeOK, Writes
<1>2. TypeOK'
  BY <1>1 DEF Inv, TypeOK, CommitMarks, Drop, Status
<1>3. AbsentUntouched' /\ StartedHasJob'
  BY DEF Inv, AbsentUntouched, StartedHasJob, CommitMarks, Drop, Live
<1>4. Backed'
  <2> SUFFICES ASSUME NEW t \in Targets, Live(t), lastStatus'[t] \in Busy, t \notin stranded'
               PROVE  On(queue, t) \/ Runs(t)
    BY DEF Backed, CommitMarks, Live, On, Runs
  <2>1. CASE t \in Writes(p)
    BY <2>1, InFlightIsAJob DEF CommitMarks
  <2>2. CASE t \notin Writes(p)
    BY <2>2 DEF Inv, Backed, CommitMarks
  <2> QED
    BY <2>1, <2>2
<1> QED
  BY <1>2, <1>3, <1>4 DEF Inv

LEMMA CommitFailsInv == ASSUME NEW p \in Producers, Inv, CommitFails(p) PROVE Inv'
<1>1. TypeOK'
  BY DEF Inv, TypeOK, CommitFails, Drop
<1> QED
  BY <1>1 DEF Inv, AbsentUntouched, StartedHasJob, Backed, CommitFails, Live, On, Runs

LEMMA AbortInv == ASSUME NEW p \in Producers, Inv, Abort(p) PROVE Inv'
<1>1. TypeOK'
  BY TargetsAssumption DEF Inv, TypeOK, Abort, Drop
<1> QED
  BY <1>1 DEF Inv, AbsentUntouched, StartedHasJob, Backed, Abort, Live, On, Runs

LEMMA DequeueInv == ASSUME NEW w \in Workers, Inv, Dequeue(w) PROVE Inv'
<1>1. Head(queue) \in Targets /\ Tail(queue) \in Seq(Targets)
  BY DEF Inv, TypeOK, Dequeue
<1>2. TypeOK'
  BY <1>1 DEF Inv, TypeOK, Dequeue
<1>3. AbsentUntouched' /\ StartedHasJob'
  BY <1>1, TargetsAssumption DEF Inv, TypeOK, AbsentUntouched, StartedHasJob, Dequeue
<1>4. Backed'
  <2> SUFFICES ASSUME NEW t \in Targets, On(queue, t) \/ Runs(t)
               PROVE  On(queue', t) \/ Runs(t)'
    BY DEF Inv, Backed, Dequeue, Live
  <2>1. running[w] # t /\ running'[w] = Head(queue) /\ queue' = Tail(queue)
    BY TargetsAssumption DEF Inv, TypeOK, Dequeue
  <2>2. \A v \in Workers \ {w} : running'[v] = running[v]
    BY DEF Inv, TypeOK, Dequeue
  <2>3. On(queue, t) <=> Head(queue) = t \/ On(Tail(queue), t)
    BY OnTail DEF Inv, TypeOK, Dequeue
  <2> QED
    BY <2>1, <2>2, <2>3 DEF Runs
<1> QED
  BY <1>2, <1>3, <1>4 DEF Inv

LEMMA BeginInv == ASSUME NEW w \in Workers, Inv, Begin(w) PROVE Inv'
<1>1. running[w] \in Targets
  BY DEF Inv, TypeOK, Begin
<1>2. TypeOK'
  BY <1>1 DEF Inv, TypeOK, Begin, Status
<1>3. AbsentUntouched' /\ StartedHasJob'
  BY <1>1 DEF Inv, TypeOK, AbsentUntouched, StartedHasJob, Begin, Live
<1>4. Backed'
  BY <1>1 DEF Inv, TypeOK, Backed, Begin, Live, On, Runs
<1> QED
  BY <1>2, <1>3, <1>4 DEF Inv

LEMMA NotFoundInv == ASSUME NEW w \in Workers, Inv, NotFound(w) PROVE Inv'
<1>1. TypeOK'
  BY DEF Inv, TypeOK, NotFound, EndJob
<1>2. AbsentUntouched' /\ StartedHasJob'
  BY DEF Inv, TypeOK, AbsentUntouched, StartedHasJob, NotFound, EndJob
<1>3. Backed'
  BY DEF Inv, TypeOK, Backed, NotFound, EndJob, Live, On, Runs
<1> QED
  BY <1>1, <1>2, <1>3 DEF Inv

LEMMA FinishInv ==
  ASSUME NEW w \in Workers, NEW outcome \in {"success", "error"}, Inv, Finish(w, outcome)
  PROVE  Inv'
<1>1. running[w] \in Targets
  BY DEF Inv, StartedHasJob, Finish
<1>2. TypeOK'
  BY <1>1 DEF Inv, TypeOK, Finish, Finished, EndJob, Status
<1>3. AbsentUntouched' /\ StartedHasJob'
  BY <1>1 DEF Inv, TypeOK, AbsentUntouched, StartedHasJob, Finish, Finished, EndJob, Live
<1>4. Backed'
  <2> SUFFICES ASSUME NEW t \in Targets, Live(t), lastStatus'[t] \in Busy, t \notin stranded'
               PROVE  On(queue, t) \/ Runs(t)'
    BY DEF Backed, Finish, Live, On
  <2>1. t # running[w]
    BY <1>1 DEF Inv, TypeOK, Finish, Finished, Live, Busy
  <2>2. On(queue, t) \/ Runs(t)
    BY <1>1, <2>1 DEF Inv, TypeOK, Backed, Finish, Finished, Live
  <2> QED
    BY <2>1, <2>2 DEF Inv, TypeOK, Finish, EndJob, Runs
<1> QED
  BY <1>2, <1>3, <1>4 DEF Inv

LEMMA KillInv == ASSUME NEW w \in Workers, Inv, Kill(w) PROVE Inv'
<1>1. running[w] \in Targets
  BY DEF Inv, TypeOK, Kill
<1>2. TypeOK'
  BY <1>1, TargetsAssumption DEF Inv, TypeOK, Kill, EndJob
<1>3. AbsentUntouched' /\ StartedHasJob'
  BY DEF Inv, TypeOK, AbsentUntouched, StartedHasJob, Kill, EndJob
<1>4. Backed'
  <2> SUFFICES ASSUME NEW t \in Targets, Live(t), lastStatus[t] \in Busy, t \notin stranded'
               PROVE  On(queue, t) \/ Runs(t)'
    BY DEF Backed, Kill, Live, On
  <2>1. On(queue, t) \/ Runs(t)
    BY DEF Inv, Backed, Kill
  <2>2. \A v \in Workers \ {w} : running'[v] = running[v]
    BY DEF Inv, TypeOK, Kill, EndJob
  <2>3. CASE t # running[w]
    BY <2>1, <2>2, <2>3 DEF Runs
  <2>4. CASE t = running[w]
    <3>1. QueuedJobs(t) # {} \/ RunningJobs(t) # {w}
      BY <2>4 DEF Kill
    <3>2. w \in RunningJobs(t)
      BY <2>4 DEF RunningJobs
    <3> QED
      BY <2>2, <3>1, <3>2 DEF QueuedJobs, RunningJobs, On, Runs
  <2> QED
    BY <2>3, <2>4
<1> QED
  BY <1>2, <1>3, <1>4 DEF Inv

LEMMA StutterInv == ASSUME Inv, UNCHANGED vars PROVE Inv'
BY DEF vars, Inv, TypeOK, AbsentUntouched, StartedHasJob, Backed, Live, On, Runs

LEMMA NextInv == ASSUME Inv, [Next]_vars PROVE Inv'
<1>1. ASSUME Operator PROVE Inv'
  BY <1>1, CreateInv, DeleteInv, RunOnDemandInv DEF Operator
<1>2. ASSUME NEW p \in Producers, Loop(p) \/ Abort(p) PROVE Inv'
  BY <1>2, EnqueueOneInv, CommitMarksInv, CommitFailsInv, AbortInv DEF Loop
<1>3. ASSUME NEW w \in Workers, Work(w) \/ Kill(w) PROVE Inv'
  BY <1>3, DequeueInv, BeginInv, NotFoundInv, FinishInv, KillInv DEF Work
<1> QED
  BY <1>1, <1>2, <1>3, CronElapsesInv, StartTickInv, ReceivePushInv, StutterInv DEF Next

--------------------------------------------------------------------------------
(* A live target is busy without a job only when its job's process died or a *)
(* commit wrote "queued" after its job was over (app/scheduler.py tick).     *)
THEOREM OnlyTwoWaysToStrand == Spec => []BusyUnlessStranded
<1>1. Inv => BusyUnlessStranded
  BY BackedIsBusy DEF Inv
<1> QED
  BY <1>1, InitInv, NextInv, PTL DEF Spec

(* The table, the queue and the sessions keep their types.                   *)
THEOREM AutoScanTypeCorrect == Spec => []TypeOK
<1>1. Inv => TypeOK
  BY DEF Inv
<1> QED
  BY <1>1, InitInv, NextInv, PTL DEF Spec

--------------------------------------------------------------------------------
(* Why the scheduler alone never doubles a job: a target it has enqueued is  *)
(* marked in its session until the commit and busy afterwards, so the next   *)
(* tick skips it for as long as the job lasts.                               *)

Sole(t) == /\ Once(queue, t)
           /\ \A v, w \in Workers : running[v] = t /\ running[w] = t => v = w
           /\ ~(On(queue, t) /\ Runs(t))

Jobless(t) == ~On(queue, t) /\ ~Runs(t)

Visible(t) == Live(t) /\ ~Jobless(t) => t \in marks[Scheduler] \/ lastStatus[t] \in Busy

Pending(t) == t \in todo[Scheduler] => Jobless(t) /\ t \notin marks[Scheduler]

HooksIgnore(t) == \A h \in Hooks : t \notin todo[h] /\ t \notin marks[h]

Unborn(t) == row[t] = "absent" => Jobless(t) /\ t \notin todo[Scheduler]

Cron(t) == Sole(t) /\ Visible(t) /\ Pending(t) /\ HooksIgnore(t) /\ Unborn(t)

CronInv == noWrite[Scheduler] = {} /\ \A t \in Targets \ extra : Cron(t)

LEMMA CronInit == Init => CronInv
BY TargetsAssumption DEF Init, CronInv, Cron, Sole, Visible, Pending, HooksIgnore, Unborn,
   Jobless, Live, Once, On, Runs, Producers

(* Steps that leave the queue and the workers alone and only let a producer  *)
(* forget what it had read.                                                  *)
LEMMA ForgetCron ==
  ASSUME NEW p \in Producers, Inv, CronInv, Drop(p), extra' = extra \cup marks[p],
         UNCHANGED <<row, lastStatus, queue, running>>
  PROVE  CronInv'
<1>1. noWrite'[Scheduler] = {}
  BY DEF Inv, TypeOK, CronInv, Drop, Producers
<1>2. ASSUME NEW t \in Targets \ extra' PROVE Cron(t)'
  <2>1. Cron(t) /\ t \notin marks[p]
    BY <1>2 DEF CronInv
  <2>2. \A q \in Producers : /\ todo'[q] \subseteq todo[q] /\ marks'[q] \subseteq marks[q]
                             /\ q # p => marks'[q] = marks[q]
    BY DEF Inv, TypeOK, Drop
  <2> QED
    BY <2>1, <2>2 DEF Cron, Sole, Visible, Pending, HooksIgnore, Unborn, Jobless, Live, On,
       Once, Runs, Producers
<1> QED
  BY <1>1, <1>2 DEF CronInv

LEMMA OperatorCron ==
  ASSUME NEW u \in Targets, Inv, CronInv, Create(u) \/ Delete(u) \/ RunOnDemand(u)
  PROVE  CronInv'
<1>1. ASSUME NEW t \in Targets \ extra, Create(u) \/ Delete(u) PROVE Cron(t)'
  BY <1>1 DEF Inv, TypeOK, CronInv, Create, Delete, Cron, Sole, Visible, Pending,
     HooksIgnore, Unborn, Jobless, Live, On, Once, Runs
<1>2. ASSUME NEW t \in Targets \ extra', RunOnDemand(u) PROVE Cron(t)'
  <2>1. t # u /\ Cron(t) /\ queue \in Seq(Targets)
    BY <1>2 DEF Inv, TypeOK, CronInv, RunOnDemand
  <2>2. On(queue', t) <=> On(queue, t)
    BY <1>2, <2>1, OnAppend DEF RunOnDemand
  <2>3. Once(queue', t)
    BY <1>2, <2>1, OnceAppend DEF RunOnDemand, Cron, Sole
  <2> QED
    BY <1>2, <2>1, <2>2, <2>3 DEF RunOnDemand, Cron, Sole, Visible, Pending, HooksIgnore,
       Unborn, Jobless, Live, Runs
<1> QED
  BY <1>1, <1>2 DEF CronInv, Create, Delete, RunOnDemand

LEMMA CronElapsesCron ==
  ASSUME NEW u \in Targets, Inv, CronInv, CronElapses(u) PROVE CronInv'
BY DEF CronInv, CronElapses, Cron, Sole, Visible, Pending, HooksIgnore, Unborn, Jobless,
   Live, On, Once, Runs

LEMMA StartTickCron == ASSUME Inv, CronInv, StartTick PROVE CronInv'
<1>1. ASSUME NEW t \in Targets \ extra PROVE Cron(t)'
  <2>1. Cron(t)
    BY <1>1 DEF CronInv
  <2>2. todo'[Scheduler] = DueTargets /\ \A h \in Hooks : todo'[h] = todo[h]
    BY TargetsAssumption DEF Inv, TypeOK, StartTick, Producers
  <2>3. t \in DueTargets => Jobless(t) /\ t \notin marks[Scheduler]
    BY <2>1 DEF StartTick, Resting, DueTargets, Cron, Visible
  <2>4. row[t] = "absent" => t \notin DueTargets
    BY DEF DueTargets, Live
  <2> QED
    BY <2>1, <2>2, <2>3, <2>4 DEF StartTick, Cron, Sole, Visible, Pending, HooksIgnore,
       Unborn, Jobless, Live, On, Once, Runs
<1> QED
  BY <1>1 DEF CronInv, StartTick

LEMMA ReceivePushCron ==
  ASSUME NEW h \in Hooks, Inv, CronInv, ReceivePush(h) PROVE CronInv'
<1>1. /\ todo'[Scheduler] = todo[Scheduler] /\ noWrite'[Scheduler] = noWrite[Scheduler]
      /\ \A g \in Hooks : todo'[g] = IF g = h THEN Matched ELSE todo[g]
  BY TargetsAssumption DEF Inv, TypeOK, ReceivePush, Producers
<1>2. ASSUME NEW t \in Targets \ extra' PROVE Cron(t)'
  <2>1. Cron(t) /\ t \notin Matched
    BY <1>2 DEF CronInv, ReceivePush
  <2> QED
    BY <1>1, <2>1 DEF ReceivePush, Cron, Sole, Visible, Pending, HooksIgnore, Unborn,
       Jobless, Live, On, Once, Runs
<1> QED
  BY <1>1, <1>2 DEF CronInv

LEMMA EnqueueOneCron ==
  ASSUME NEW p \in Producers, NEW u \in Targets, Inv, CronInv, EnqueueOne(p, u)
  PROVE  CronInv'
<1>1. ASSUME NEW t \in Targets \ extra PROVE Cron(t)'
  <2>1. Cron(t) /\ queue \in Seq(Targets)
    BY <1>1 DEF Inv, TypeOK, CronInv
  <2>2. On(queue', t) <=> On(queue, t) \/ u = t
    BY <2>1, OnAppend DEF EnqueueOne
  <2>3. \A q \in Producers : /\ todo'[q] = IF q = p THEN todo[q] \ {u} ELSE todo[q]
                             /\ marks'[q] = IF q = p THEN marks[q] \cup {u} ELSE marks[q]
    BY DEF Inv, TypeOK, EnqueueOne
  <2>4. CASE t # u
    <3>1. Once(queue', t)
      BY <2>1, <2>4, OnceAppend DEF EnqueueOne, Cron, Sole
    <3> QED
      BY <2>1, <2>2, <2>3, <2>4, <3>1 DEF EnqueueOne, Cron, Sole, Visible, Pending,
         HooksIgnore, Unborn, Jobless, Live, Runs, Producers
  <2>5. CASE t = u
    <3>1. p = Scheduler /\ t \in todo[Scheduler]
      BY <2>1, <2>5 DEF EnqueueOne, Cron, HooksIgnore, Producers
    <3>2. Jobless(t) /\ t \notin marks[Scheduler] /\ row[t] # "absent"
      BY <2>1, <3>1 DEF Cron, Pending, Unborn
    <3>3. Once(queue', t)
      BY <2>1, <2>5, <3>2, OnceAppend DEF EnqueueOne, Cron, Sole, Jobless
    <3>4. Sole(t)'
      BY <2>2, <2>5, <3>2, <3>3 DEF EnqueueOne, Sole, Jobless, Runs
    <3>5. Visible(t)' /\ Pending(t)'
      BY <2>3, <2>5, <3>1 DEF Visible, Pending, Producers
    <3>6. HooksIgnore(t)'
      BY <2>1, <2>3, <3>1, TargetsAssumption DEF Cron, HooksIgnore, Producers
    <3>7. Unborn(t)'
      BY <3>2 DEF EnqueueOne, Unborn
    <3> QED
      BY <3>4, <3>5, <3>6, <3>7 DEF Cron
  <2> QED
    BY <2>4, <2>5
<1> QED
  BY <1>1 DEF CronInv, EnqueueOne

LEMMA CommitMarksCron ==
  ASSUME NEW p \in Producers, Inv, CronInv, CommitMarks(p) PROVE CronInv'
<1>1. noWrite'[Scheduler] = {}
  BY DEF Inv, TypeOK, CronInv, CommitMarks, Drop, Producers
<1>2. ASSUME NEW t \in Targets \ extra PROVE Cron(t)'
  <2>1. Cron(t)
    BY <1>2 DEF CronInv
  <2>2. \A q \in Producers : /\ todo'[q] \subseteq todo[q] /\ marks'[q] \subseteq marks[q]
                             /\ q # p => marks'[q] = marks[q]
    BY DEF Inv, TypeOK, CommitMarks, Drop
  <2>3. t \in Writes(p) => p = Scheduler /\ lastStatus'[t] \in Busy
    BY <2>1 DEF CommitMarks, Writes, Cron, HooksIgnore, Producers, Busy
  <2>4. t \notin Writes(p) => lastStatus'[t] = lastStatus[t]
    BY DEF CommitMarks
  <2>5. p = Scheduler => Writes(p) = marks[p]
    BY DEF CronInv, Writes
  <2>6. Visible(t)'
    BY <2>1, <2>2, <2>3, <2>4, <2>5 DEF CommitMarks, Cron, Visible, Jobless, Live, On, Runs,
       Producers
  <2> QED
    BY <2>1, <2>2, <2>6 DEF CommitMarks, Cron, Sole, Pending, HooksIgnore, Unborn, Jobless,
       On, Once, Runs, Producers
<1> QED
  BY <1>1, <1>2 DEF CronInv, CommitMarks

LEMMA DequeueCron == ASSUME NEW w \in Workers, Inv, CronInv, Dequeue(w) PROVE CronInv'
<1>1. ASSUME NEW t \in Targets \ extra PROVE Cron(t)'
  <2>1. Cron(t) /\ queue \in Seq(Targets) /\ queue # <<>>
    BY <1>1 DEF Inv, TypeOK, CronInv, Dequeue
  <2>2. On(queue, t) <=> Head(queue) = t \/ On(queue', t)
    BY <2>1, OnTail DEF Dequeue
  <2>3. Once(queue', t) /\ (Head(queue) = t => ~On(queue', t))
    BY <2>1, OnceTail DEF Dequeue, Cron, Sole
  <2>4. running[w] # t
    BY TargetsAssumption DEF Dequeue
  <2>5. \A v \in Workers : running'[v] = IF v = w THEN Head(queue) ELSE running[v]
    BY DEF Inv, TypeOK, Dequeue
  <2>6. Runs(t)' <=> Runs(t) \/ Head(queue) = t
    BY <2>4, <2>5 DEF Runs
  <2>7. Sole(t)'
    BY <2>1, <2>2, <2>3, <2>4, <2>5, <2>6 DEF Cron, Sole, Runs
  <2>8. Jobless(t)' <=> Jobless(t)
    BY <2>2, <2>6 DEF Jobless
  <2> QED
    BY <2>1, <2>7, <2>8 DEF Dequeue, Cron, Visible, Pending, HooksIgnore, Unborn, Live
<1> QED
  BY <1>1 DEF CronInv, Dequeue

(* A job that ends, however it ends, was the only one of its target.         *)
LEMMA JobEndsCron ==
  ASSUME NEW w \in Workers, Inv, CronInv, running[w] \in Targets, EndJob(w),
         UNCHANGED <<row, queue, todo, marks, noWrite, extra>>,
         \A t \in Targets : t # running[w] => lastStatus'[t] = lastStatus[t]
  PROVE  CronInv'
<1>1. ASSUME NEW t \in Targets \ extra PROVE Cron(t)'
  <2>1. Cron(t)
    BY <1>1 DEF CronInv
  <2>2. \A v \in Workers : running'[v] = IF v = w THEN "none" ELSE running[v]
    BY DEF Inv, TypeOK, EndJob
  <2>3. Sole(t)'
    BY <2>1, <2>2, TargetsAssumption DEF Cron, Sole, On, Once, Runs
  <2>4. Jobless(t) => Jobless(t)'
    BY <2>2, TargetsAssumption DEF Jobless, On, Runs
  <2>5. CASE t = running[w]
    <3>1. Jobless(t)'
      BY <2>1, <2>2, <2>5, TargetsAssumption DEF Cron, Sole, Jobless, On, Runs
    <3> QED
      BY <2>1, <2>3, <3>1 DEF Cron, Visible, Pending, HooksIgnore, Unborn, Live
  <2>6. CASE t # running[w]
    <3>1. Jobless(t)' <=> Jobless(t)
      BY <2>2, <2>6, TargetsAssumption DEF Jobless, On, Runs
    <3> QED
      BY <2>1, <2>3, <2>6, <3>1 DEF Cron, Visible, Pending, HooksIgnore, Unborn, Live
  <2> QED
    BY <2>5, <2>6
<1> QED
  BY <1>1 DEF CronInv

LEMMA WorkerCron ==
  ASSUME NEW w \in Workers, Inv, CronInv, Work(w) \/ Kill(w) PROVE CronInv'
<1>1. ASSUME Begin(w) PROVE CronInv'
  <2>1. \A t \in Targets : lastStatus'[t] = lastStatus[t] \/ lastStatus'[t] \in Busy
    BY <1>1 DEF Inv, TypeOK, Begin, Busy
  <2> QED
    BY <1>1, <2>1 DEF CronInv, Begin, Cron, Sole, Visible, Pending, HooksIgnore, Unborn,
       Jobless, Live, On, Once, Runs
<1>2. ASSUME NotFound(w) \/ Kill(w) PROVE CronInv'
  <2>1. running[w] \in Targets
    BY <1>2 DEF Inv, TypeOK, NotFound, Kill
  <2> QED
    BY <1>2, <2>1, JobEndsCron DEF NotFound, Kill
<1>3. ASSUME NEW outcome \in {"success", "error"}, Finish(w, outcome) PROVE CronInv'
  <2>1. running[w] \in Targets
    BY <1>3 DEF Inv, StartedHasJob, Finish
  <2>2. \A t \in Targets : t # running[w] => lastStatus'[t] = lastStatus[t]
    BY <1>3 DEF Inv, TypeOK, Finish, Finished
  <2> QED
    BY <1>3, <2>1, <2>2, JobEndsCron DEF Finish
<1> QED
  BY <1>1, <1>2, <1>3, DequeueCron DEF Work

LEMMA CronNext == ASSUME Inv, CronInv, [Next]_vars PROVE CronInv'
<1>1. ASSUME NEW p \in Producers, Loop(p) \/ Abort(p) PROVE CronInv'
  <2>1. ASSUME CommitFails(p) \/ Abort(p) PROVE CronInv'
    BY <2>1, ForgetCron DEF CommitFails, Abort
  <2> QED
    BY <1>1, <2>1, EnqueueOneCron, CommitMarksCron DEF Loop
<1>2. ASSUME UNCHANGED vars PROVE CronInv'
  BY <1>2 DEF vars, CronInv, Cron, Sole, Visible, Pending, HooksIgnore, Unborn, Jobless,
     Live, On, Once, Runs
<1> QED
  BY <1>1, <1>2, OperatorCron, CronElapsesCron, StartTickCron, ReceivePushCron, WorkerCron
     DEF Next, Operator

LEMMA SoleIsOneJob ==
  ASSUME NEW t, Sole(t)
  PROVE  Cardinality(QueuedJobs(t)) + Cardinality(RunningJobs(t)) <= 1
<1>1. QueuedJobs(t) = {} \/ \E i : QueuedJobs(t) = {i}
  BY DEF Sole, Once, QueuedJobs
<1>2. RunningJobs(t) = {} \/ \E w : RunningJobs(t) = {w}
  BY DEF Sole, RunningJobs
<1>3. QueuedJobs(t) = {} \/ RunningJobs(t) = {}
  BY DEF Sole, On, Runs, QueuedJobs, RunningJobs
<1>4. Cardinality({}) = 0 /\ \A x : Cardinality({x}) = 1
  BY FS_EmptySet, FS_Singleton
<1>5. Cardinality(QueuedJobs(t)) \in {0, 1} /\ Cardinality(RunningJobs(t)) \in {0, 1}
  BY <1>1, <1>2, <1>4
<1>6. Cardinality(QueuedJobs(t)) = 0 \/ Cardinality(RunningJobs(t)) = 0
  BY <1>3, <1>4
<1> QED
  BY <1>5, <1>6

(* The ticks of the scheduler never put a second job of a target in flight:  *)
(* a duplicate needs a webhook, a scan on demand or a commit that failed     *)
(* (app/scheduler.py due_targets and tick).                                  *)
THEOREM SchedulerNeverDoubles == Spec => []OneCronJob
<1>1. CronInv => OneCronJob
  BY SoleIsOneJob DEF CronInv, Cron, OneCronJob
<1> QED
  BY <1>1, InitInv, NextInv, CronInit, CronNext, PTL DEF Spec

--------------------------------------------------------------------------------
(* The life of a target.                                                     *)

(* A target the scheduler alone asks for has a date to answer as long as it  *)
(* is about to be enqueued or has a job.                                     *)
Dated(t) == t \in todo[Scheduler] \/ ~Jobless(t) => due[t]

(* A lost target is busy, and nobody is about to enqueue it.                 *)
Forsaken(t) == t \in stranded => Jobless(t) /\ t \notin todo[Scheduler] /\ lastStatus[t] \in Busy

LifeInv == \A t \in Targets \ extra : Dated(t) /\ Forsaken(t)

LEMMA LifeInvInit == Init => LifeInv
BY TargetsAssumption DEF Init, LifeInv, Dated, Forsaken, Jobless, On, Runs, Producers

(* A target keeps its part of the invariant in a step that does not touch    *)
(* it, and that gives it neither a job nor a place in a tick.                *)
LEMMA LifeInvStays ==
  ASSUME NEW t \in Targets, Dated(t), Forsaken(t),
         Jobless(t) => Jobless(t)', t \in todo'[Scheduler] => t \in todo[Scheduler],
         due[t] => due'[t], t \in stranded' => t \in stranded,
         lastStatus[t] \in Busy => lastStatus'[t] \in Busy
  PROVE  Dated(t)' /\ Forsaken(t)'
BY DEF Dated, Forsaken

LEMMA OperatorLifeInv ==
  ASSUME NEW u \in Targets, Inv, LifeInv,
         Create(u) \/ Delete(u) \/ RunOnDemand(u) \/ CronElapses(u)
  PROVE  LifeInv'
<1>1. ASSUME NEW t \in Targets \ extra' PROVE Dated(t)' /\ Forsaken(t)'
  <2>1. t \notin extra /\ Dated(t) /\ Forsaken(t)
    BY <1>1 DEF LifeInv, Create, Delete, RunOnDemand, CronElapses
  <2>2. Jobless(t) => Jobless(t)'
    <3>1. CASE RunOnDemand(u)
      <4>1. t # u /\ queue \in Seq(Targets)
        BY <1>1, <3>1 DEF RunOnDemand, Inv, TypeOK
      <4> QED BY <3>1, <4>1, OnAppend DEF RunOnDemand, Jobless, Runs
    <3>2. CASE UNCHANGED <<queue, running>>
      BY <3>2 DEF Jobless, On, Runs
    <3> QED BY <3>1, <3>2 DEF Create, Delete, CronElapses
  <2>3. due[t] => due'[t]
    BY DEF Create, Delete, RunOnDemand, CronElapses, Inv, TypeOK
  <2>4. UNCHANGED <<todo, stranded, lastStatus>>
    BY DEF Create, Delete, RunOnDemand, CronElapses
  <2> QED BY <2>1, <2>2, <2>3, <2>4, LifeInvStays
<1> QED BY <1>1 DEF LifeInv

LEMMA StartsLifeInv ==
  ASSUME Inv, CronInv, LifeInv, StartTick \/ \E h \in Hooks : ReceivePush(h)
  PROVE  LifeInv'
<1>1. ASSUME NEW t \in Targets \ extra' PROVE Dated(t)' /\ Forsaken(t)'
  <2>1. t \notin extra /\ Dated(t) /\ Forsaken(t)
    BY <1>1 DEF LifeInv, StartTick, ReceivePush
  <2>2. UNCHANGED <<queue, running, due, stranded, lastStatus>>
    BY DEF StartTick, ReceivePush
  <2>3. Jobless(t)' <=> Jobless(t)
    BY <2>2 DEF Jobless, On, Runs
  <2>4. CASE t \in todo'[Scheduler] => t \in todo[Scheduler]
    BY <2>1, <2>2, <2>3, <2>4, LifeInvStays
  <2>5. CASE StartTick /\ t \in todo'[Scheduler]
    <3>1. t \in DueTargets
      BY <2>5 DEF StartTick, Inv, TypeOK, Producers
    <3>2. due[t] /\ lastStatus[t] \notin Busy
      BY <3>1 DEF DueTargets
    <3> QED BY <2>1, <2>2, <3>2 DEF Dated, Forsaken
  <2>6. CASE \E h \in Hooks : ReceivePush(h)
    <3>1. todo'[Scheduler] = todo[Scheduler]
      BY <2>6, TargetsAssumption DEF ReceivePush, Inv, TypeOK, Producers
    <3> QED BY <2>4, <3>1
  <2> QED BY <2>4, <2>5, <2>6
<1> QED BY <1>1 DEF LifeInv

LEMMA ProducerLifeInv ==
  ASSUME NEW p \in Producers, Inv, CronInv, LifeInv, Loop(p) \/ Abort(p)
  PROVE  LifeInv'
<1>1. ASSUME NEW u \in Targets, EnqueueOne(p, u), NEW t \in Targets \ extra'
      PROVE  Dated(t)' /\ Forsaken(t)'
  <2>1. t \notin extra /\ Dated(t) /\ Forsaken(t) /\ Cron(t) /\ queue \in Seq(Targets)
    BY <1>1 DEF LifeInv, CronInv, EnqueueOne, Inv, TypeOK
  <2>2. UNCHANGED <<running, due, stranded, lastStatus>>
    BY <1>1 DEF EnqueueOne
  <2>3. t \in todo'[Scheduler] => t \in todo[Scheduler]
    BY <1>1 DEF EnqueueOne, Inv, TypeOK, Producers
  <2>4. CASE t # u
    <3>1. Jobless(t) => Jobless(t)'
      BY <1>1, <2>1, <2>2, <2>4, OnAppend DEF EnqueueOne, Jobless, Runs
    <3> QED BY <2>1, <2>2, <2>3, <3>1, LifeInvStays
  <2>5. CASE t = u
    <3>1. t \in todo[Scheduler]
      BY <1>1, <2>1, <2>5 DEF EnqueueOne, Cron, HooksIgnore, Producers
    <3> QED BY <2>1, <2>2, <3>1 DEF Dated, Forsaken
  <2> QED BY <2>4, <2>5
<1>2. ASSUME CommitMarks(p), NEW t \in Targets \ extra' PROVE Dated(t)' /\ Forsaken(t)'
  <2>1. t \notin extra /\ Dated(t) /\ Forsaken(t) /\ Cron(t)
    BY <1>2 DEF LifeInv, CronInv, CommitMarks
  <2>2. UNCHANGED <<queue, running, due>> /\ todo'[Scheduler] \subseteq todo[Scheduler]
    BY <1>2 DEF CommitMarks, Drop, Inv, TypeOK, Producers
  <2>3. lastStatus'[t] = IF t \in Writes(p) THEN "queued" ELSE lastStatus[t]
    BY <1>2 DEF CommitMarks
  <2>4. Jobless(t)' <=> Jobless(t)
    BY <2>2 DEF Jobless, On, Runs
  <2>5. CASE t \in stranded' => t \in stranded
    BY <2>1, <2>2, <2>3, <2>4, <2>5, LifeInvStays DEF Busy
  <2>6. CASE t \in stranded' \ stranded
    <3>1. t \in Writes(p) /\ Jobless(t)
      BY <1>2, <2>6, InFlightIsAJob DEF CommitMarks, Jobless
    <3>2. p = Scheduler /\ todo[Scheduler] = {}
      BY <1>2, <2>1, <3>1 DEF CommitMarks, Writes, Cron, HooksIgnore, Producers
    <3> QED BY <2>1, <2>2, <2>3, <2>4, <3>1, <3>2 DEF Dated, Forsaken, Busy
  <2> QED BY <2>5, <2>6
<1>3. ASSUME CommitFails(p) \/ Abort(p), NEW t \in Targets \ extra'
      PROVE  Dated(t)' /\ Forsaken(t)'
  <2>1. t \notin extra /\ Dated(t) /\ Forsaken(t)
    BY <1>3 DEF LifeInv, CommitFails, Abort
  <2>2. UNCHANGED <<queue, running, due, stranded, lastStatus>>
    BY <1>3 DEF CommitFails, Abort
  <2>3. todo'[Scheduler] \subseteq todo[Scheduler]
    BY <1>3 DEF CommitFails, Abort, Drop, Inv, TypeOK, Producers
  <2> QED BY <2>1, <2>2, <2>3, LifeInvStays DEF Jobless, On, Runs
<1> QED BY <1>1, <1>2, <1>3 DEF Loop, LifeInv

(* A job that ends leaves its target without one, and the jobs of others     *)
(* alone.                                                                    *)
LEMMA JobIsOver ==
  ASSUME NEW w \in Workers, Inv, CronInv, running[w] \in Targets, EndJob(w), queue' = queue,
         NEW t \in Targets \ extra
  PROVE  /\ t = running[w] => Jobless(t)' /\ t \notin todo[Scheduler] /\ ~Scanned(t)'
         /\ t # running[w] => /\ Jobless(t)' <=> Jobless(t)
                              /\ Scanned(t)' <=> Scanned(t)
<1>1. \A v \in Workers : /\ running'[v] = IF v = w THEN "none" ELSE running[v]
                         /\ started'[v] = IF v = w THEN FALSE ELSE started[v]
  BY DEF Inv, TypeOK, EndJob
<1>2. Sole(t) /\ Pending(t)
  BY DEF CronInv, Cron
<1>3. CASE t = running[w]
  <2>1. ~On(queue, t) /\ \A v \in Workers : v # w => running[v] # t
    BY <1>2, <1>3 DEF Sole, Runs
  <2> QED BY <1>1, <1>2, <1>3, <2>1, TargetsAssumption DEF Jobless, Pending, On, Runs, Scanned
<1>4. CASE t # running[w]
  BY <1>1, <1>4, TargetsAssumption DEF Jobless, On, Runs, Scanned
<1> QED BY <1>3, <1>4

LEMMA WorkerLifeInv ==
  ASSUME NEW w \in Workers, Inv, CronInv, LifeInv, Work(w) \/ Kill(w)
  PROVE  LifeInv'
<1>1. ASSUME Dequeue(w), NEW t \in Targets \ extra' PROVE Dated(t)' /\ Forsaken(t)'
  <2>1. t \notin extra /\ Dated(t) /\ Forsaken(t) /\ queue \in Seq(Targets) /\ queue # <<>>
    BY <1>1 DEF LifeInv, Dequeue, Inv, TypeOK
  <2>2. On(queue, t) <=> Head(queue) = t \/ On(queue', t)
    BY <1>1, <2>1, OnTail DEF Dequeue
  <2>3. Runs(t)' <=> Runs(t) \/ Head(queue) = t
    BY <1>1, TargetsAssumption DEF Dequeue, Inv, TypeOK, Runs
  <2>4. Jobless(t) => Jobless(t)'
    BY <2>2, <2>3 DEF Jobless
  <2> QED BY <1>1, <2>1, <2>4, LifeInvStays DEF Dequeue
<1>2. ASSUME Begin(w), NEW t \in Targets \ extra' PROVE Dated(t)' /\ Forsaken(t)'
  <2>1. t \notin extra /\ Dated(t) /\ Forsaken(t)
    BY <1>2 DEF LifeInv, Begin
  <2>2. lastStatus[t] \in Busy => lastStatus'[t] \in Busy
    BY <1>2 DEF Begin, Inv, TypeOK, Busy
  <2>3. Jobless(t)' <=> Jobless(t)
    BY <1>2 DEF Begin, Jobless, On, Runs
  <2> QED BY <1>2, <2>1, <2>2, <2>3, LifeInvStays DEF Begin
<1>3. ASSUME NotFound(w) \/ Kill(w) \/ \E outcome \in {"success", "error"} : Finish(w, outcome),
             NEW t \in Targets \ extra'
      PROVE  Dated(t)' /\ Forsaken(t)'
  <2>1. /\ EndJob(w) /\ UNCHANGED <<queue, todo, extra>> /\ running[w] \in Targets
        /\ t \notin extra /\ Dated(t) /\ Forsaken(t)
    BY <1>3 DEF NotFound, Kill, Finish, Inv, TypeOK, StartedHasJob, LifeInv
  <2>2. CASE t = running[w]
    <3>1. Jobless(t)' /\ t \notin todo'[Scheduler] /\ ~Jobless(t)
      BY <2>1, <2>2, JobIsOver DEF Jobless, Runs
    <3>2. t \in stranded' => lastStatus'[t] \in Busy
      BY <1>3, <2>1, <2>2, <3>1 DEF NotFound, Kill, Finish, Forsaken
    <3> QED BY <3>1, <3>2 DEF Dated, Forsaken
  <2>3. CASE t # running[w]
    <3>1. Jobless(t)' <=> Jobless(t)
      BY <2>1, <2>3, JobIsOver
    <3>2. /\ t \in stranded' => t \in stranded
          /\ due'[t] = due[t] /\ lastStatus'[t] = lastStatus[t]
      BY <1>3, <2>3 DEF NotFound, Kill, Finish, Finished, Inv, TypeOK
    <3> QED BY <2>1, <3>1, <3>2, LifeInvStays
  <2> QED BY <2>2, <2>3
<1> QED BY <1>1, <1>2, <1>3 DEF Work, LifeInv

LEMMA LifeInvNext == ASSUME Inv, CronInv, LifeInv, [Next]_vars PROVE LifeInv'
<1>1. CASE UNCHANGED vars
  BY <1>1 DEF vars, LifeInv, Dated, Forsaken, Jobless, On, Runs
<1> QED BY <1>1, OperatorLifeInv, StartsLifeInv, ProducerLifeInv, WorkerLifeInv DEF Next, Operator

(* Where a target is, in terms of its jobs.                                  *)
StageOf(shared, scanned, jobless, lost) ==
  IF shared THEN "shared"
  ELSE IF scanned THEN "scanned"
  ELSE IF ~jobless THEN "asked"
  ELSE IF lost THEN "lost" ELSE "rest"

LEMMA StageIs ==
  ASSUME NEW t
  PROVE  /\ Stage(t) = StageOf(t \in extra, Scanned(t), Jobless(t), t \in stranded)
         /\ Stage(t)' = StageOf(t \in extra', Scanned(t)', Jobless(t)', t \in stranded')
<1>1. /\ InFlight(t) <=> ~Jobless(t)
      /\ Scanned(t) => InFlight(t)
  BY DEF InFlight, QueuedJobs, RunningJobs, Jobless, On, Runs, Scanned
<1>2. /\ InFlight(t)' <=> ~Jobless(t)'
      /\ Scanned(t)' => InFlight(t)'
  BY DEF InFlight, QueuedJobs, RunningJobs, Jobless, On, Runs, Scanned
<1>3. Stage(t) = StageOf(t \in extra, Scanned(t), Jobless(t), t \in stranded)
  BY <1>1 DEF Stage, StageOf
<1>4. Stage(t)' = StageOf(t \in extra', Scanned(t)', Jobless(t)', t \in stranded')
  BY <1>2 DEF Stage, StageOf
<1> QED BY <1>3, <1>4

LEMMA StageStays ==
  ASSUME NEW t,
         \/ t \in extra /\ t \in extra'
         \/ /\ t \in extra <=> t \in extra'
            /\ Scanned(t)' <=> Scanned(t)
            /\ Jobless(t)' <=> Jobless(t)
            /\ t \in stranded' <=> t \in stranded
  PROVE  Stage(t)' = Stage(t)
BY StageIs DEF StageOf

LEMMA StagesStay ==
  ASSUME \A t \in Targets : Stage(t)' = Stage(t)
  PROVE  Stages' = Stages
BY DEF Stages

LEMMA StageMoves ==
  ASSUME NEW t \in Targets, \A u \in Targets : u # t => Stage(u)' = Stage(u)
  PROVE  Life!Moved(t, Stage(t), Stage(t)')
BY DEF Stages, Life!Moved

(* A step that leaves jobs and history alone leaves every target where it is.*)
LEMMA QuietStages ==
  ASSUME UNCHANGED <<queue, running, started, stranded, extra>>
  PROVE  Stages' = Stages
<1>1. ASSUME NEW t \in Targets PROVE Stage(t)' = Stage(t)
  BY StageStays DEF Scanned, Jobless, On, Runs
<1> QED BY <1>1, StagesStay

(* What a target turns to when others ask for it.                            *)
LEMMA OthersAsk ==
  ASSUME NEW S \in SUBSET Targets, extra' = extra \cup S,
         UNCHANGED <<row, due, running, started, stranded>>,
         \A t \in Targets \ S : Jobless(t)' <=> Jobless(t)
  PROVE  Life!Share(S)
<1>1. ASSUME NEW t \in Targets PROVE Stages'[t] = IF t \in S THEN "shared" ELSE Stages[t]
  <2>1. t \in S => Stage(t)' = "shared"
    BY StageIs DEF StageOf
  <2>2. t \notin S => Stage(t)' = Stage(t)
    BY StageStays DEF Scanned
  <2> QED BY <2>1, <2>2 DEF Stages
<1>2. Stages' = [t \in Targets |-> Stages'[t]]
  BY DEF Stages
<1> QED BY <1>1, <1>2 DEF Life!Share

LEMMA OperatorLives ==
  ASSUME NEW u \in Targets, Inv, Create(u) \/ Delete(u) \/ RunOnDemand(u) \/ CronElapses(u)
  PROVE  Life!Next
<1>1. CASE Create(u) \/ Delete(u) \/ CronElapses(u)
  <2>1. Stages' = Stages
    BY <1>1, QuietStages DEF Create, Delete, CronElapses
  <2> QED BY <1>1, <2>1 DEF Create, Delete, CronElapses, Live, Life!Next, Life!Create,
          Life!Delete, Life!CronElapses
<1>2. CASE RunOnDemand(u)
  <2>1. ASSUME NEW t \in Targets \ {u} PROVE Jobless(t)' <=> Jobless(t)
    BY <1>2, <2>1, OnAppend DEF RunOnDemand, Inv, TypeOK, Jobless, Runs
  <2>2. Life!Share({u})
    BY <1>2, <2>1, OthersAsk DEF RunOnDemand
  <2> QED BY <2>2 DEF Life!Next
<1> QED BY <1>1, <1>2

LEMMA StartsLive ==
  ASSUME Inv, StartTick \/ \E h \in Hooks : ReceivePush(h)
  PROVE  [Life!Next]_Life!lifeVars
<1>1. CASE StartTick
  BY <1>1, QuietStages DEF StartTick, Life!lifeVars
<1>2. CASE \E h \in Hooks : ReceivePush(h)
  <2>1. Matched \in SUBSET Targets
    BY TargetsAssumption DEF Matched
  <2>2. Life!Share(Matched)
    BY <1>2, <2>1, OthersAsk DEF ReceivePush, Jobless, On, Runs
  <2> QED BY <2>1, <2>2 DEF Life!Next
<1> QED BY <1>1, <1>2

LEMMA ProducerLives ==
  ASSUME NEW p \in Producers, Inv, CronInv, LifeInv, Loop(p) \/ Abort(p)
  PROVE  [Life!Next]_Life!lifeVars
<1>1. ASSUME NEW u \in Targets, EnqueueOne(p, u) PROVE [Life!Next]_Life!lifeVars
  <2>1. UNCHANGED <<row, due, running, started, stranded, extra>> /\ queue \in Seq(Targets)
    BY <1>1 DEF EnqueueOne, Inv, TypeOK
  <2>2. \A t \in Targets : Scanned(t)' <=> Scanned(t)
    BY <2>1 DEF Scanned
  <2>3. ASSUME NEW t \in Targets PROVE Jobless(t)' <=> Jobless(t) /\ t # u
    BY <1>1, <2>1, OnAppend DEF EnqueueOne, Jobless, Runs
  <2>4. ASSUME NEW t \in Targets, t # u PROVE Stage(t)' = Stage(t)
    BY <2>1, <2>2, <2>3, <2>4, StageStays
  <2>5. CASE u \in extra
    BY <2>1, <2>4, <2>5, StageStays, StagesStay DEF Life!lifeVars
  <2>6. CASE u \notin extra
    <3>1. u \in todo[Scheduler]
      BY <1>1, <2>6 DEF EnqueueOne, CronInv, Cron, HooksIgnore, Producers
    <3>2. Jobless(u) /\ due[u] /\ u \notin stranded
      BY <2>6, <3>1 DEF LifeInv, Dated, Forsaken, CronInv, Cron, Pending
    <3>3. ~Scanned(u)
      BY <3>2 DEF Jobless, Runs, Scanned
    <3>4. Stage(u) = "rest" /\ Stage(u)' = "asked"
      BY <2>1, <2>2, <2>3, <2>6, <3>2, <3>3, StageIs DEF StageOf
    <3>5. Life!Ask(u)
      BY <2>1, <2>4, <3>2, <3>4, StageMoves DEF Life!Ask
    <3> QED BY <3>5 DEF Life!Next
  <2> QED BY <2>5, <2>6
<1>2. CASE CommitMarks(p)
  <2> DEFINE S == {t \in Writes(p) \ extra : ~InFlight(t) /\ t \notin stranded}
  <2>1. S \in SUBSET Targets
    BY DEF Writes, Inv, TypeOK
  <2>2. /\ UNCHANGED <<row, due, queue, running, started, extra>>
        /\ stranded' = stranded \cup {t \in Writes(p) : ~InFlight(t)}
    BY <1>2 DEF CommitMarks
  <2>3. ASSUME NEW t \in Targets
        PROVE  /\ Stage(t)' = IF t \in S THEN "lost" ELSE Stage(t)
               /\ t \in S => Stage(t) = "rest"
    <3>1. /\ Jobless(t)' <=> Jobless(t)
          /\ Scanned(t)' <=> Scanned(t)
          /\ Jobless(t) <=> ~InFlight(t)
          /\ Scanned(t) => ~Jobless(t)
      BY <2>2, InFlightIsAJob DEF Jobless, On, Runs, Scanned
    <3>2. t \in S => Stage(t) = "rest" /\ Stage(t)' = "lost"
      BY <2>2, <3>1, StageIs DEF StageOf
    <3>3. t \notin S => Stage(t)' = Stage(t)
      BY <2>2, <3>1, StageIs DEF StageOf
    <3> QED BY <3>2, <3>3
  <2> HIDE DEF S
  <2>4. \A t \in S : Stages[t] = "rest"
    BY <2>1, <2>3 DEF Stages
  <2>5. Stages' = [t \in Targets |-> IF t \in S THEN "lost" ELSE Stages[t]]
    BY <2>3 DEF Stages
  <2>6. Life!Lose(S)
    BY <2>2, <2>4, <2>5 DEF Life!Lose
  <2> QED BY <2>1, <2>6 DEF Life!Next
<1>3. CASE CommitFails(p) \/ Abort(p)
  <2>1. marks[p] \in SUBSET Targets
    BY DEF Inv, TypeOK
  <2>2. Life!Share(marks[p])
    BY <1>3, <2>1, OthersAsk DEF CommitFails, Abort, Jobless, On, Runs
  <2> QED BY <2>1, <2>2 DEF Life!Next
<1> QED BY <1>1, <1>2, <1>3 DEF Loop

LEMMA WorkerLives ==
  ASSUME NEW w \in Workers, Inv, CronInv, LifeInv, Work(w) \/ Kill(w)
  PROVE  [Life!Next]_Life!lifeVars
<1>1. CASE Dequeue(w)
  <2>1. queue \in Seq(Targets) /\ queue # <<>> /\ ~started[w] /\ Head(queue) \in Targets
    BY <1>1, TargetsAssumption DEF Dequeue, Inv, TypeOK, StartedHasJob
  <2>2. ASSUME NEW t \in Targets PROVE Stage(t)' = Stage(t)
    <3>1. On(queue, t) <=> Head(queue) = t \/ On(queue', t)
      BY <1>1, <2>1, OnTail DEF Dequeue
    <3>2. /\ Runs(t)' <=> Runs(t) \/ Head(queue) = t
          /\ Scanned(t)' <=> Scanned(t)
      BY <1>1, <2>1, TargetsAssumption DEF Dequeue, Inv, TypeOK, Runs, Scanned
    <3>3. Jobless(t)' <=> Jobless(t)
      BY <3>1, <3>2 DEF Jobless
    <3> QED BY <1>1, <3>2, <3>3, StageStays DEF Dequeue
  <2> QED BY <1>1, <2>2, StagesStay DEF Dequeue, Life!lifeVars
<1>2. CASE Begin(w)
  <2> PICK u \in Targets : u = running[w]
    BY <1>2 DEF Begin, Inv, TypeOK
  <2>1. ~started[w] /\ row[u] = "live"
    BY <1>2 DEF Begin, Live
  <2>2. /\ UNCHANGED <<row, due, queue, running, stranded, extra>>
        /\ \A v \in Workers : started'[v] = (v = w \/ started[v])
    BY <1>2 DEF Begin, Inv, TypeOK
  <2>3. \A t \in Targets : Jobless(t)' <=> Jobless(t)
    BY <2>2 DEF Jobless, On, Runs
  <2>4. ASSUME NEW t \in Targets, t # u PROVE Stage(t)' = Stage(t)
    <3>1. Scanned(t)' <=> Scanned(t)
      BY <2>2, <2>4 DEF Scanned
    <3> QED BY <2>2, <2>3, <3>1, StageStays
  <2>5. CASE u \in extra
    BY <2>2, <2>4, <2>5, StageStays, StagesStay DEF Life!lifeVars
  <2>6. CASE u \notin extra
    <3>1. ~Jobless(u) /\ due[u] /\ Sole(u)
      BY <2>1, <2>6 DEF Jobless, Runs, LifeInv, Dated, CronInv, Cron
    <3>2. ~Scanned(u) /\ Scanned(u)'
      BY <2>1, <2>2, <3>1 DEF Sole, Scanned
    <3>3. Stage(u) = "asked" /\ Stage(u)' = "scanned"
      BY <2>2, <2>6, <3>1, <3>2, StageIs DEF StageOf
    <3>4. Life!Begin(u)
      BY <2>1, <2>2, <2>4, <3>1, <3>3, StageMoves DEF Life!Begin
    <3> QED BY <2>1, <3>4 DEF Life!Next
  <2> QED BY <2>5, <2>6
<1>3. CASE NotFound(w) \/ Kill(w) \/ \E outcome \in {"success", "error"} : Finish(w, outcome)
  <2> PICK u \in Targets : u = running[w]
    BY <1>3 DEF NotFound, Kill, Finish, Inv, TypeOK, StartedHasJob
  <2>1. EndJob(w) /\ UNCHANGED <<row, queue, extra>> /\ running[w] \in Targets
    BY <1>3 DEF NotFound, Kill, Finish
  <2>2. ASSUME NEW t \in Targets, t # u PROVE Stage(t)' = Stage(t)
    <3>1. t \in stranded' <=> t \in stranded
      BY <1>3, <2>2 DEF NotFound, Kill, Finish
    <3>2. CASE t \in extra
      BY <2>1, <3>2, StageStays
    <3>3. CASE t \notin extra
      BY <2>1, <2>2, <3>1, <3>3, JobIsOver, StageStays
    <3> QED BY <3>2, <3>3
  <2>3. ASSUME u \in extra PROVE Stage(u)' = Stage(u) /\ Stages[u] = "shared"
    BY <2>1, <2>3, StageStays, StageIs DEF Stages, StageOf
  <2>4. ASSUME u \notin extra
        PROVE  /\ Stage(u) = IF Scanned(u) THEN "scanned" ELSE "asked"
               /\ Stage(u)' = IF u \in stranded' THEN "lost" ELSE "rest"
               /\ u \notin stranded
               /\ Scanned(u) <=> started[w]
    <3>1. ~Jobless(u) /\ Sole(u)
      BY <2>1, <2>4 DEF Jobless, Runs, CronInv, Cron
    <3>2. Jobless(u)' /\ ~Scanned(u)'
      BY <2>1, <2>4, JobIsOver
    <3>3. u \notin stranded
      BY <2>1, <2>4, <3>1 DEF LifeInv, Forsaken
    <3>4. Scanned(u) <=> started[w]
      BY <3>1 DEF Sole, Scanned
    <3> QED BY <2>1, <2>4, <3>1, <3>2, <3>3, <3>4, StageIs DEF StageOf
  <2>5. Life!Moved(u, Stage(u), Stage(u)')
    BY <2>1, <2>2, StageMoves
  <2>6. u \in extra => Stages' = Stages
    BY <2>2, <2>3, StagesStay
  <2>7. CASE NotFound(w)
    <3>1. row[u] # "live" /\ UNCHANGED <<due, stranded>> /\ ~started[w]
      BY <2>7 DEF NotFound, Live
    <3>2. u \notin extra => Life!Vanish(u)
      BY <2>1, <2>4, <2>5, <3>1 DEF Life!Vanish
    <3> QED BY <2>1, <2>6, <3>1, <3>2 DEF Life!Next, Life!lifeVars
  <2>8. CASE Kill(w)
    <3>1. UNCHANGED due
      BY <2>8 DEF Kill
    <3>2. u \notin extra => Life!Die(u)
      BY <2>1, <2>4, <2>5, <3>1 DEF Life!Die
    <3> QED BY <2>1, <2>6, <3>1, <3>2 DEF Life!Next, Life!lifeVars
  <2>9. CASE \E outcome \in {"success", "error"} : Finish(w, outcome)
    <3>1. /\ started[w] /\ u \notin stranded'
          /\ due' = IF row[u] = "live" THEN [due EXCEPT ![u] = FALSE] ELSE due
      BY <2>9 DEF Finish, Live
    <3>2. u \notin extra => Life!End(u)
      BY <2>1, <2>4, <2>5, <3>1 DEF Life!End
    <3>3. u \in extra => Life!EndShared(u) \/ UNCHANGED Life!lifeVars
      BY <2>1, <2>3, <2>6, <3>1 DEF Life!EndShared, Life!lifeVars
    <3> QED BY <2>1, <3>2, <3>3 DEF Life!Next
  <2> QED BY <1>3, <2>7, <2>8, <2>9
<1> QED BY <1>1, <1>2, <1>3 DEF Work

(* For any targets, webhooks, workers and bounds: each step of the auto-scan *)
(* is a step of a target's life, or none. A target only ticks ask for is     *)
(* scanned once for each of its dates, and never again once it is lost       *)
(* (app/scheduler.py due_targets and tick, app/scanning.py scan_target).     *)
THEOREM TargetsLive == Spec => ImplementsLife
<1>1. Init => Life!Init
  <2>1. ASSUME Init, NEW t \in Targets PROVE Stage(t) = "rest"
    BY <2>1, StageIs, TargetsAssumption DEF Init, StageOf, Scanned, Jobless, On, Runs
  <2> QED BY <2>1 DEF Init, Stages, Life!Init
<1>2. Inv /\ CronInv /\ LifeInv /\ [Next]_vars => [Life!Next]_Life!lifeVars
  <2> SUFFICES ASSUME Inv, CronInv, LifeInv, [Next]_vars PROVE [Life!Next]_Life!lifeVars
    OBVIOUS
  <2>1. CASE UNCHANGED vars
    BY <2>1, QuietStages DEF vars, Life!lifeVars
  <2> QED BY <2>1, OperatorLives, StartsLive, ProducerLives, WorkerLives DEF Next, Operator
<1> QED BY <1>1, <1>2, InitInv, NextInv, CronInit, CronNext, LifeInvInit, LifeInvNext, PTL
     DEF Spec, ImplementsLife, Life!Spec
================================================================================
