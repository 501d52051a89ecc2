------------------------- MODULE TargetJobRefinement -------------------------
(***************************************************************************)
(* A job of scan_target, read through the row of its target, is the one    *)
(* job of AutoScan's worker: scanners, scans, sessions and the timer       *)
(* disappear, and Begin, Finish and Kill of AutoScan are left.             *)
(***************************************************************************)
EXTENDS TargetJob

(* The target is not deleted while the job runs, and the job has left the    *)
(* queue.  Only the end of the job gives the target a new date.              *)
Ticket == "target"

Done == at \in {"over", "dead"}

Flight == INSTANCE AutoScan WITH
  Targets    <- {Ticket},
  Scheduled  <- {Ticket},
  Watched    <- {},
  Hooks      <- {},
  Scheduler  <- "scheduler",
  MaxRequest <- 0,
  MaxAbort   <- 0,
  MaxKill    <- 1,
  row        <- [t \in {Ticket} |-> "live"],
  lastStatus <- [t \in {Ticket} |-> lastStatus],
  due        <- [t \in {Ticket} |-> at # "over"],
  queue      <- <<>>,
  running    <- [w \in Workers |-> IF Done THEN "none" ELSE Ticket],
  started    <- [w \in Workers |-> at # "queued" /\ ~Done],
  todo       <- [p \in {"scheduler"} |-> {}],
  marks      <- [p \in {"scheduler"} |-> {}],
  noWrite    <- [p \in {"scheduler"} |-> {}],
  requests   <- 0,
  aborts     <- 0,
  kills      <- IF at = "dead" THEN 1 ELSE 0,
  stranded   <- IF at = "dead" THEN {Ticket} ELSE {},
  extra      <- {}

(* Whatever its scanners, its sessions, its timer and its process do, a job  *)
(* says "running" once, and then says once how it ended, with the target at  *)
(* rest, or dies and leaves the target stranded (app/scanning.py scan_target *)
(* and _finish_target).                                                      *)
IsOneFlight ==
  [][\/ Flight!Begin(Job)
     \/ \E said \in {"success", "error"} : Flight!Finish(Job, said)
     \/ Flight!Kill(Job)]_Flight!vars
================================================================================
