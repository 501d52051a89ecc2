-------------------------- MODULE AutoScanRefinement --------------------------
(***************************************************************************)
(* The scheduler, its queue and its workers implement the life of a target *)
(* (module TargetLife): read through the table and the jobs of a target,   *)
(* ticks, sessions and commits disappear.                                  *)
(***************************************************************************)
EXTENDS AutoScan

Scanned(t) == \E w \in Workers : running[w] = t /\ started[w]

Stage(t) == CASE t \in extra -> "shared"
              [] t \notin extra /\ Scanned(t) -> "scanned"
              [] t \notin extra /\ ~Scanned(t) /\ InFlight(t) -> "asked"
              [] t \notin extra /\ ~InFlight(t) /\ t \in stranded -> "lost"
              [] t \notin extra /\ ~InFlight(t) /\ t \notin stranded -> "rest"

Stages == [t \in Targets |-> Stage(t)]

Life == INSTANCE TargetLife WITH life <- Stages

(* A target only ticks ask for is scanned once for each of its dates and for *)
(* nothing else, however ticks, workers, deletions, exceptions and deaths    *)
(* interleave; and once lost it is never asked for again (app/scheduler.py   *)
(* due_targets and tick, app/scanning.py scan_target).                       *)
ImplementsLife == Life!Spec
================================================================================
