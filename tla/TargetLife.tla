------------------------------- MODULE TargetLife -------------------------------
(***************************************************************************)
(* What the auto-scan promises of a target with a cron schedule, seen from *)
(* the target alone: once its date is past it is asked for, scanned and    *)
(* back at rest with a new date; a scan begins for a date, and the date is *)
(* over with the scan that ends.  There is no queue, no tick, no session   *)
(* and no worker here.                                                     *)
(*                                                                         *)
(* Two states bound the promise.  A target is lost when its status says    *)
(* that a scan is in flight and none is: the scheduler leaves it alone for *)
(* ever.  It is shared once something other than a committed tick has      *)
(* asked for a scan of it, and may then be scanned at any time.            *)
(***************************************************************************)
CONSTANTS Targets,     \* ids of table scan_targets
          Scheduled    \* those with a cron schedule

VARIABLES row,         \* whether the row exists
          due,         \* whether the cron date after last_scan_at is past
          life         \* where the target is between two scans

lifeVars == <<row, due, life>>

Moved(t, from, to) == life[t] = from /\ life' = [life EXCEPT ![t] = to]

Init == /\ row = [t \in Targets |-> "absent"]
        /\ due = [t \in Targets |-> FALSE]
        /\ life = [t \in Targets |-> "rest"]

Create(t) ==
  /\ row[t] = "absent" /\ row' = [row EXCEPT ![t] = "live"]
  /\ UNCHANGED <<due, life>>

Delete(t) ==
  /\ row[t] = "live" /\ row' = [row EXCEPT ![t] = "deleted"]
  /\ UNCHANGED <<due, life>>

CronElapses(t) ==
  /\ t \in Scheduled /\ row[t] = "live" /\ ~due[t]
  /\ due' = [due EXCEPT ![t] = TRUE]
  /\ UNCHANGED <<row, life>>

(* A scan is asked for and begins on a date that no scan has answered.       *)
Ask(t) == due[t] /\ Moved(t, "rest", "asked") /\ UNCHANGED <<row, due>>

Begin(t) ==
  /\ due[t] /\ row[t] = "live"
  /\ Moved(t, "asked", "scanned")
  /\ UNCHANGED <<row, due>>

Vanish(t) == row[t] # "live" /\ Moved(t, "asked", "rest") /\ UNCHANGED <<row, due>>

(* The end of a scan, which writes only a target that still exists.          *)
End(t) ==
  /\ Moved(t, "scanned", "rest")
  /\ due' = IF row[t] = "live" THEN [due EXCEPT ![t] = FALSE] ELSE due
  /\ UNCHANGED row

(* A scan that was asked for or has begun dies.                              *)
Die(t) ==
  /\ \E from \in {"asked", "scanned"}, to \in {"rest", "lost"} : Moved(t, from, to)
  /\ UNCHANGED <<row, due>>

(* A tick says that scans are in flight which are over.                      *)
Lose(S) ==
  /\ \A t \in S : life[t] = "rest"
  /\ life' = [t \in Targets |-> IF t \in S THEN "lost" ELSE life[t]]
  /\ UNCHANGED <<row, due>>

(* Others ask for scans, or a tick that never says so.                       *)
Share(S) ==
  /\ life' = [t \in Targets |-> IF t \in S THEN "shared" ELSE life[t]]
  /\ UNCHANGED <<row, due>>

EndShared(t) ==
  /\ life[t] = "shared" /\ due' = [due EXCEPT ![t] = FALSE]
  /\ UNCHANGED <<row, life>>

Next ==
  \/ \E t \in Targets : \/ Create(t) \/ Delete(t) \/ CronElapses(t)
                        \/ Ask(t) \/ Begin(t) \/ Vanish(t) \/ End(t) \/ Die(t)
                        \/ EndShared(t)
  \/ \E S \in SUBSET Targets : Lose(S) \/ Share(S)

Spec == Init /\ [][Next]_lifeVars
================================================================================
