-------------------------- MODULE IngestionRefinement --------------------------
(***************************************************************************)
(* The ingestion pipeline implements the ledger: read through the tables   *)
(* scans and findings, queue, workers, sessions and locks disappear, and a *)
(* scan is published in one step that reconciles exactly the findings of   *)
(* its source.  The rows other transactions changed while a scan was       *)
(* processed are the ledger's contended rows.                              *)
(***************************************************************************)
EXTENDS Ingestion

Ledger == INSTANCE ScanLedger WITH contended <- touched

(* Every behaviour of the queue, the workers and the triage requests is, on  *)
(* the tables, a behaviour of the ledger (app/jobs.py process_scan against   *)
(* app/web.py _apply_status_change).                                         *)
ImplementsLedger == Ledger!Spec
================================================================================
