------------------------------ MODULE ScanLedger ------------------------------
(***************************************************************************)
(* What VulnTrack promises of a scan, seen from the database alone: the    *)
(* rows of the tables scans and findings as another connection reads them. *)
(* There is no queue, no worker, no transaction and no lock here.  A scan  *)
(* is published in one step or not at all, and publishing it reconciles    *)
(* the findings of its own source (an asset and a scanner) with the        *)
(* report.  Rows that somebody else committed while the scan was being     *)
(* processed are "contended": for them alone the code reads early and      *)
(* writes late, so the ledger only bounds what they can become.            *)
(***************************************************************************)
EXTENDS Naturals, FiniteSets

CONSTANTS Scans,         \* the ids of table scans
          Fingerprints,  \* the fingerprints reports can contain
          SourceOf,      \* the (asset, scanner) pair of a fingerprint
          Reports,       \* records [src, items]: a source, what the tool listed
          NoReport,      \* the report of a scan that does not exist yet
          LateTimeout    \* whether a published scan may still be marked failed

VARIABLES scanStatus,    \* scans.status, or "absent" before the INSERT
          report,        \* the raw report of a scan
          findingStatus, \* findings.status, or "absent"
          lastScan,      \* findings.scan_id, 0 for no row
          contended      \* rows others changed while a scan was processing

ledgerVars == <<scanStatus, report, findingStatus, lastScan, contended>>

TriageStatus == {"open", "in_progress", "fixed", "false_positive", "accepted"}

Unresolved == {"open", "in_progress"}

Listed(r) == {r.items[i] : i \in DOMAIN r.items}

(* What reconciling finding f with the report of scan s makes of it. *)
Verdict(s, f) ==
  LET st == findingStatus[f]
      r  == report[s]
  IN IF f \in Listed(r)
       THEN IF st \in {"absent", "fixed"} THEN "open" ELSE st
       ELSE IF Listed(r) # {} /\ SourceOf[f] = r.src /\ st \in Unresolved
              THEN "fixed" ELSE st

(* A contended row of the scan's source may keep what the other writer left *)
(* there, or get the value the scan computed from what it had read before.  *)
Outcomes(s, f) ==
  CASE f \notin contended[s] -> {Verdict(s, f)}
    [] f \in contended[s] /\ f \in Listed(report[s]) -> {findingStatus[f], "open"}
    [] f \in contended[s] /\ f \notin Listed(report[s]) ->
         IF SourceOf[f] = report[s].src /\ Listed(report[s]) # {}
           THEN {findingStatus[f], "fixed"} ELSE {findingStatus[f]}

Changed == {f \in Fingerprints : \/ findingStatus'[f] # findingStatus[f]
                                 \/ lastScan'[f] # lastScan[f]}

(* Every other scan being processed notes the rows this step changed. *)
Contend(own) ==
  contended' = [s \in Scans |->
                  CASE s = own -> {}
                    [] s # own /\ scanStatus[s] = "processing" -> contended[s] \cup Changed
                    [] s # own /\ scanStatus[s] # "processing" -> contended[s]]

Init == /\ scanStatus = [s \in Scans |-> "absent"]
        /\ report = [s \in Scans |-> NoReport]
        /\ findingStatus = [f \in Fingerprints |-> "absent"]
        /\ lastScan = [f \in Fingerprints |-> 0]
        /\ contended = [s \in Scans |-> {}]

Register(s, r) ==
  /\ scanStatus[s] = "absent"
  /\ scanStatus' = [scanStatus EXCEPT ![s] = "pending"]
  /\ report' = [report EXCEPT ![s] = r]
  /\ UNCHANGED <<findingStatus, lastScan, contended>>

Start(s) ==
  /\ scanStatus[s] = "pending"
  /\ scanStatus' = [scanStatus EXCEPT ![s] = "processing"]
  /\ UNCHANGED <<report, findingStatus, lastScan, contended>>

Publish(s) ==
  /\ scanStatus[s] = "processing"
  /\ scanStatus' = [scanStatus EXCEPT ![s] = "completed"]
  /\ findingStatus' \in [Fingerprints -> TriageStatus \cup {"absent"}]
  /\ \A f \in Fingerprints : findingStatus'[f] \in Outcomes(s, f)
  /\ lastScan' = [f \in Fingerprints |->
                    IF f \in Listed(report[s]) THEN s ELSE lastScan[f]]
  /\ Contend(s)
  /\ UNCHANGED report

Fail(s) ==
  /\ scanStatus[s] = "processing"
  /\ scanStatus' = [scanStatus EXCEPT ![s] = "failed"]
  /\ contended' = [contended EXCEPT ![s] = {}]
  /\ UNCHANGED <<report, findingStatus, lastScan>>

(* A timeout after the commit: the scan counts as failed, what it published  *)
(* stays as it is.                                                           *)
Disown(s) ==
  /\ LateTimeout /\ scanStatus[s] = "completed"
  /\ scanStatus' = [scanStatus EXCEPT ![s] = "failed"]
  /\ UNCHANGED <<report, findingStatus, lastScan, contended>>

Triage(G, to) ==
  /\ \A f \in G : findingStatus[f] # "absent"
  /\ findingStatus' = [f \in Fingerprints |-> IF f \in G THEN to ELSE findingStatus[f]]
  /\ UNCHANGED <<scanStatus, report, lastScan>>
  /\ Contend(0)

Next == \/ \E s \in Scans, r \in Reports : Register(s, r)
        \/ \E s \in Scans : Start(s) \/ Publish(s) \/ Fail(s) \/ Disown(s)
        \/ \E G \in SUBSET Fingerprints, to \in TriageStatus : Triage(G, to)

Spec == Init /\ [][Next]_ledgerVars
================================================================================
