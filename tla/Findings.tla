-------------------------------- MODULE Findings --------------------------------
(***************************************************************************)
(* The table of findings with the columns the dashboards read, over time:  *)
(* what a report makes of it (app/parsers.py, the fingerprint of           *)
(* app/models.py, process_scan of app/jobs.py as one step, the EPSS and    *)
(* KEV feeds of app/epss.py and app/kev.py), and what analysts decide      *)
(* (app/web.py).                                                           *)
(*                                                                         *)
(* A whole scan is one step here: module Ingestion has its transactions    *)
(* and their races.  A CVE is a number, 0 for none; a rule, file, package  *)
(* or asset a string, "" for none; a title is the rank of the ATT&CK rule  *)
(* whose keywords it contains.                                             *)
(***************************************************************************)
EXTENDS Scoring, Sequences, Functions

CONSTANTS
  Assets,        \* names of assets
  Reports,       \* raw reports: [asset, scanner, items]
  Published,     \* what FIRST and CISA publish at an instant: [epss, kev]
  BatchSize,     \* CVEs per request to FIRST (epss.BATCH_SIZE)
  Instants,      \* hours at which anything happens
  Decisions,     \* statuses the analysts choose
  Criticalities, \* criticalities they give an asset
  MaxScan,       \* bound: reports processed
  MaxTriage,     \* bound: triage and criticality requests
  MaxBulk,       \* bound: findings triaged by one request
  MaxOutage      \* bound: requests to the feeds that fail in one scan

ASSUME FindingsAssumption ==
  /\ BatchSize \in Nat \ {0} /\ MaxScan \in Nat /\ MaxTriage \in Nat /\ MaxBulk \in Nat
  /\ MaxOutage \in Nat
  /\ Instants \subseteq Nat /\ 0 \in Instants
  /\ Decisions \subseteq FindingStatus /\ Criticalities \subseteq Criticality
  /\ \A r \in Reports :
       /\ r.asset \in Assets /\ r.scanner \in {"trivy", "semgrep", "gitleaks", "nuclei"}
       /\ DOMAIN r.items = 1..Len(r.items) /\ Len(r.items) \in Nat

VARIABLES
  clock,        \* now, in hours
  findings,     \* the table, a row's id is its place
  journal,      \* finding_notes of kind status_change
  criticality,  \* assets.criticality
  scans,        \* reports processed (bounded by MaxScan)
  requests,     \* requests of the analysts (bounded by MaxTriage)
  fixedAs       \* history: how each finding looked when it was last set to fixed

vars == <<clock, findings, journal, criticality, scans, requests, fixedAs>>

Ids == DOMAIN findings

--------------------------------------------------------------------------------
(* Parsers: a raw item becomes the same eight fields whatever its scanner.   *)

NoCve == 0

NoLine == -1

Parsed(severity, cve, component, rule, file, line, topic) ==
  [severity |-> severity, cve |-> cve, component |-> component, rule |-> rule,
   file |-> file, line |-> line, topic |-> topic]

SEVERITY_MAP_TRIVY == [CRITICAL |-> "critical", HIGH |-> "high", MEDIUM |-> "medium",
                       LOW |-> "low", UNKNOWN |-> "info"]

SEVERITY_MAP_SEMGREP == [ERROR |-> "high", WARNING |-> "medium", INFO |-> "low"]

Level(map, level) == IF level \in DOMAIN map THEN map[level] ELSE "info"

(* The report's own word for a severity.                                     *)
MutParseTrivy(v) == Parsed(v.level, v.cve, v.component, "", "", NoLine, v.topic)

parse_trivy(v) ==
  Parsed(Level(SEVERITY_MAP_TRIVY, v.level), v.cve, v.component, "", "", NoLine, v.topic)

parse_semgrep(r) ==
  Parsed(Level(SEVERITY_MAP_SEMGREP, r.level), NoCve, "",
         IF r.rule = "" THEN "regle-inconnue" ELSE r.rule, r.file, r.line, r.topic)

parse_gitleaks(l) ==
  Parsed("critical", NoCve, "",
         IF l.rule = "" THEN "secret-inconnu" ELSE l.rule, l.file, l.line, l.topic)

(* The first CVE of the template, and where it matched or else the host.     *)
parse_nuclei(i) ==
  Parsed(IF i.level \in Severity THEN i.level ELSE "info",
         IF i.cves = <<>> THEN NoCve ELSE i.cves[1],
         "", i.rule, IF i.matched # "" THEN i.matched ELSE i.host, NoLine, i.topic)

PARSERS(scanner, item) ==
  CASE scanner = "trivy"    -> parse_trivy(item)
    [] scanner = "semgrep"  -> parse_semgrep(item)
    [] scanner = "gitleaks" -> parse_gitleaks(item)
    [] scanner = "nuclei"   -> parse_nuclei(item)

(* A probability in hundredths is published for a CVE, or none is.            *)
ASSUME FeedsAssumption ==
  \A r \in Reports : \A i \in DOMAIN r.items : \A d \in Instants :
    LET cve == PARSERS(r.scanner, r.items[i]).cve
    IN  cve # NoCve => Published[d].epss[cve] \in {NoEpss} \cup 0..100

(* A Trivy finding is its CVE and package, any other one its rule and place; *)
(* line 0 and no line are the same place.                                    *)
make_fingerprint(asset, scanner, p) ==
  IF scanner = "trivy"
  THEN <<asset, p.cve, p.component>>
  ELSE <<asset, scanner, p.rule, p.file, IF p.line = 0 THEN NoLine ELSE p.line>>

Fingerprint(f) == make_fingerprint(f.asset, f.scanner, f)

--------------------------------------------------------------------------------
(* The feeds.                                                                *)

(* fetch_epss_scores(): sorted CVEs in batches; a batch whose request fails  *)
(* is left out of the answer.                                                *)
Batch(cve, cves) == Cardinality({c \in cves : c < cve}) \div BatchSize

Batches(cves) == {Batch(c, cves) : c \in cves}

fetch_epss_scores(cves, failed) ==
  [c \in {d \in cves : Batch(d, cves) \notin failed /\ Published[clock].epss[d] # NoEpss}
     |-> Published[clock].epss[c]]

(* fetch_kev_set(): empty when the request fails.                            *)
fetch_kev_set(down) == IF down THEN {} ELSE Published[clock].kev

(* A lookup that stores NULL for a CVE without an answer.                    *)
MutEnrich(f, scores, kevSet) ==
  [f EXCEPT !.epss = IF f.cve \in DOMAIN scores THEN scores[f.cve] ELSE NoEpss,
            !.kev = f.kev \/ (f.cve # NoCve /\ f.cve \in kevSet)]

(* Only what the feeds answered is written; KEV is never withdrawn.          *)
Enrich(f, scores, kevSet) ==
  [f EXCEPT !.epss = IF f.cve \in DOMAIN scores THEN scores[f.cve] ELSE f.epss,
            !.kev = f.kev \/ (f.cve # NoCve /\ f.cve \in kevSet)]

--------------------------------------------------------------------------------
(* process_scan().                                                           *)

ParsedItems(r) == [i \in DOMAIN r.items |-> PARSERS(r.scanner, r.items[i])]

Prints(r, parsed) == [i \in DOMAIN parsed |-> make_fingerprint(r.asset, r.scanner, parsed[i])]

(* Items of a report whose fingerprint no earlier item has.                  *)
MutFirstSeen(prints) == DOMAIN prints

FirstSeen(prints) == {i \in DOMAIN prints : \A j \in 1..(i - 1) : prints[j] # prints[i]}

Known ==
  [p \in {Fingerprint(findings[id]) : id \in Ids} |->
     CHOOSE id \in Ids : Fingerprint(findings[id]) = p]

(* The row an item is about: the one with its fingerprint, or a new one.     *)
RowOf(prints) ==
  LET first == FirstSeen(prints)
      known == Known
      fresh == {i \in first : prints[i] \notin DOMAIN known}
  IN  [i \in first |-> IF i \in fresh THEN Len(findings) + Cardinality({j \in fresh : j <= i})
                                      ELSE known[prints[i]]]

NewFinding(p, asset, scanner) ==
  [asset |-> asset, scanner |-> scanner, severity |-> p.severity, cve |-> p.cve,
   component |-> p.component, rule |-> p.rule, file |-> p.file, line |-> p.line,
   topic |-> p.topic, epss |-> NoEpss, kev |-> FALSE, status |-> "open",
   firstSeen |-> clock, lastSeen |-> clock]

(* A reopened row that starts anew.                                          *)
MutSeenAgain(f) ==
  IF f.status = "fixed"
  THEN [f EXCEPT !.firstSeen = clock, !.lastSeen = clock, !.status = "open"]
  ELSE [f EXCEPT !.lastSeen = clock]

(* A row the report lists again keeps its severity and its first time.       *)
SeenAgain(f) ==
  [f EXCEPT !.lastSeen = clock, !.status = IF @ = "fixed" THEN "open" ELSE @]

(* The table after the loop over the items: item[id] is what row id is in    *)
(* the report.                                                               *)
Matched(r, parsed, item) ==
  [id \in Ids \cup DOMAIN item |->
     CASE id \notin Ids  -> NewFinding(parsed[item[id]], r.asset, r.scanner)
       [] id \in Ids /\ id \in DOMAIN item    -> SeenAgain(findings[id])
       [] id \in Ids /\ id \notin DOMAIN item -> findings[id]]

Enriched(rows, withCve, scores, kevSet) ==
  [id \in DOMAIN rows |-> IF id \in withCve THEN Enrich(rows[id], scores, kevSet) ELSE rows[id]]

(* The stale query: unresolved rows of the same asset and scanner that a     *)
(* report which lists something does not list.                               *)
Stale(f, seen, asset, scanner) ==
  /\ seen # {}
  /\ f.asset = asset /\ f.scanner = scanner
  /\ f.status \in {"open", "in_progress"}
  /\ Fingerprint(f) \notin seen

CloseStale(rows, seen, asset, scanner) ==
  [id \in DOMAIN rows |-> IF Stale(rows[id], seen, asset, scanner)
                         THEN [rows[id] EXCEPT !.status = "fixed"]
                         ELSE rows[id]]

--------------------------------------------------------------------------------
Init ==
  /\ clock = 0
  /\ findings = <<>>
  /\ journal = {}
  /\ criticality = [a \in Assets |-> "medium"]
  /\ scans = 0
  /\ requests = 0
  /\ fixedAs = <<>>

(* A report is applied: each item new to this scan finds its row or adds     *)
(* one, rows with a CVE are enriched with what the feeds answer (any of the  *)
(* requests to them may fail), the rest of the source's rows is closed.      *)
Scan(r) ==
  LET parsed  == ParsedItems(r)
      prints  == Prints(r, parsed)
      item    == AntiFunction(RowOf(prints))
      matched == Matched(r, parsed, item)
      withCve == {id \in DOMAIN item : parsed[item[id]].cve # NoCve}
      cves    == {matched[id].cve : id \in withCve} \ {NoCve}
  IN  /\ scans < MaxScan
      /\ scans' = scans + 1
      /\ \E failed \in SUBSET Batches(cves), kevDown \in BOOLEAN :
           /\ Cardinality(failed) + (IF kevDown THEN 1 ELSE 0) <= MaxOutage
           /\ findings' = CloseStale(Enriched(matched, withCve, fetch_epss_scores(cves, failed),
                                             fetch_kev_set(kevDown)),
                                    Range(prints), r.asset, r.scanner)
      /\ fixedAs' = [id \in DOMAIN matched |-> IF id \in Ids THEN fixedAs[id] ELSE "never"]
      /\ UNCHANGED <<clock, journal, criticality, requests>>

(* _apply_status_change() on each of the rows, one commit: the rows whose    *)
(* status differs are written and journaled.                                 *)
Triage(ids, new) ==
  LET changed == {id \in ids : findings[id].status # new}
  IN  /\ requests < MaxTriage
      /\ requests' = requests + 1
      /\ findings' = [id \in Ids |-> IF id \in changed
                                     THEN [findings[id] EXCEPT !.status = new]
                                     ELSE findings[id]]
      /\ journal' = journal \cup
           {[finding |-> id, old_status |-> findings[id].status, new_status |-> new,
             created_at |-> clock] : id \in changed}
      /\ fixedAs' = [id \in Ids |->
           IF id \notin changed \/ new # "fixed" THEN fixedAs[id]
           ELSE CASE findings[id].status \notin OPEN_STATUSES -> "resolved"
                  [] is_overdue(findings[id], clock)          -> "overdue"
                  [] OTHER                                    -> "in_time"]
      /\ UNCHANGED <<clock, criticality, scans>>

(* api_set_criticality()                                                     *)
SetCriticality(a, crit) ==
  /\ requests < MaxTriage
  /\ requests' = requests + 1
  /\ criticality' = [criticality EXCEPT ![a] = crit]
  /\ UNCHANGED <<clock, findings, journal, scans, fixedAs>>

Later ==
  /\ \E d \in Instants : d > clock
  /\ clock' = CHOOSE d \in Instants : d > clock /\ \A e \in Instants : e > clock => d <= e
  /\ UNCHANGED <<findings, journal, criticality, scans, requests, fixedAs>>

Next ==
  \/ \E r \in Reports : Scan(r)
  \/ \E ids \in SUBSET Ids, new \in Decisions :
       Cardinality(ids) \in 1..MaxBulk /\ Triage(ids, new)
  \/ \E a \in Assets, crit \in Criticalities : SetCriticality(a, crit)
  \/ Later

Spec == Init /\ [][Next]_vars

(* The columns keep their domains; a row is never seen before its first time *)
(* nor after now, and a decision is about a row that exists.                 *)
TypeOK ==
  /\ clock \in Instants
  /\ \A id \in Ids :
       /\ findings[id].asset \in Assets
       /\ findings[id].severity \in Severity
       /\ findings[id].status \in FindingStatus
       /\ findings[id].epss \in {NoEpss} \cup 0..100
       /\ findings[id].kev \in BOOLEAN
       /\ findings[id].firstSeen <= findings[id].lastSeen
       /\ findings[id].lastSeen <= clock
  /\ \A n \in journal : n.finding \in Ids /\ n.created_at <= clock
  /\ criticality \in [Assets -> Criticality]
  /\ scans \in 0..MaxScan /\ requests \in 0..MaxTriage
  /\ fixedAs \in [Ids -> {"never", "in_time", "overdue", "resolved"}]
================================================================================
