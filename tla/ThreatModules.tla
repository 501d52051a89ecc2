------------------------------ MODULE ThreatModules ------------------------------
(***************************************************************************)
(* The five module pages of app/web_modules.py over the table of findings: *)
(* vulnerabilities, code analysis, secrets, ATT&CK, inventory.             *)
(***************************************************************************)
EXTENDS Overview

(* Vulnerabilities: the findings with a CVE, whatever their scanner.         *)

(* EPSS_BUCKETS, in hundredths, the upper bound excluded.                    *)
EPSS_BUCKETS == [critique |-> <<75, 101>>, eleve  |-> <<50, 75>>, moyen |-> <<25, 50>>,
                 faible   |-> <<10, 25>>,  minime |-> <<0, 10>>]

(* A bucket whose lower bound is excluded instead of its upper one.          *)
MutInBucket(id, b) ==
  findings[id].epss > EPSS_BUCKETS[b][1] /\ findings[id].epss <= EPSS_BUCKETS[b][2]

InBucket(id, b) ==
  findings[id].epss >= EPSS_BUCKETS[b][1] /\ findings[id].epss < EPSS_BUCKETS[b][2]

WithCve == {id \in Ids : findings[id].cve # NoCve}

vuln_detection_stats ==
  LET open == WithCve \cap OpenIds
  IN  [with_cve    |-> Cardinality(WithCve),
       open        |-> Cardinality(open),
       unique_cves |-> Cardinality({findings[id].cve : id \in WithCve}),
       exploitable |-> Cardinality({id \in open : Exploitable(findings[id])}),
       kev_open    |-> Cardinality({id \in open : findings[id].kev}),
       by_severity |-> SevCounts(open),
       epss_dist   |-> [b \in DOMAIN EPSS_BUCKETS |->
                          Cardinality({id \in open : InBucket(id, b)})],
       inconnu     |-> Cardinality({id \in open : findings[id].epss = NoEpss}),
       top_components |-> Tops([c \in {findings[id].component : id \in open} \ {""} |->
                                  Cardinality({id \in open : findings[id].component = c})],
                               Limit.components),
       priority    |-> FirstByEpss(WithCve \cap Grave, Limit.priority)]

--------------------------------------------------------------------------------
(* Code analysis and secrets: one scanner each.                              *)

OfScanner(sc) == {id \in Ids : findings[id].scanner = sc}

sca_stats ==
  LET base == OfScanner("semgrep")
      open == base \cap OpenIds
  IN  [total       |-> Cardinality(base),
       rules       |-> Cardinality({findings[id].rule : id \in base} \ {""}),
       files       |-> Cardinality({findings[id].file : id \in base} \ {""}),
       open        |-> Cardinality(open),
       top_rules   |-> Tops([r \in {findings[id].rule : id \in open} \ {""} |->
                               Cardinality({id \in open : findings[id].rule = r})],
                            Limit.rules),
       high_open   |-> Cardinality({id \in open : findings[id].severity \in {"critical", "high"}}),
       by_severity |-> SevCounts(open),
       top_files   |-> Tops([p \in {findings[id].file : id \in open} \ {""} |->
                               Cardinality({id \in open : findings[id].file = p})],
                            Limit.files)]

secrets_stats ==
  LET base == OfScanner("gitleaks")
      open == base \cap OpenIds
  IN  [total      |-> Cardinality(base),
       open       |-> Cardinality(open),
       remediated |-> Cardinality({id \in base : findings[id].status = "fixed"}),
       repos      |-> Cardinality({findings[id].asset : id \in open}),
       by_status  |-> [st \in FindingStatus |->
                         Cardinality({id \in base : findings[id].status = st})],
       by_asset   |-> [a \in {findings[id].asset : id \in open} |->
                         Cardinality({id \in open : findings[id].asset = a})]]

--------------------------------------------------------------------------------
(* ATT&CK: the first rule whose keywords match, else the scanner's, else the *)
(* web application's.                                                        *)

ATTACK_TACTICS == {"TA0001", "TA0002", "TA0004", "TA0005", "TA0006", "TA0007", "TA0040"}

(* _ATTACK_RULES in order: tactic and technique.                             *)
ATTACK_RULES ==
  <<<<"TA0006", "T1552">>, <<"TA0001", "T1190">>, <<"TA0002", "T1059">>,
    <<"TA0007", "T1046">>, <<"TA0002", "T1203">>, <<"TA0004", "T1068">>,
    <<"TA0007", "T1083">>, <<"TA0040", "T1499">>, <<"TA0005", "T1553">>,
    <<"TA0001", "T1190">>>>

ATTACK_FALLBACK(scanner) ==
  IF scanner = "gitleaks" THEN <<"TA0006", "T1552">> ELSE <<"TA0001", "T1190">>

classify_attack(id) ==
  IF findings[id].topic \in DOMAIN ATTACK_RULES
  THEN ATTACK_RULES[findings[id].topic]
  ELSE ATTACK_FALLBACK(findings[id].scanner)

attack_matrix ==
  [t \in ATTACK_TACTICS |->
     LET ids == {id \in OpenIds : classify_attack(id)[1] = t}
     IN  [count |-> Cardinality(ids),
          worst |-> Worst(Severities(ids)),
          techniques |-> [k \in {classify_attack(id)[2] : id \in ids} |->
                            Cardinality({id \in ids : classify_attack(id)[2] = k})]]]

attack_totals ==
  [mapped          |-> SumOf([t \in ATTACK_TACTICS |-> attack_matrix[t].count]),
   tactics_covered |-> Cardinality({t \in ATTACK_TACTICS : attack_matrix[t].count > 0}),
   techniques      |-> Cardinality({classify_attack(id)[2] : id \in OpenIds})]

--------------------------------------------------------------------------------
(* Inventory: an asset is covered by the scanners that ever found something. *)

ALL_SCANNERS == {"trivy", "semgrep", "gitleaks"}

Coverage(a) ==
  {findings[id].scanner : id \in {i \in Ids : findings[i].asset = a}} \cap ALL_SCANNERS

(* The penalty of the findings nobody works on.                              *)
MutHygiene(a) ==
  LET sev == SevCounts({id \in Ids : findings[id].asset = a /\ findings[id].status = "open"})
      weight == 12 * sev["critical"] + 5 * sev["high"] + 2 * sev["medium"] + sev["low"]
      points == (200 * Cardinality(Coverage(a)) + 3) \div 6 - weight
  IN  IF points < 0 THEN 0 ELSE points

(* Coverage in percent minus the weight of the open findings, rounded, never *)
(* negative; a third of the scanners is 33.3 points.                         *)
Hygiene(a) ==
  LET sev == SevCounts({id \in OpenIds : findings[id].asset = a})
      weight == 12 * sev["critical"] + 5 * sev["high"] + 2 * sev["medium"] + sev["low"]
      points == (200 * Cardinality(Coverage(a)) + 3) \div 6 - weight
  IN  IF points < 0 THEN 0 ELSE points

inventory_stats ==
  [a \in Assets |->
     LET open == {id \in OpenIds : findings[id].asset = a}
     IN  [open |-> Cardinality(open), by_severity |-> SevCounts(open),
          worst |-> Worst(Severities(open)), coverage |-> Coverage(a),
          hygiene |-> Hygiene(a)]]

inventory_totals ==
  [with_critical       |-> Cardinality({a \in Assets :
                             inventory_stats[a].by_severity["critical"] > 0}),
   incomplete_coverage |-> Cardinality({a \in Assets : Coverage(a) # ALL_SCANNERS})]
================================================================================
