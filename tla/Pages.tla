---------------------------------- MODULE Pages ----------------------------------
(***************************************************************************)
(* The pages of the console read the same table through different queries: *)
(* the overview, the module pages, the posture page and the explorer.  The *)
(* properties say how what one page shows relates to what another one      *)
(* shows, and to what was shown before.                                    *)
(***************************************************************************)
EXTENDS Posture, ThreatModules

CONSTANT PageSizes    \* sizes of a page of the explorer

(* page_size: int = Query(25, ge=1, le=100)                                   *)
ASSUME PagesAssumption == PageSizes \subseteq Nat \ {0}

StillOpen == [NoFilter EXCEPT !.status = OPEN_STATUSES]

--------------------------------------------------------------------------------
(* Every page that counts the open findings finds the same number: the       *)
(* overview and its breakdowns by severity, scanner and asset, the posture's *)
(* SLA and risk bands, ATT&CK, the inventory; the three modules share them   *)
(* out, leaving only those with no CVE of Trivy and Nuclei; and a list of    *)
(* rules that its limit did not cut accounts for all of them.                *)
OpenCountsAgree ==
  LET d == dashboard_stats
      report == report_figures
      unplaced == {id \in OpenIds \ WithCve : findings[id].scanner \in {"trivy", "nuclei"}}
  IN  /\ posture_stats.open_total = d.total_open /\ report.open = d.total_open
      /\ report.fixed = d.by_status["fixed"]
      /\ risk_overview.open_total = d.total_open
      /\ SumOf(risk_overview.bands) = d.total_open
      /\ SumOf(d.open_by_severity) = d.total_open
      /\ SumOf(scanner_breakdown) = d.total_open
      /\ d.by_status["open"] + d.by_status["in_progress"] = d.total_open
      /\ attack_totals.mapped = d.total_open
      /\ \A a \in Assets : inventory_stats[a].open =
           IF a \in DOMAIN d.per_asset THEN d.per_asset[a].open ELSE 0
      /\ vuln_detection_stats.open + sca_stats.open + secrets_stats.open
           + Cardinality(unplaced) = d.total_open
      /\ \A top \in sca_stats.top_rules :
           Cardinality(DOMAIN top) < Limit.rules => SumOf(top) = sca_stats.open
      /\ SumOf(secrets_stats.by_asset) = secrets_stats.open

(* The exploitable and the actively exploited findings are counted three     *)
(* times, over all findings or over those with a CVE: the numbers agree, the *)
(* EPSS histogram loses no finding, its two upper bars are the ones the      *)
(* exploitable threshold counts, and a list of CVEs that its limit did not   *)
(* cut accounts for every finding with one.                                  *)
ThreatCountsAgree ==
  LET v == vuln_detection_stats
  IN  /\ extra_totals.exploitable_open = v.exploitable
      /\ v.epss_dist["critique"] + v.epss_dist["eleve"] = v.exploitable
      /\ SumOf(v.epss_dist) + v.inconnu = v.open
      /\ extra_totals.kev_open = v.kev_open /\ risk_overview.kev_open = v.kev_open
      /\ Cardinality(build_findings_query([StillOpen EXCEPT !.minEpss = 50])) = v.exploitable
      /\ Cardinality(build_findings_query([NoFilter EXCEPT !.hasCve = TRUE])) = v.with_cve
      /\ \A top \in top_cves :
           /\ Cardinality(DOMAIN top) <= v.unique_cves
           /\ Cardinality(DOMAIN top) < Limit.cves => SumOf(top) = v.with_cve

(* The SLA tile of the overview (is_overdue in sla.py), the posture page     *)
(* (its own comparison) and the badges of the explorer's rows agree, and     *)
(* what is due soon is not counted as late.                                  *)
OverdueAgree ==
  LET s == sla_status
  IN  /\ extra_totals.overdue_open = s.overdue /\ report_figures.overdue = s.overdue
      /\ SumOf(s.overdue_by_severity) = s.overdue
      /\ Cardinality({id \in build_findings_query(NoFilter) : finding_row(id).overdue})
           = s.overdue
      /\ s.due_soon <= s.on_track

(* The gravest open finding is the gravest everywhere: in the inventory, in  *)
(* the ATT&CK matrix, on top of the explorer; the overview, where a resolved *)
(* finding may make an asset look worse, never shows it better, and leaves   *)
(* it out of its ranking (a mere "info" excepted) only if that one is full.  *)
GravestAgree ==
  LET gravest == Worst(Severities(OpenIds))
  IN  /\ Worst({inventory_stats[a].worst : a \in Assets} \ {"none"}) = gravest
      /\ Worst({attack_matrix[t].worst : t \in ATTACK_TACTICS} \ {"none"}) = gravest
      /\ \A id \in search_items(StillOpen, "severity", "asc", 1, 1) :
           findings[id].severity = gravest
      /\ \A a \in Assets : inventory_stats[a].open > 0 =>
           /\ ~WorseThan(inventory_stats[a].worst,
                         overview_assets[a].worst)
           /\ inventory_stats[a].worst # "info" => \A top \in top_assets_ranked :
                a \in top \/ Cardinality(top) = Limit.assets

(* The explorer sorts by an SQL expression that is neither rounded nor       *)
(* bounded, the posture and its PDF by the Python score: neither ever puts   *)
(* a finding above one the other puts strictly above it, whatever the asset, *)
(* the feeds and the edges of the bands.  The two lists of the gravest by    *)
(* EPSS are cut at different lengths: what the overview's shows with a CVE,  *)
(* that of the vulnerabilities shows too, and neither leaves out a finding   *)
(* that the explorer, sorted by EPSS, puts strictly above one it shows.      *)
RankingsAgree ==
  /\ \A i, j \in OpenIds :
       Sorted(i, j, "risk", "desc") =>
         /\ ~RiskierInReport(j, i)
         /\ RISK_BANDS[finding_row(i).risk_band] >= RISK_BANDS[finding_row(j).risk_band]
  /\ LET grave == build_findings_query([StillOpen EXCEPT !.severity = {"critical", "high"}])
         priority == vuln_detection_stats.priority
     IN  /\ {id \in prioritized_findings : findings[id].cve # NoCve} \subseteq priority
         /\ \A shown \in prioritized_findings, hidden \in grave \ prioritized_findings :
              ~Ahead(hidden, shown, "epss", "desc")
         /\ \A shown \in priority, hidden \in (grave \cap WithCve) \ priority :
              ~Ahead(hidden, shown, "epss", "desc")

(* With no write in between, the pages of the explorer show each matching    *)
(* finding once, for every order and filter: no row is on two pages or on    *)
(* none, no page is too long, and the counted pages are the ones with rows.  *)
PagesPartition ==
  \A q \in {NoFilter} \X SORT_COLUMNS \X {"desc"}
             \cup {StillOpen, [NoFilter EXCEPT !.hasCve = TRUE]} \X {"severity"} \X {"asc"},
     size \in PageSizes :
    LET rows == build_findings_query(q[1])
        pages == search_pages(q[1], size)
        shown == UNION {{p} \X search_items(q[1], q[2], q[3], p, size) : p \in 1..(pages + 1)}
        facets == search_facets(q[1])
    IN  /\ \A id \in rows : Cardinality({row \in shown : row[2] = id}) = 1
        /\ \A p \in 1..pages : Cardinality({row \in shown : row[1] = p}) <= size
        /\ {row[1] : row \in shown} = IF rows = {} THEN {} ELSE 1..pages
        /\ SumOf(facets.severity) = Cardinality(rows)
        /\ SumOf(facets.status) = Cardinality(rows)

(* The discoveries of the posture's flow are those of the overview's two     *)
(* timelines, except on the flow's first day, of which it may show a part;   *)
(* and the corrections it shows, with those before it, are those of the MTTR.*)
DatesAgree ==
  /\ \A d \in DOMAIN remediation_flow :
       /\ d \in DOMAIN timeline =>
            /\ remediation_flow[d].opened <= timeline[d]
            /\ d # Day(FlowStart) => remediation_flow[d].opened = timeline[d]
       /\ remediation_flow[d].opened > 0 => d \in DiscoveryDays
  /\ \A d \in DOMAIN timeline_by_severity : SumOf(timeline_by_severity[d]) = timeline[d]
  /\ SumOf([d \in DOMAIN remediation_flow |-> remediation_flow[d].closed])
       + Cardinality({id \in DOMAIN fix_dates : fix_dates[id] < FlowStart})
       = mttr_stats.resolved
  /\ SumOf(mttr_stats.by_severity) = mttr_stats.total_hours

(* "MTTR (temps moyen de remediation) [...] calcule sur les findings         *)
(* effectivement corriges" (web_posture.py:79-80): the findings the posture  *)
(* page takes as repaired are those that are fixed.                          *)
MttrCountsTheFixed ==
  DOMAIN fix_dates = {id \in Ids : findings[id].status = "fixed"}

(* The compliance of the posture page is what the analyst saw: a finding     *)
(* that wore the overdue badge when it was last set to fixed is not counted  *)
(* within its SLA, one that did not is, and reopenings by later scans change *)
(* neither. (One set to fixed from a resolved status never wears the badge.) *)
ComplianceIsWhatWasFlagged ==
  \A id \in Ids :
    /\ fixedAs[id] = "in_time" => id \in WithinSla
    /\ fixedAs[id] = "overdue" => id \in DOMAIN fix_dates \ WithinSla
    /\ fixedAs[id] = "never"   => id \notin DOMAIN fix_dates

(* Reports that repeat an item, within a report or between reports, in any   *)
(* order and whatever its status, never make two rows of one finding.        *)
OneRowPerIdentity ==
  \A i, j \in Ids : Fingerprint(findings[i]) = Fingerprint(findings[j]) => i = j

--------------------------------------------------------------------------------
(* What the flow showed for a past day only shrinks: a correction moves to   *)
(* the day the finding was corrected again, and what gets older than the     *)
(* window leaves its first day. Elsewhere the discoveries never change.      *)
PastFlowOnlyMoves ==
  [][\A d \in DOMAIN remediation_flow \cap (DOMAIN remediation_flow)' :
       d < Day(clock) =>
         /\ remediation_flow'[d].closed <= remediation_flow[d].closed
         /\ remediation_flow'[d].opened <= remediation_flow[d].opened
         /\ d > Day(FlowStart') => remediation_flow'[d].opened = remediation_flow[d].opened]_vars

(* An asset's hygiene rises only when one of its findings is resolved or     *)
(* when another scanner finds something on it for the first time.            *)
HygieneRisesByRepair ==
  [][\A a \in Assets : Hygiene(a)' > Hygiene(a) =>
       \/ Coverage(a)' # Coverage(a)
       \/ \E id \in OpenIds : id \notin OpenIds' /\ findings[id].asset = a]_vars

(* A finding's risk falls only if its asset is declared less critical or if  *)
(* FIRST publishes a lower probability: a feed that does not answer, or only *)
(* for some of the batches, never makes a finding look safer.                *)
RiskFallsOnlyByNews ==
  [][\A id \in Ids : Risk(id)' < Risk(id) =>
       \/ LET a == findings[id].asset
          IN  CRITICALITY_BONUS[criticality[a]]' < CRITICALITY_BONUS[criticality[a]]
       \/ /\ findings[id].cve # NoCve
          /\ Published[clock].epss[findings[id].cve] \in 0..(findings[id].epss - 1)]_vars
================================================================================
