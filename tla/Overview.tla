-------------------------------- MODULE Overview --------------------------------
(***************************************************************************)
(* What app/web_stats.py computes over the table of findings: the counters *)
(* and rankings of the overview page, and the explorer's filters, order    *)
(* and pages.                                                              *)
(***************************************************************************)
EXTENDS Findings, FiniteSetsExt

CONSTANT Limit    \* rows kept of the lists that are cut: [rules, files, components,
                  \* cves, assets, prioritized, priority]

(* The limits of the code, 8, 8, 8, 8, 6, 8 and 12, satisfy what the         *)
(* properties rely on.                                                       *)
ASSUME LimitAssumption ==
  /\ \A list \in {"rules", "files", "components", "cves", "assets", "prioritized", "priority"} :
       Limit[list] \in Nat \ {0}
  /\ Limit.prioritized <= Limit.priority

(* The sum of the values of a function.                                      *)
SumOf(f) == MapThenSumSet(LAMBDA k : f[k], DOMAIN f)

Risk(id) == risk_score(findings[id], criticality[findings[id].asset])

RiskSql(id) == risk_score_sql(findings[id], criticality[findings[id].asset])

OpenIds == {id \in Ids : findings[id].status \in OPEN_STATUSES}

OfSeverity(ids, sev) == {id \in ids : findings[id].severity = sev}

(* ORDER BY count DESC LIMIT n, or a sort and a slice: the keys it may keep. *)
(* Equal counts are cut anywhere.                                            *)
TopKeys(count, n) ==
  {shown \in SUBSET DOMAIN count :
     /\ Cardinality(shown) = IF Cardinality(DOMAIN count) < n THEN Cardinality(DOMAIN count) ELSE n
     /\ \A k \in shown, l \in DOMAIN count \ shown : count[l] <= count[k]}

Tops(count, n) == {Restrict(count, shown) : shown \in TopKeys(count, n)}

(* The count per severity of a set of rows, every severity present.          *)
SevCounts(ids) == [sev \in Severity |-> Cardinality(OfSeverity(ids, sev))]

Severities(ids) == {findings[id].severity : id \in ids}

--------------------------------------------------------------------------------
(* The overview page.                                                        *)

(* asset_stats(), and the entry of an asset in dashboard_stats()["per_asset"]*)
asset_stats(a) ==
  LET own == {id \in Ids : findings[id].asset = a}
  IN  [total |-> Cardinality(own),
       open  |-> Cardinality(own \cap OpenIds),
       by_severity |-> SevCounts(own)]

dashboard_stats ==
  [total_findings   |-> Cardinality(Ids),
   total_open       |-> Cardinality(OpenIds),
   by_severity      |-> SevCounts(Ids),
   open_by_severity |-> SevCounts(OpenIds),
   by_status        |-> [st \in FindingStatus |->
                           Cardinality({id \in Ids : findings[id].status = st})],
   per_asset        |-> [a \in {findings[id].asset : id \in Ids} |-> asset_stats(a)]]

extra_totals ==
  [exploitable_open |-> Cardinality({id \in OpenIds : Exploitable(findings[id])}),
   fixed            |-> Cardinality({id \in Ids : findings[id].status = "fixed"}),
   kev_open         |-> Cardinality({id \in OpenIds : findings[id].kev}),
   overdue_open     |-> Cardinality({id \in OpenIds : is_overdue(findings[id], clock)})]

(* A breakdown without the findings somebody works on.                       *)
MutScannerBreakdown ==
  [sc \in {findings[id].scanner : id \in OpenIds} |->
     Cardinality({id \in Ids : findings[id].scanner = sc /\ findings[id].status = "open"})]

scanner_breakdown ==
  [sc \in {findings[id].scanner : id \in OpenIds} |->
     Cardinality({id \in OpenIds : findings[id].scanner = sc})]

(* timeline() and timeline_by_severity(): discoveries per day, for the last  *)
(* days that have any.                                                       *)
DiscoveryDays == {Day(findings[id].firstSeen) : id \in Ids}

FoundOn(d) == {id \in Ids : Day(findings[id].firstSeen) = d}

LastDays(limit) ==
  {d \in DiscoveryDays : Cardinality({e \in DiscoveryDays : e > d}) < limit}

timeline == [d \in LastDays(30) |-> Cardinality(FoundOn(d))]

timeline_by_severity == [d \in LastDays(24) |-> SevCounts(FoundOn(d))]

(* The assets of api_overview(): the worst severity is over every status.    *)
overview_assets ==
  [a \in Assets |->
     LET s == asset_stats(a)
     IN  [total |-> s.total, open |-> s.open,
          worst |-> Worst({sev \in Severity : s.by_severity[sev] > 0})]]

(* top_assets_ranked(): the weights are those of every status, not of the    *)
(* open findings only.                                                       *)
AssetWeight(a) ==
  LET n == asset_stats(a).by_severity
  IN  1000 * n["critical"] + 100 * n["high"] + 10 * n["medium"] + n["low"]

WeightedAssets == {a \in {findings[id].asset : id \in Ids} : AssetWeight(a) > 0}

top_assets_ranked == TopKeys([a \in WeightedAssets |-> AssetWeight(a)], Limit.assets)

(* prioritized_findings(): the gravest open findings by EPSS, ties by id.    *)
Grave == {id \in OpenIds : findings[id].severity \in {"critical", "high"}}

PrioritizedBefore(i, j) ==
  \/ findings[i].epss > findings[j].epss
  \/ findings[i].epss = findings[j].epss /\ i < j

FirstByEpss(rows, n) ==
  {id \in rows : Cardinality({j \in rows : PrioritizedBefore(j, id)}) < n}

prioritized_findings == FirstByEpss(Grave, Limit.prioritized)

(* top_cves(): the CVEs found most often.                                    *)
Cves == {findings[id].cve : id \in Ids} \ {NoCve}

top_cves == Tops([c \in Cves |-> Cardinality({id \in Ids : findings[id].cve = c})], Limit.cves)

--------------------------------------------------------------------------------
(* The explorer.                                                             *)

AnyOf == {}

NoFilter == [severity |-> AnyOf, status |-> AnyOf, scanner |-> AnyOf, asset |-> AnyOf,
             hasCve |-> FALSE, kev |-> FALSE, minEpss |-> NoEpss]

(* build_findings_query(): an empty choice does not filter.                  *)
build_findings_query(f) ==
  {id \in Ids :
     /\ f.severity # AnyOf => findings[id].severity \in f.severity
     /\ f.status # AnyOf   => findings[id].status \in f.status
     /\ f.scanner # AnyOf  => findings[id].scanner \in f.scanner
     /\ f.asset # AnyOf    => findings[id].asset \in f.asset
     /\ f.hasCve           => findings[id].cve # NoCve
     /\ f.kev              => findings[id].kev
     /\ f.minEpss # NoEpss => findings[id].epss # NoEpss /\ findings[id].epss >= f.minEpss}

(* Severities by growing rank.                                               *)
MutSortKey(id, sort) ==
  CASE sort = "severity"  -> -SeverityOrder(findings[id].severity)
    [] sort = "epss"      -> findings[id].epss
    [] sort = "risk"      -> RiskSql(id)
    [] sort = "last_seen" -> findings[id].lastSeen

(* The column a sort reads; an absent EPSS sorts below zero.                 *)
SortKey(id, sort) ==
  CASE sort = "severity"  -> SeverityOrder(findings[id].severity)
    [] sort = "epss"      -> findings[id].epss
    [] sort = "risk"      -> RiskSql(id)
    [] sort = "last_seen" -> findings[id].lastSeen

(* The columns whose order another page relies on; title and status sort    *)
(* like them.                                                                *)
SORT_COLUMNS == {"severity", "epss", "risk", "last_seen"}

Ahead(i, j, sort, order) == IF order = "desc" THEN SortKey(i, sort) > SortKey(j, sort)
                                              ELSE SortKey(i, sort) < SortKey(j, sort)

(* The order without the id that settles ties.                               *)
MutSorted(i, j, sort, order) == Ahead(i, j, sort, order)

(* _sorted(): ties go to the newest id, whatever the direction.              *)
Sorted(i, j, sort, order) ==
  \/ Ahead(i, j, sort, order)
  \/ ~Ahead(j, i, sort, order) /\ i > j

(* OFFSET and LIMIT: the rows whose place in the order is on the page.       *)
search_items(f, sort, order, page, size) ==
  LET rows == build_findings_query(f)
      Offset(id) == Cardinality({j \in rows : Sorted(j, id, sort, order)})
  IN  {id \in rows : Offset(id) >= (page - 1) * size /\ Offset(id) < page * size}

search_pages(f, size) ==
  LET total == Cardinality(build_findings_query(f))
  IN  IF total = 0 THEN 1 ELSE (total + size - 1) \div size

(* What a row of the table says beyond its columns.                          *)
finding_row(id) ==
  [risk      |-> Risk(id),
   risk_band |-> risk_band(Risk(id)),
   overdue   |-> is_overdue(findings[id], clock)]

(* facets: the counts of the whole filtered set.                             *)
search_facets(f) ==
  LET rows == build_findings_query(f)
  IN  [severity |-> SevCounts(rows),
       status   |-> [st \in FindingStatus |->
                       Cardinality({id \in rows : findings[id].status = st})]]
================================================================================
