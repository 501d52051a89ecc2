--------------------------------- MODULE Posture ---------------------------------
(***************************************************************************)
(* Deadlines, time to repair, flow and risk: app/web_posture.py over the   *)
(* table of findings and its journal.                                      *)
(***************************************************************************)
EXTENDS Overview

(* _fix_dates(): the last transition to "fixed" of each finding that has one.*)
FixNotes(id) == {n \in journal : n.finding = id /\ n.new_status = "fixed"}

(* The first correction instead of the last.                                 *)
MutFixDates == [id \in {i \in Ids : FixNotes(i) # {}} |->
                  Min({n.created_at : n \in FixNotes(id)})]

fix_dates == [id \in {i \in Ids : FixNotes(i) # {}} |->
                Max({n.created_at : n \in FixNotes(id)})]

(* The instant of the deadline counted as late.                              *)
MutOverdue(id) == clock >= due_date(findings[id])

(* sla_status(): overdue, or due within three days.                          *)
Overdue(id) == clock > due_date(findings[id])

DueSoon(id) == ~Overdue(id) /\ due_date(findings[id]) - clock <= 24 * 3

sla_status ==
  LET overdue == {id \in OpenIds : Overdue(id)}
  IN  [open_total          |-> Cardinality(OpenIds),
       overdue             |-> Cardinality(overdue),
       overdue_by_severity |-> SevCounts(overdue),
       due_soon            |-> Cardinality({id \in OpenIds : DueSoon(id)}),
       on_track            |-> Cardinality(OpenIds) - Cardinality(overdue)]

(* mttr_stats(): every finding that was ever set to fixed, whatever it is    *)
(* today, from its discovery to its last correction.                         *)
RepairHours(id) == fix_dates[id] - findings[id].firstSeen

WithinSla ==
  {id \in DOMAIN fix_dates : RepairHours(id) <= 24 * SLA_DAYS[findings[id].severity]}

mttr_stats ==
  LET resolved == DOMAIN fix_dates
      n == Cardinality(resolved)
  IN  [resolved    |-> n,
       total_hours |-> SumOf([id \in resolved |-> RepairHours(id)]),
       by_severity |-> [sev \in Severities(resolved) |->
                          SumOf([id \in OfSeverity(resolved, sev) |-> RepairHours(id)])],
       within      |-> Cardinality(WithinSla)]

(* remediation_flow(): discoveries and corrections per day, of what is not   *)
(* older than 30 times 24 hours: the first of its days is cut at the time of *)
(* day it is now.                                                            *)
FlowWindow == 30

FlowStart == clock - 24 * FlowWindow

(* The day a finding was last seen instead of first.                         *)
MutOpened(d) == Cardinality({id \in Ids : Day(findings[id].lastSeen) = d})

Opened(d) ==
  Cardinality({id \in Ids : findings[id].firstSeen >= FlowStart /\ Day(findings[id].firstSeen) = d})

Closed(d) ==
  Cardinality({id \in DOMAIN fix_dates : fix_dates[id] >= FlowStart /\ Day(fix_dates[id]) = d})

remediation_flow ==
  [d \in Day(FlowStart)..Day(clock) |-> [opened |-> Opened(d), closed |-> Closed(d)]]

(* risk_overview(): bands of the open findings, and the order of its list of *)
(* the riskiest.                                                             *)
risk_overview ==
  [open_total |-> Cardinality(OpenIds),
   kev_open   |-> Cardinality({id \in OpenIds : findings[id].kev}),
   bands      |-> [b \in DOMAIN RISK_BANDS |->
                     Cardinality({id \in OpenIds : risk_band(Risk(id)) = b})]]

RiskierInReport(i, j) == Risk(i) > Risk(j)

(* The totals of posture_stats() and the figures of the PDF report.          *)
posture_stats ==
  [overdue    |-> sla_status.overdue,
   due_soon   |-> sla_status.due_soon,
   within     |-> mttr_stats.within,
   kev_open   |-> risk_overview.kev_open,
   open_total |-> sla_status.open_total]

report_figures ==
  [open    |-> dashboard_stats.total_open,
   kev     |-> extra_totals.kev_open,
   overdue |-> posture_stats.overdue,
   fixed   |-> extra_totals.fixed]
================================================================================
