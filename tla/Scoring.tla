--------------------------------- MODULE Scoring ---------------------------------
(***************************************************************************)
(* Severities, deadlines and the risk score: app/sla.py, app/risk.py and   *)
(* the constants of app/web_stats.py. Pure operators over a finding record.*)
(*                                                                         *)
(* An EPSS score is in hundredths (0..100), NoEpss stands for NULL. A      *)
(* score before rounding is in quarters of a point, so that EPSS * 25 is   *)
(* exact. Times are hours.                                                 *)
(***************************************************************************)
EXTENDS Integers, FiniteSets

SEVERITIES == <<"critical", "high", "medium", "low", "info">>

Severity == {SEVERITIES[i] : i \in DOMAIN SEVERITIES}

(* Position in the order of display, 1 for the gravest.                      *)
SeverityOrder(sev) == CHOOSE i \in DOMAIN SEVERITIES : SEVERITIES[i] = sev

WorseThan(s, t) == SeverityOrder(s) < SeverityOrder(t)

(* The gravest of a set of severities, "none" for an empty one.              *)
Worst(sevs) == IF sevs = {} THEN "none"
               ELSE CHOOSE s \in sevs : \A t \in sevs : ~WorseThan(t, s)

FindingStatus == {"open", "in_progress", "fixed", "false_positive", "accepted"}

OPEN_STATUSES == {"open", "in_progress"}

NoEpss == -1

EPSS_EXPLOITABLE == 50

(* score is not None and score >= EPSS_EXPLOITABLE                           *)
Exploitable(f) == f.epss # NoEpss /\ f.epss >= EPSS_EXPLOITABLE

--------------------------------------------------------------------------------
(* Deadlines.                                                                *)

(* The day of an instant, on which the charts count.                         *)
Day(t) == t \div 24

SLA_DAYS == [critical |-> 7, high |-> 30, medium |-> 90, low |-> 180, info |-> 365]

due_date(f) == f.firstSeen + 24 * SLA_DAYS[f.severity]

is_overdue(f, now) == f.status \in OPEN_STATUSES /\ now > due_date(f)

--------------------------------------------------------------------------------
(* Risk.                                                                     *)

SEVERITY_BASE == [critical |-> 45, high |-> 30, medium |-> 15, low |-> 6, info |-> 2]

CRITICALITY_BONUS == [crown |-> 15, high |-> 8, medium |-> 0, low |-> -8]

Criticality == DOMAIN CRITICALITY_BONUS

EPSS_WEIGHT == 25

KEV_BONUS == 25

(* round(): to the nearest point, a half to the even one.                    *)
RoundQuarters(q) ==
  LET point == q \div 4
      rest  == q % 4
  IN  IF rest = 3 \/ (rest = 2 /\ point % 2 = 1) THEN point + 1 ELSE point

EpssQuarters(f) == IF f.epss = NoEpss THEN 0 ELSE (4 * EPSS_WEIGHT * f.epss) \div 100

KevQuarters(f) == IF f.kev THEN 4 * KEV_BONUS ELSE 0

(* The expression without the asset's criticality.                           *)
MutRiskSql(f, crit) == 4 * SEVERITY_BASE[f.severity] + EpssQuarters(f) + KevQuarters(f)

(* risk_score_sql(): the expression the explorer sorts by, neither rounded   *)
(* nor bounded.                                                              *)
risk_score_sql(f, crit) ==
  4 * SEVERITY_BASE[f.severity] + EpssQuarters(f) + KevQuarters(f)
    + 4 * CRITICALITY_BONUS[crit]

(* risk_score(): the sum of the same terms, rounded and brought into 0..100. *)
risk_score(f, crit) ==
  LET point == RoundQuarters(4 * SEVERITY_BASE[f.severity] + EpssQuarters(f)
                               + KevQuarters(f) + 4 * CRITICALITY_BONUS[crit])
  IN  CASE point < 0   -> 0
        [] point > 100 -> 100
        [] OTHER       -> point

RISK_BANDS == [critical |-> 75, high |-> 50, medium |-> 25, low |-> 0]

(* risk_band(): the first band whose lower bound the score reaches.          *)
risk_band(score) ==
  CHOOSE b \in DOMAIN RISK_BANDS :
    /\ score >= RISK_BANDS[b]
    /\ \A c \in DOMAIN RISK_BANDS : score >= RISK_BANDS[c] => RISK_BANDS[c] <= RISK_BANDS[b]

================================================================================
