-------------------------------- MODULE MCPages --------------------------------
(***************************************************************************)
(* A small instance of the findings table and its pages: an image scanned  *)
(* by Trivy and a site scanned by Nuclei and Gitleaks.                     *)
(***************************************************************************)
EXTENDS Pages, TLC

Vuln(cve, level) ==
  [cve |-> cve, component |-> "openssl", level |-> level, topic |-> 0]

Leak(line) == [rule |-> "aws-key", file |-> "settings", line |-> line, topic |-> 1]

Rule(rule, topic) ==
  [rule |-> rule, file |-> "db", line |-> 7, level |-> "WARNING", topic |-> topic]

Template(cves) ==
  [rule |-> "outdated", level |-> "medium", cves |-> cves, matched |-> "", host |-> "site",
   topic |-> 3]

Report(asset, scanner, items) == [asset |-> asset, scanner |-> scanner, items |-> items]

(* A report with two CVEs, one after an upgrade, a template that gained its  *)
(* CVE, a leak listed twice, two rules of code analysis.                     *)
MCReports ==
  {Report("image", "trivy", <<Vuln(1, "CRITICAL"), Vuln(2, "HIGH")>>),
   Report("image", "trivy", <<Vuln(2, "HIGH")>>),
   Report("site", "nuclei", <<Template(<<>>)>>),
   Report("site", "nuclei", <<Template(<<1>>)>>),
   Report("site", "gitleaks", <<Leak(0), Leak(NoLine)>>),
   Report("site", "semgrep", <<Rule("py.sqli", 2), Rule("py.debug", 0)>>)}

MCAssets == {"image", "site"}

(* The hour of the first report, the one a critical finding of it is due, and*)
(* one that is 12 hours late for a high one and cuts the flow's first day.   *)
MCInstants == {0, 24 * 7, 24 * 30 + 12}

(* FIRST knows both CVEs, then revises them; CISA lists one of them at last. *)
MCPublished ==
  [t \in MCInstants |-> IF t < 720 THEN [epss |-> <<50, 75>>, kev |-> {}]
                                    ELSE [epss |-> <<NoEpss, 10>>, kev |-> {1}]]

MCDecisions == {"fixed", "in_progress"}

MCCriticalities == {"crown"}

(* Lists short enough to be cut.                                             *)
MCLimit ==
  [rules |-> 1, files |-> 1, components |-> 1, cves |-> 1, assets |-> 1,
   prioritized |-> 1, priority |-> 2]
================================================================================
