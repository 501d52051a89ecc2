------------------------------- MODULE MCTargetJob -------------------------------
(***************************************************************************)
(* A small instance of the sessions: a job on a repository with two        *)
(* applicable scanners, uploads and creations of its asset, two triages.   *)
(***************************************************************************)
EXTENDS TargetJobRefinement, TLC

CONSTANTS f1, f2, f3, r1, r2, w1

(* In the order of the primary keys: two known findings and a new one.       *)
MCFindings == <<f1, f2, f3>>

MCKnown == {f1, f2}

MCSourceOf == [f \in {f1, f2, f3} |-> "trivy"]

MCNames == {"shop"}

MCProcess == [r \in {r1, r2} |-> "uvicorn"]

Shop(kind) == [kind |-> kind, name |-> "shop"]

Triaged(payload, st, note) ==
  [kind |-> "triage", ids |-> {payload[i] : i \in DOMAIN payload}, payload |-> payload,
   status |-> st, note |-> note]

(* The two requests may triage the same rows, selected in two orders, one of *)
(* them with a note; the job's scan closes f1 while it holds f2.             *)
MCOpsOf ==
  [r \in {r1, r2} |->
     {Shop("upload"), Shop("create"),
      IF r = r1 THEN Triaged(<<f2, f1>>, "accepted", FALSE)
                ELSE Triaged(<<f1, f2>>, "fixed", TRUE)}]

MCTarget ==
  [name |-> "shop", type |-> "repository", scanners |-> <<"nuclei", "semgrep", "trivy">>]

MCReportOf == [trivy |-> <<f3, f2>>, semgrep |-> <<>>, nuclei |-> <<>>]
================================================================================
