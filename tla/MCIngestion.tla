------------------------------ MODULE MCIngestion ------------------------------
(***************************************************************************)
(* Small instances of the ingestion pipeline: one asset, two Trivy         *)
(* findings (one severe enough to be announced) and one Gitleaks finding.  *)
(***************************************************************************)
EXTENDS IngestionRefinement, TLC

CONSTANTS cve1, cve2, leak, w1, w2

MCFingerprints == {cve1, cve2, leak}

MCSourceOf == (cve1 :> "trivy") @@ (cve2 :> "trivy") @@ (leak :> "gitleaks")

Trivy(items) == [src |-> "trivy", items |-> items]

(* For two workers: reports that meet on the same rows in both orders, one   *)
(* of them with a finding listed twice.                                      *)
MCRacingReports == {Trivy(<<cve1, cve2, cve1>>), Trivy(<<cve1>>), Trivy(<<cve2>>)}

(* Two scans only: reports that leave a row out, or all of them, and another *)
(* source.                                                                   *)
MCLiveReports ==
  {Trivy(<<cve1, cve2>>), Trivy(<<cve2>>), Trivy(<<>>),
   [src |-> "gitleaks", items |-> <<leak>>]}

WorkerSymmetry == Permutations({w1, w2})

MCAlertable == {cve1}

MCTrivyOnly == {cve1, cve2}
================================================================================
