------------------------------- MODULE MCAutoScan -------------------------------
(***************************************************************************)
(* Small instances of the auto-scan: an image scanned by cron and a        *)
(* repository scanned by cron and by the webhook.                          *)
(***************************************************************************)
EXTENDS AutoScanRefinement

CONSTANTS image, repo

MCTargets == {image, repo}

MCScheduled == {image, repo}

MCWatched == {repo}
================================================================================
