------------------------------ MODULE MCWorkspace ------------------------------
(***************************************************************************)
(* A small instance of the explorer: two findings of two scanners on two   *)
(* pages, and two analysts with the same drawer open.                      *)
(***************************************************************************)
EXTENDS Workspace, TLC

CONSTANTS ana, bob

MCIds == 1..2

MCScannerOf == <<"trivy", "nuclei">>

MCSymmetry == Permutations({ana, bob})
================================================================================
