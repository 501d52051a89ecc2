------------------------------- MODULE MCReadCache -------------------------------
(***************************************************************************)
(* Small instances of the read cache: two readers, two API writers.        *)
(***************************************************************************)
EXTENDS ReadCache, TLC

CONSTANTS r1, r2, w1, w2

MCReaders == {r1, r2}

MCWriters == {w1, w2}

MCSymmetry == Permutations(MCReaders) \cup Permutations(MCWriters)
================================================================================
