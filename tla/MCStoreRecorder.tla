-------------------------- MODULE MCStoreRecorder --------------------------
(* Instance of StoreRecorder for TLC. *)
EXTENDS StoreRecorderInvariant, TLC
CONSTANTS c1, c2, c3, r1, r2
MCCallers2 == {c1, c2}
MCCallers3 == {c1, c2, c3}
MCRuns1 == {r1}
MCRuns2 == {r1, r2}
MCSymmetry2 == Permutations(MCCallers2)
MCSymmetry3 == Permutations(MCCallers3)
=============================================================================
