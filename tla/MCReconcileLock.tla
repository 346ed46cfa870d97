----------------------------- MODULE MCReconcileLock -----------------------------
(* Two processes, a thread beside the main one, two directories that replace    *)
(* each other at one path and one behind a link.                                *)
EXTENDS ReconcileLock, TLC

CONSTANTS p1, p2, main, helper, d1, d2, d3

MCProcs == {p1, p2}
MCCallers == {main, helper}
MCDirs == {d1, d2, d3}
MCResolved == [d \in MCDirs |-> IF d = d3 THEN "linked" ELSE "here"]
Symmetry == Permutations(MCProcs) \cup Permutations({d1, d2})
=============================================================================
