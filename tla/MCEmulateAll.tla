---------------------------- MODULE MCEmulateAll ----------------------------
(* Instances of EmulateAll for TLC. *)
EXTENDS EmulateAllRefinement, TLC

CONSTANTS p1, p2

AllOutcomes == JobOutcome
FewOutcomes == {"ok", "failed", "systemexit"}

\* Both invocations for one architecture, or one for each of two.
SameArch == [p \in Procs |-> "rvv"]
TwoArchs == [p \in Procs |-> IF p = p1 THEN "rvv" ELSE "intel"]

BenchSymmetry == Permutations(Benches)
=============================================================================
