-------------------------- MODULE MCVfsProduction --------------------------
(* Instance of VfsProduction for TLC: an invocation for RVV and one for      *)
(* Intel.                                                                    *)
EXTENDS VfsProduction

CONSTANTS p1, p2

Archs == [p \in Procs |-> IF p = p1 THEN "rvv" ELSE "intel"]
=============================================================================
