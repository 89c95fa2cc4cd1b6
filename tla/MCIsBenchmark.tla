---------------------------- MODULE MCIsBenchmark ---------------------------
(* Every array of six keys for rank, two buckets of two keys each. *)
EXTENDS IsBenchmark

Tests == {0, 5}
AllArrays == [0..5 -> 0..3]
=============================================================================
