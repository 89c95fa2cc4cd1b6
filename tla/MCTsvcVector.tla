---------------------------- MODULE MCTsvcVector ----------------------------
(* Every kernel: short arrays, conditions that hold always, never, in every *)
(* second iteration and once.                                               *)
EXTENDS TsvcVector

Everyone == {id[1] : id \in DOMAIN Kernels}
FourMasks == <<[i \in 0..(LEN_1D - 1) |-> TRUE], [i \in 0..(LEN_1D - 1) |-> FALSE],
               [i \in 0..(LEN_1D - 1) |-> i % 2 = 0], [i \in 0..(LEN_1D - 1) |-> i = 5]>>
=============================================================================
