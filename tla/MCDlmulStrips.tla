--------------------------- MODULE MCDlmulStrips ---------------------------
(***************************************************************************)
(* Every case of DlmulStrips, register lengths and array sizes.  One       *)
(* modelled element stands for Unit; the sizes are those dlmul_bench.py    *)
(* and dlmul_microbench.py pass.                                           *)
(***************************************************************************)
EXTENDS DlmulStrips

Numbered(S) == FoldSet(LAMBDA c, seq : Append(seq, c), << >>, S)
AllBench == Numbered(BenchCases)
AllMicro == Numbered(MicroCases)
=============================================================================
