----------------------------- MODULE TsvcLoops ------------------------------
(***************************************************************************)
(* How the TSVC kernels are written down.  A kernel is a sequence of       *)
(* innermost loops (one for each turn of the loops around it), a loop a    *)
(* sequence of iterations, an iteration a sequence of statements, and of a *)
(* statement we keep the cells it writes, reads and accumulates into.  A   *)
(* scalar assigned in every iteration is a cell per iteration, t(i); an    *)
(* index variable is written as what it amounts to, one that moves under a *)
(* condition by the number of times the condition has held.                *)
(***************************************************************************)
EXTENDS Integers, Sequences, FiniteSets

CONSTANTS LEN_1D, LEN_2D,
          Strip             \* the 64 of s423 and s424

ASSUME LoopsAssumption == LEN_1D \in Nat \ {0} /\ LEN_2D \in Nat \ {0} /\ Strip \in Nat \ {0}

\* The arrays of arrays.c, and the scalars of a kernel.
a(i) == <<"a", i>>
b(i) == <<"b", i>>
c(i) == <<"c", i>>
d(i) == <<"d", i>>
e(i) == <<"e", i>>
x(i) == <<"x", i>>
aa(i, j) == <<"aa", i, j>>
bb(i, j) == <<"bb", i, j>>
cc(i, j) == <<"cc", i, j>>
flat(i) == <<"flat_2d_array", i>>
s(i) == <<"s", i, "of this iteration">>
t(i) == <<"t", i, "of this iteration">>
acc == <<"acc">>
out(n) == <<"out", n, "of the kernel">>

\* An access inside the array's declaration (arrays.h).
Declared(cell) ==
    CASE Len(cell) = 1 -> TRUE
      [] Len(cell) = 2 -> cell[2] \in 0..((IF cell[1] = "flat_2d_array" THEN LEN_2D * LEN_2D ELSE LEN_1D) - 1)
      [] Len(cell) = 3 -> cell[1] \in {"aa", "bb", "cc"} => cell[2] \in 0..(LEN_2D - 1) /\ cell[3] \in 0..(LEN_2D - 1)

\* cell = f(reads), cell op= f(reads) where op commutes (a reduction), a
\* condition, and a statement under one.
Set(cell, reads) == [w |-> {cell}, r |-> reads, acc |-> {}]
Acc(cell, reads) == [w |-> {}, r |-> reads, acc |-> {cell}]
Test(reads) == [w |-> {}, r |-> reads, acc |-> {}]
If(p, S) == IF p THEN S ELSE [n \in 1..Len(S) |-> Test({})]

\* for (i = lo; i < hi; i += by), and down from hi to lo.  The body is a function
\* of the loop's variable.
Up(lo, hi) == [n \in 1..(hi - lo) |-> lo + n - 1]
Steps(lo, hi, by) == [n \in 1..((hi - lo + by - 1) \div by) |-> lo + (n - 1) * by]
Down(hi, lo) == [n \in 1..(hi - lo + 1) |-> hi - n + 1]
Loop(its, body) == [n \in DOMAIN its |-> body[its[n]]]

\* Of the first n iterations, those whose condition holds: an index that they move.
Packed(m, n) == Cardinality({i \in 0..(n - 1) : m[i]})

\* The widths at which lanes may run side by side: all, none, or up to a bound.
\* Sometimes: it depends on the data.
AnyWidth == 1000
None == 1
Sometimes == 0

\* A kernel, and how its vector code differs from running each statement, in
\* the order of the text, for all lanes of a chunk of the innermost loop:
\* statements in another order, chunks that end after given iterations, or the
\* lanes taken from the loop around it.
Kernel(name, widths, nest, order, cuts, swap) ==
    [name |-> name, widths |-> widths, nest |-> nest, order |-> order, cuts |-> cuts, swap |-> swap]
K2(name, widths, nest) == Kernel(name, widths, nest, <<>>, {}, FALSE)
K(name, widths, loop) == K2(name, widths, <<loop>>)
Reordered(name, widths, loop, order) == Kernel(name, widths, <<loop>>, order, {}, FALSE)
Cut(name, widths, loop, cuts) == Kernel(name, widths, <<loop>>, <<>>, cuts, FALSE)
Swapped(name, widths, nest) == Kernel(name, widths, nest, <<>>, {}, TRUE)
=============================================================================
