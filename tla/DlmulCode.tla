----------------------------- MODULE DlmulCode -----------------------------
(***************************************************************************)
(* The vector code of src/emulator/run/src/dlmul-synthesis, as data.  A    *)
(* kernel is a sequence of strip-mined loops; the body of a loop is a      *)
(* sequence of the instructions below.  All lengths are in units of Unit   *)
(* elements.  A register type is the number of e32 lanes it has, counted   *)
(* in quarters of an m1 register.                                          *)
(***************************************************************************)
EXTENDS Naturals, Sequences, SequencesExt

CONSTANT Unit        \* how many elements one modelled element stands for

MF4 == 1
MF2 == 2
M1 == 4
M2 == 8
M4 == 16
M8 == 32
\* A type of 16-bit lanes, and the 32-bit type a widening operation makes.
E16(m) == 2 * m

Elems(n) == n \div Unit

\* register r := arr[k * total + offset ..]
Load(r, m, arr, k) == [op |-> "load", r |-> r, m |-> m, arr |-> arr, k |-> k]
\* register r := fn of the registers in of; the names tell operations apart
Calc(r, m, of) == [op |-> "calc", r |-> r, m |-> m, of |-> of]
\* the same, with fixed-false mask bits from element lim on
Masked(r, m, of, lim) ==
    [op |-> "mask", r |-> r, m |-> m, of |-> of, active |-> lim]
Zero(r, m) == [op |-> "zero", r |-> r, m |-> m]
Store(arr, m, r) == [op |-> "store", r |-> r, m |-> m, arr |-> arr]
\* One expansion of a *_CHUNK(K) macro: the K-th part of type m of the whole
\* registers, loads of its own, and the parts it sets in the registers of out.
Chunk(k, m, ld, out) ==
    [op |-> "chunk", k |-> k, m |-> m, ld |-> ld, out |-> out]
\* One expansion of a *_STORE_CHUNK(K) macro.
StoreChunk(k, m, arr, r) ==
    [op |-> "put", k |-> k, r |-> r, m |-> m, arr |-> arr]

\* Loads of the arrays in arrs, each into the register of its name.
Loads(m, arrs) == [j \in 1..Len(arrs) |-> Load(arrs[j], m, arrs[j], 0)]
F == <<"f0", "f1", "f2", "f3", "f4", "f5">>
\* Loads of n stretches of flat_2d_array, each total elements long.
Flats(m, n) == [j \in 1..n |-> Load(F[j], m, "flat", j - 1)]
Chunks(n, m, ld, out) == [j \in 1..n |-> Chunk(j - 1, m, ld, out)]
StoreChunks(n, m, arr, r) == [j \in 1..n |-> StoreChunk(j - 1, m, arr, r)]
NoLoads == [r \in {} |-> 0]
\* out of a chunk that sets one register.
Into(r, of) == [s \in {r} |-> [fn |-> r, of |-> of]]
\* The instructions of ins, run only for the elements below lim.
Below(lim, ins) == [j \in DOMAIN ins |-> [lim |-> lim] @@ ins[j]]

\* for (offset = 0; offset < total; offset += vl_base), vl_base asked once
Strips(total, m, body) ==
    [total |-> total, m |-> m, once |-> TRUE, body |-> body]
\* while (remaining > 0) { vl = step(offset, remaining); ... }
Steps(total, m, body) ==
    [total |-> total, m |-> m, once |-> FALSE, body |-> body]
=============================================================================
