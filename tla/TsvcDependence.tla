--------------------------- MODULE TsvcDependence ---------------------------
(***************************************************************************)
(* TSVC: linear dependence, induction variables, global data flow,         *)
(* symbolics and storage classes (s000-s176, s13x, s4xx storage).  The     *)
(* globals n1, n3 and inc are 1 (tsvc_runtime.c).                          *)
(***************************************************************************)
EXTENDS TsvcLoops

s000 == K("s000", AnyWidth, Loop(Up(0, LEN_1D), [i \in Int |-> <<Set(a(i), {b(i), c(i)})>>]))
s111 == K("s111", AnyWidth, Loop(Steps(1, LEN_1D, 2), [i \in Int |-> <<Set(a(i), {a(i - 1), b(i)})>>]))
s1111 == K("s1111", AnyWidth, Loop(Up(0, LEN_1D \div 2), [i \in Int |-> <<Set(a(2 * i), {b(i), c(i), d(i)})>>]))
s1112 == K("s1112", AnyWidth, Loop(Down(LEN_1D - 1, 0), [i \in Int |-> <<Set(a(i), {b(i)})>>]))

\* "one iteration dependency on a(LEN_1D/2) but still vectorizable": in chunks
\* that end with that iteration.
s1113 == Cut("s1113", AnyWidth, Loop(Up(0, LEN_1D), [i \in Int |-> <<Set(a(i), {a(LEN_1D \div 2), b(i)})>>]),
             {LEN_1D \div 2 + 1})

s1115 == K2("s1115", AnyWidth, Loop(Up(0, LEN_2D), [i \in Int |-> Loop(Up(0, LEN_2D), [j \in Int |->
             <<Set(aa(i, j), {aa(i, j), cc(j, i), bb(i, j)})>>])]))
s1119 == K2("s1119", AnyWidth, Loop(Up(1, LEN_2D), [i \in Int |-> Loop(Up(0, LEN_2D), [j \in Int |->
             <<Set(aa(i, j), {aa(i - 1, j), bb(i, j)})>>])]))
s112 == K("s112", AnyWidth, Loop(Down(LEN_1D - 2, 0), [i \in Int |-> <<Set(a(i + 1), {a(i), b(i)})>>]))
s113 == K("s113", AnyWidth, Loop(Up(1, LEN_1D), [i \in Int |-> <<Set(a(i), {a(0), b(i)})>>]))
s114 == K2("s114", AnyWidth, Loop(Up(0, LEN_2D), [i \in Int |-> Loop(Up(0, i), [j \in Int |->
             <<Set(aa(i, j), {aa(j, i), bb(i, j)})>>])]))
s115 == K2("s115", AnyWidth, Loop(Up(0, LEN_2D), [j \in Int |-> Loop(Up(j + 1, LEN_2D), [i \in Int |->
             <<Set(a(i), {a(i), aa(j, i), a(j)})>>])]))

\* The group's last statement reads what the next group writes first: it is
\* loaded before.
s116 == Reordered("s116", AnyWidth, Loop(Steps(0, LEN_1D - 5, 5), [i \in Int |->
             <<Set(a(i), {a(i), a(i + 1)}), Set(a(i + 1), {a(i + 1), a(i + 2)}),
               Set(a(i + 2), {a(i + 2), a(i + 3)}), Set(a(i + 3), {a(i + 3), a(i + 4)}),
               Set(t(i), {a(i + 5)}), Set(a(i + 4), {a(i + 4), t(i)})>>]), <<5, 1, 2, 3, 4, 6>>)

s118 == K2("s118", AnyWidth, Loop(Up(1, LEN_2D), [i \in Int |-> Loop(Up(0, i), [j \in Int |->
             <<Acc(a(i), {bb(j, i), a(i - j - 1)})>>])]))
s119 == K2("s119", AnyWidth, Loop(Up(1, LEN_2D), [i \in Int |-> Loop(Up(1, LEN_2D), [j \in Int |->
             <<Set(aa(i, j), {aa(i - 1, j - 1), bb(i, j)})>>])]))

\* Variant of s121: the loop runs to the end of the array.
s121_ToTheEnd == K("s121", AnyWidth, Loop(Up(0, LEN_1D), [i \in Int |-> <<Set(a(i), {a(i + 1), b(i)})>>]))
s121 == K("s121", AnyWidth, Loop(Up(0, LEN_1D - 1), [i \in Int |-> <<Set(a(i), {a(i + 1), b(i)})>>]))
s122 == K("s122", AnyWidth, Loop(Up(0, LEN_1D), [i \in Int |-> <<Set(a(i), {a(i), b(LEN_1D - (i + 1))})>>]))

\* A distance of 4: four lanes at most.
s1221 == K("s1221", 4, Loop(Up(4, LEN_1D), [i \in Int |-> <<Set(b(i), {b(i - 4), a(i)})>>]))

\* j moves under the if: where a chunk writes depends on the lanes before.
s123(m) == K("s123", None, Loop(Up(0, LEN_1D \div 2), [i \in Int |->
             <<Set(out("j"), {out("j")}), Set(a(i + Packed(m, i)), {out("j"), b(i), d(i), e(i)}), Test({c(i)})>>
             \o If(m[i], <<Set(out("j"), {out("j")}), Set(a(i + Packed(m, i) + 1), {out("j"), c(i), d(i), e(i)})>>)]))
s124(m) == K("s124", AnyWidth, Loop(Up(0, LEN_1D), [i \in Int |->
             <<Test({b(i)})>> \o If(m[i], <<Set(a(i), {b(i), d(i), e(i)})>>)
                              \o If(~m[i], <<Set(a(i), {c(i), d(i), e(i)})>>)]))
s125 == K2("s125", AnyWidth, Loop(Up(0, LEN_2D), [i \in Int |-> Loop(Up(0, LEN_2D), [j \in Int |->
             <<Set(flat(i * LEN_2D + j), {aa(i, j), bb(i, j), cc(i, j)})>>])]))

\* "recurrence in inner loop": the lanes must come from the outer one.
s126 == Swapped("s126", AnyWidth, Loop(Up(0, LEN_2D), [i \in Int |-> Loop(Up(1, LEN_2D), [j \in Int |->
             <<Set(bb(j, i), {bb(j - 1, i), flat(i * LEN_2D + j - 1), cc(j, i)})>>])]))
s127 == K("s127", AnyWidth, Loop(Up(0, LEN_1D \div 2), [i \in Int |->
             <<Set(a(2 * i), {b(i), c(i), d(i)}), Set(a(2 * i + 1), {b(i), d(i), e(i)})>>]))
s128 == K("s128", AnyWidth, Loop(Up(0, LEN_1D \div 2), [i \in Int |->
             <<Set(a(i), {b(2 * i), d(i)}), Set(b(2 * i), {a(i), c(2 * i)})>>]))
s131 == K("s131", AnyWidth, Loop(Up(0, LEN_1D - 1), [i \in Int |-> <<Set(a(i), {a(i + 1), b(i)})>>]))
s132 == K("s132", AnyWidth, Loop(Up(1, LEN_2D), [i \in Int |-> <<Set(aa(0, i), {aa(1, i - 1), b(i), c(1)})>>]))
s1351 == K("s1351", AnyWidth, Loop(Up(0, LEN_1D), [i \in Int |-> <<Set(a(i), {b(i), c(i)})>>]))

\* k starts at the diagonal of row i, at i(i+1)/2 + i, and moves by j+1.
s141 == K2("s141", AnyWidth, Loop(Up(0, LEN_2D), [i \in Int |-> Loop(Up(i, LEN_2D), [j \in Int |->
             <<Set(flat((j * (j + 1)) \div 2 + i), {flat((j * (j + 1)) \div 2 + i), bb(j, i)})>>])]))
s1421 == K("s1421", AnyWidth, Loop(Up(0, LEN_1D \div 2), [i \in Int |-> <<Set(b(i), {b(LEN_1D \div 2 + i), a(i)})>>]))
s151 == K("s151", AnyWidth, Loop(Up(0, LEN_1D - 1), [i \in Int |-> <<Set(a(i), {a(i + 1), b(i)})>>]))
s152 == K("s152", AnyWidth, Loop(Up(0, LEN_1D), [i \in Int |->
             <<Set(b(i), {d(i), e(i)}), Set(a(i), {a(i), b(i), c(i)})>>]))

\* Statements in mutually exclusive branches: c[i+1] of one iteration is read by
\* the next one's other branch, so that branch goes second.
s161(m) == Reordered("s161", AnyWidth, Loop(Up(0, LEN_1D - 1), [i \in Int |->
             <<Test({b(i)})>> \o If(~m[i], <<Set(a(i), {c(i), d(i), e(i)})>>)
                              \o If(m[i], <<Set(c(i + 1), {a(i), d(i)})>>)]), <<1, 3, 2>>)
s1161(m) == K("s1161", AnyWidth, Loop(Up(0, LEN_1D - 1), [i \in Int |->
             <<Test({c(i)})>> \o If(~m[i], <<Set(a(i), {c(i), d(i), e(i)})>>)
                              \o If(m[i], <<Set(b(i), {a(i), d(i)})>>)]))
s162 == K("s162", AnyWidth, Loop(Up(0, LEN_1D - 1), [i \in Int |-> <<Set(a(i), {a(i + 1), b(i), c(i)})>>]))
s171 == K("s171", AnyWidth, Loop(Up(0, LEN_1D), [i \in Int |-> <<Set(a(i), {a(i), b(i)})>>]))
s172 == K("s172", AnyWidth, Loop(Up(0, LEN_1D), [i \in Int |-> <<Set(a(i), {a(i), b(i)})>>]))
s173 == K("s173", AnyWidth, Loop(Up(0, LEN_1D \div 2), [i \in Int |-> <<Set(a(i + LEN_1D \div 2), {a(i), b(i)})>>]))
s174 == K("s174", AnyWidth, Loop(Up(0, LEN_1D \div 2), [i \in Int |-> <<Set(a(i + LEN_1D \div 2), {a(i), b(i)})>>]))
s175 == K("s175", AnyWidth, Loop(Up(0, LEN_1D - 1), [i \in Int |-> <<Set(a(i), {a(i + 1), b(i)})>>]))
s176 == K2("s176", AnyWidth, Loop(Up(0, LEN_1D \div 2), [j \in Int |-> Loop(Up(0, LEN_1D \div 2), [i \in Int |->
             <<Set(a(i), {a(i), b(i + LEN_1D \div 2 - j - 1), c(j)})>>])]))

s2101 == K("s2101", AnyWidth, Loop(Up(0, LEN_2D), [i \in Int |-> <<Set(aa(i, i), {aa(i, i), bb(i, i), cc(i, i)})>>]))
s421 == K("s421", AnyWidth, Loop(Up(0, LEN_1D - 1), [i \in Int |-> <<Set(c(i), {c(i + 1), a(i)})>>]))

\* xx points into flat_2d_array: 4, 64 and 63 cells on.  "vectorizeable in strips
\* of 64 or less" is s424, where the writes run ahead of the reads.
s422 == K("s422", AnyWidth, Loop(Up(0, LEN_1D), [i \in Int |-> <<Set(flat(i + 4), {flat(i + 8), a(i)})>>]))
s423 == K("s423", AnyWidth, Loop(Up(0, LEN_1D - 1), [i \in Int |-> <<Set(flat(i + 1), {flat(i + Strip), a(i)})>>]))
s424 == K("s424", Strip, Loop(Up(0, LEN_1D - 1), [i \in Int |->
             <<Set(flat(i + (Strip - 1) + 1), {flat(i), a(i)})>>]))
s431 == K("s431", AnyWidth, Loop(Up(0, LEN_1D), [i \in Int |-> <<Set(a(i), {a(i), b(i)})>>]))

Dependence ==
    {s000, s111, s1111, s1112, s1113, s1115, s1119, s112, s113, s114, s115, s116, s118, s119, s121,
     s122, s1221, s125, s126, s127, s128, s131, s132, s1351, s141, s1421, s151, s152, s162, s171,
     s172, s173, s174, s175, s176, s2101, s421, s422, s423, s424, s431}
DependenceIf(m) == {s123(m), s124(m), s161(m), s1161(m)}
=============================================================================
