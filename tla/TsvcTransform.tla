--------------------------- MODULE TsvcTransform ----------------------------
(***************************************************************************)
(* TSVC: statement reordering, loop distribution and interchange, node     *)
(* splitting, scalar expansion (s2xx, s3251).  A value loaded early is a   *)
(* statement of its own that fills t(i).                                   *)
(***************************************************************************)
EXTENDS TsvcLoops

s2102 == K2("s2102", AnyWidth, [n \in 1..(2 * LEN_2D) |->
             LET i == (n - 1) \div 2
             IN  IF n % 2 = 1 THEN Loop(Up(0, LEN_2D), [j \in Int |-> <<Set(aa(j, i), {})>>])
                              ELSE <<<<Set(aa(i, i), {})>>>>])

\* "statement reordering allows vectorization".  Variant: as written.
s211_AsWritten == K("s211", AnyWidth, Loop(Up(1, LEN_1D - 1), [i \in Int |->
             <<Set(a(i), {b(i - 1), c(i), d(i)}), Set(b(i), {b(i + 1), e(i), d(i)})>>]))
s211 == Reordered("s211", AnyWidth, Loop(Up(1, LEN_1D - 1), [i \in Int |->
             <<Set(a(i), {b(i - 1), c(i), d(i)}), Set(b(i), {b(i + 1), e(i), d(i)})>>]), <<2, 1>>)
s2111 == K2("s2111", None, Loop(Up(1, LEN_2D), [j \in Int |-> Loop(Up(1, LEN_2D), [i \in Int |->
             <<Set(aa(j, i), {aa(j, i - 1), aa(j - 1, i)})>>])]))

\* "dependency needing temporary".
s212 == Reordered("s212", AnyWidth, Loop(Up(0, LEN_1D - 1), [i \in Int |->
             <<Set(a(i), {a(i), c(i)}), Set(t(i), {a(i + 1)}), Set(b(i), {b(i), t(i), d(i)})>>]), <<2, 1, 3>>)
s1213 == Reordered("s1213", AnyWidth, Loop(Up(1, LEN_1D - 1), [i \in Int |->
             <<Set(a(i), {b(i - 1), c(i)}), Set(t(i), {a(i + 1)}), Set(b(i), {t(i), d(i)})>>]), <<2, 3, 1>>)
s221 == K("s221", None, Loop(Up(1, LEN_1D), [i \in Int |->
             <<Set(a(i), {a(i), c(i), d(i)}), Set(b(i), {b(i - 1), a(i), d(i)})>>]))
s222 == K("s222", None, Loop(Up(1, LEN_1D), [i \in Int |->
             <<Set(a(i), {a(i), b(i), c(i)}), Set(e(i), {e(i - 1)}), Set(a(i), {a(i), b(i), c(i)})>>]))
s2233 == K2("s2233", None, [n \in 1..(2 * (LEN_2D - 1)) |->
             LET i == (n + 1) \div 2
             IN  Loop(Up(1, LEN_2D), [j \in Int |->
                      IF n % 2 = 1 THEN <<Set(aa(j, i), {aa(j - 1, i), cc(j, i)})>>
                                   ELSE <<Set(bb(i, j), {bb(i - 1, j), cc(i, j)})>>])])
s2244 == K("s2244", AnyWidth, Loop(Up(0, LEN_1D - 1), [i \in Int |->
             <<Set(a(i + 1), {b(i), e(i)}), Set(a(i), {b(i), c(i)})>>]))
s1244 == Reordered("s1244", AnyWidth, Loop(Up(0, LEN_1D - 1), [i \in Int |->
             <<Set(a(i), {b(i), c(i)}), Set(t(i), {a(i + 1)}), Set(d(i), {a(i), t(i)})>>]), <<2, 1, 3>>)
s2251 == Reordered("s2251", AnyWidth, Loop(Up(0, LEN_1D), [i \in Int |->
             <<Set(a(i), {s(i - 1), e(i)}), Set(s(i), {b(i), c(i)}), Set(b(i), {a(i), d(i)})>>]), <<2, 1, 3>>)
s1251 == K("s1251", AnyWidth, Loop(Up(0, LEN_1D), [i \in Int |->
             <<Set(s(i), {b(i), c(i)}), Set(b(i), {a(i), d(i)}), Set(a(i), {s(i), e(i)})>>]))
s2275 == K2("s2275", AnyWidth, [n \in 1..(2 * LEN_2D) |->
             LET i == (n - 1) \div 2
             IN  IF n % 2 = 1 THEN Loop(Up(0, LEN_2D), [j \in Int |-> <<Set(aa(j, i), {aa(j, i), bb(j, i), cc(j, i)})>>])
                              ELSE <<<<Set(a(i), {b(i), c(i), d(i)})>>>>])
s231 == Swapped("s231", AnyWidth, Loop(Up(0, LEN_2D), [i \in Int |-> Loop(Up(1, LEN_2D), [j \in Int |->
             <<Set(aa(j, i), {aa(j - 1, i), bb(j, i)})>>])]))
s232 == Swapped("s232", AnyWidth, Loop(Up(1, LEN_2D), [j \in Int |-> Loop(Up(1, j + 1), [i \in Int |->
             <<Set(aa(j, i), {aa(j, i - 1), bb(j, i)})>>])]))
s1232 == K2("s1232", AnyWidth, Loop(Up(0, LEN_2D), [j \in Int |-> Loop(Up(j, LEN_2D), [i \in Int |->
             <<Set(aa(i, j), {bb(i, j), cc(i, j)})>>])]))
s233 == K2("s233", None, [n \in 1..(2 * (LEN_2D - 1)) |->
             LET i == (n + 1) \div 2
             IN  Loop(Up(1, LEN_2D), [j \in Int |->
                      IF n % 2 = 1 THEN <<Set(aa(j, i), {aa(j - 1, i), cc(j, i)})>>
                                   ELSE <<Set(bb(j, i), {bb(j, i - 1), cc(j, i)})>>])])
s235 == K2("s235", None, [n \in 1..(2 * LEN_2D) |->
             LET i == (n - 1) \div 2
             IN  IF n % 2 = 1 THEN <<<<Set(a(i), {a(i), b(i), c(i)})>>>>
                              ELSE Loop(Up(1, LEN_2D), [j \in Int |-> <<Set(aa(j, i), {aa(j - 1, i), bb(j, i), a(i)})>>])])

\* "preloading necessary to allow vectorization".
s241 == Reordered("s241", AnyWidth, Loop(Up(0, LEN_1D - 1), [i \in Int |->
             <<Set(a(i), {b(i), c(i), d(i)}), Set(t(i), {a(i + 1)}), Set(b(i), {a(i), t(i), d(i)})>>]), <<2, 1, 3>>)
s242 == K("s242", None, Loop(Up(1, LEN_1D), [i \in Int |-> <<Set(a(i), {a(i - 1), b(i), c(i), d(i)})>>]))
s243 == Reordered("s243", AnyWidth, Loop(Up(0, LEN_1D - 1), [i \in Int |->
             <<Set(a(i), {b(i), c(i), d(i)}), Set(b(i), {a(i), d(i), e(i)}),
               Set(t(i), {a(i + 1)}), Set(a(i), {b(i), t(i), d(i)})>>]), <<3, 1, 2, 4>>)

\* The two writes of one element, in turn: the first statement's goes last.
s244 == Reordered("s244", AnyWidth, Loop(Up(0, LEN_1D - 1), [i \in Int |->
             <<Set(s(i), {b(i), c(i), d(i)}), Set(a(i), {s(i)}), Set(b(i), {c(i), b(i)}),
               Set(t(i), {a(i + 1)}), Set(a(i + 1), {b(i), t(i), d(i)})>>]), <<1, 4, 3, 5, 2>>)
s251 == K("s251", AnyWidth, Loop(Up(0, LEN_1D), [i \in Int |-> <<Set(s(i), {b(i), c(i), d(i)}), Set(a(i), {s(i)})>>]))

\* Variables carried around: expanded, and filled before they are read.
s252 == Reordered("s252", AnyWidth, Loop(Up(0, LEN_1D), [i \in Int |->
             <<Set(s(i), {b(i), c(i)}), Set(a(i), {s(i), t(i - 1)}), Set(t(i), {s(i)})>>]), <<1, 3, 2>>)
s253(m) == K("s253", AnyWidth, Loop(Up(0, LEN_1D), [i \in Int |->
             <<Test({a(i), b(i)})>> \o If(m[i], <<Set(s(i), {a(i), b(i), d(i)}), Set(c(i), {c(i), s(i)}), Set(a(i), {s(i)})>>)]))
s254 == Reordered("s254", AnyWidth, Loop(Up(0, LEN_1D), [i \in Int |->
             <<Set(a(i), {b(i), s(i - 1)}), Set(s(i), {b(i)})>>]), <<2, 1>>)
s255 == Reordered("s255", AnyWidth, Loop(Up(0, LEN_1D), [i \in Int |->
             <<Set(a(i), {b(i), s(i - 1), t(i - 1)}), Set(t(i), {s(i - 1)}), Set(s(i), {b(i)})>>]), <<3, 2, 1>>)
s256 == K2("s256", None, Loop(Up(0, LEN_2D), [i \in Int |-> Loop(Up(1, LEN_2D), [j \in Int |->
             <<Set(a(j), {a(j - 1)}), Set(aa(j, i), {a(j), bb(j, i), d(j)})>>])]))

\* a[i] is the same in all turns of the inner loop: expanded, the last one kept.
s257 == K2("s257", AnyWidth, Loop(Up(1, LEN_2D), [i \in Int |-> Loop(Up(0, LEN_2D), [j \in Int |->
             <<Set(s(j), {aa(j, i), a(i - 1)}), Set(a(i), {s(j)}), Set(aa(j, i), {s(j), bb(j, i)})>>])]))
s258(m) == K("s258", Sometimes, Loop(Up(0, LEN_2D), [i \in Int |->
             <<Test({a(i)}), Set(s(i), IF m[i] THEN {d(i)} ELSE {s(i - 1)}),
               Set(b(i), {s(i), c(i), d(i)}), Set(e(i), {s(i), aa(0, i)})>>]))
s261 == Reordered("s261", AnyWidth, Loop(Up(1, LEN_1D), [i \in Int |->
             <<Set(s(i), {a(i), b(i)}), Set(a(i), {s(i), c(i - 1)}), Set(t(i), {c(i), d(i)}), Set(c(i), {t(i)})>>]),
             <<1, 3, 4, 2>>)
s3251 == K("s3251", AnyWidth, Loop(Up(0, LEN_1D - 1), [i \in Int |->
             <<Set(a(i + 1), {b(i), c(i)}), Set(b(i), {c(i), e(i)}), Set(d(i), {a(i), e(i)})>>]))

Transform ==
    {s2102, s211, s2111, s212, s1213, s221, s222, s2233, s2244, s1244, s2251, s1251, s2275, s231, s232,
     s1232, s233, s235, s241, s242, s243, s244, s251, s252, s254, s255, s256, s257, s261, s3251}
TransformIf(m) == {s253(m), s258(m)}
=============================================================================
