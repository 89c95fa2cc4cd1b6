---------------------------- MODULE TsvcControl -----------------------------
(***************************************************************************)
(* TSVC: control flow, crossing thresholds, loop peeling, packing, search  *)
(* loops, non-logical ifs and exits (s27x-s29x, s33x, s34x, s44x, s48x).   *)
(* m says of each iteration whether its condition holds.                   *)
(***************************************************************************)
EXTENDS TsvcLoops

s271(m) == K("s271", AnyWidth, Loop(Up(0, LEN_1D), [i \in Int |->
             <<Test({b(i)})>> \o If(m[i], <<Set(a(i), {a(i), b(i), c(i)})>>)]))

\* The inner conditions of s2710 are the same in every iteration.
s2710(m) == K("s2710", AnyWidth, Loop(Up(0, LEN_1D), [i \in Int |->
             <<Test({a(i), b(i)})>>
             \o If(m[i], <<Set(a(i), {a(i), b(i), d(i)}),
                           Set(c(i), IF LEN_1D > 10 THEN {c(i), d(i)} ELSE {d(i), e(i)})>>)
             \o If(~m[i], <<Set(b(i), {a(i), e(i)}), Set(c(i), {a(i), d(i)})>>)]))
s2711(m) == K("s2711", AnyWidth, Loop(Up(0, LEN_1D), [i \in Int |->
             <<Test({b(i)})>> \o If(m[i], <<Set(a(i), {a(i), b(i), c(i)})>>)]))
s2712(m) == K("s2712", AnyWidth, Loop(Up(0, LEN_1D), [i \in Int |->
             <<Test({a(i), b(i)})>> \o If(m[i], <<Set(a(i), {a(i), b(i), c(i)})>>)]))
s272(m) == K("s272", AnyWidth, Loop(Up(0, LEN_1D), [i \in Int |->
             <<Test({e(i)})>> \o If(m[i], <<Set(a(i), {a(i), c(i), d(i)}), Set(b(i), {b(i), c(i)})>>)]))
s273(m) == K("s273", AnyWidth, Loop(Up(0, LEN_1D), [i \in Int |->
             <<Set(a(i), {a(i), d(i), e(i)}), Test({a(i)})>> \o If(m[i], <<Set(b(i), {b(i), d(i), e(i)})>>)
             \o <<Set(c(i), {c(i), a(i), d(i)})>>]))
s274(m) == K("s274", AnyWidth, Loop(Up(0, LEN_1D), [i \in Int |->
             <<Set(a(i), {c(i), e(i), d(i)}), Test({a(i)})>>
             \o If(m[i], <<Set(b(i), {a(i), b(i)})>>) \o If(~m[i], <<Set(a(i), {d(i), e(i)})>>)]))

\* "if around inner loop, interchanging needed".
s275(m) == Swapped("s275", AnyWidth, Loop(Up(0, LEN_2D), [i \in Int |-> Loop(Up(1, LEN_2D), [j \in Int |->
             <<Test({aa(0, i)})>> \o If(m[i], <<Set(aa(j, i), {aa(j - 1, i), bb(j, i), cc(j, i)})>>)])]))
s276 == K("s276", AnyWidth, Loop(Up(0, LEN_1D), [i \in Int |->
             If(i + 1 < LEN_1D \div 2, <<Set(a(i), {a(i), b(i), c(i)})>>)
             \o If(i + 1 >= LEN_1D \div 2, <<Set(a(i), {a(i), b(i), d(i)})>>)]))

\* b[i+1] is written wherever a[i] < 0, whatever the inner guard, and the next
\* iteration's inner guard reads it: it goes before the guard.
s277(m) == Reordered("s277", AnyWidth, Loop(Up(0, LEN_1D - 1), [i \in Int |->
             <<Test({a(i)})>> \o If(m[i], <<Test({b(i)}), Set(a(i), {a(i), c(i), d(i)}), Set(b(i + 1), {c(i), d(i), e(i)})>>)]),
             <<1, 4, 2, 3>>)
s278(m) == K("s278", AnyWidth, Loop(Up(0, LEN_1D), [i \in Int |->
             <<Test({a(i)})>> \o If(~m[i], <<Set(b(i), {b(i), d(i), e(i)})>>)
             \o If(m[i], <<Set(c(i), {c(i), d(i), e(i)})>>) \o <<Set(a(i), {b(i), c(i), d(i)})>>]))
s279(m) == K("s279", AnyWidth, Loop(Up(0, LEN_1D), [i \in Int |->
             <<Test({a(i)})>> \o If(~m[i], <<Set(b(i), {b(i), d(i)}), Test({b(i), a(i)}), Set(c(i), {c(i), d(i), e(i)})>>)
             \o If(m[i], <<Set(c(i), {c(i), e(i)})>>) \o <<Set(a(i), {b(i), c(i), d(i)})>>]))
s1279(m) == K("s1279", AnyWidth, Loop(Up(0, LEN_1D), [i \in Int |->
             <<Test({a(i), b(i)})>> \o If(m[i], <<Set(c(i), {c(i), d(i), e(i)})>>)]))

\* "index set splitting": from the middle on, the reversed reads meet what the
\* first half has written.
s281 == Cut("s281", AnyWidth, Loop(Up(0, LEN_1D), [i \in Int |->
             <<Set(s(i), {a(LEN_1D - i - 1), b(i), c(i)}), Set(a(i), {s(i)}), Set(b(i), {s(i)})>>]),
             {(LEN_1D + 1) \div 2})
s1281 == K("s1281", AnyWidth, Loop(Up(0, LEN_1D), [i \in Int |->
             <<Set(s(i), {b(i), c(i), a(i), d(i), e(i)}), Set(a(i), {s(i)}), Set(b(i), {s(i)})>>]))

\* im1 and im2 lag one and two iterations behind, and begin at the end.
s291 == K("s291", AnyWidth, Loop(Up(0, LEN_1D), [i \in Int |->
             <<Set(a(i), {b(i), b(IF i = 0 THEN LEN_1D - 1 ELSE i - 1)})>>]))
s292 == K("s292", AnyWidth, Loop(Up(0, LEN_1D), [i \in Int |->
             <<Set(a(i), {b(i), b(IF i = 0 THEN LEN_1D - 1 ELSE i - 1), b(IF i < 2 THEN LEN_1D - 2 + i ELSE i - 2)})>>]))

\* "a(i)=a(0) with actual dependence cycle, loop is vectorizable" once the first
\* iteration is peeled.
s293 == Cut("s293", AnyWidth, Loop(Up(0, LEN_1D), [i \in Int |-> <<Set(a(i), {a(0)})>>]), {1})

\* The last index below 0 is a reduction; the loops with an exit run to the
\* first iteration that takes it.
s331(m) == K("s331", AnyWidth, Loop(Up(0, LEN_1D), [i \in Int |-> <<Test({a(i)})>> \o If(m[i], <<Acc(acc, {a(i)})>>)]))
Exit(m) == {i \in 0..(LEN_1D - 1) : m[i]}
Until(m) == IF Exit(m) = {} THEN LEN_1D ELSE 1 + CHOOSE i \in Exit(m) : \A n \in Exit(m) : i <= n
s332(m) == K("s332", AnyWidth, Loop(Up(0, Until(m)), [i \in Int |->
             <<Test({a(i)})>> \o If(m[i], <<Set(out("index"), {}), Set(out("value"), {a(i)})>>)]))

\* "not vectorizable, value of j in unknown at each iteration".
Packing(m) == IF \A i \in 0..(LEN_2D - 1) : m[i] THEN None ELSE Sometimes
s341(m) == K("s341", Packing(m), Loop(Up(0, LEN_1D), [i \in Int |->
             <<Test({b(i)})>> \o If(m[i], <<Set(out("j"), {out("j")}), Set(a(Packed(m, i)), {out("j"), b(i)})>>)]))
s342(m) == K("s342", Packing(m), Loop(Up(0, LEN_1D), [i \in Int |->
             <<Test({a(i)})>> \o If(m[i], <<Set(out("j"), {out("j")}), Set(a(i), {out("j"), b(Packed(m, i))})>>)]))
s343(m) == K2("s343", Packing(m), Loop(Up(0, LEN_2D), [i \in Int |-> Loop(Up(0, LEN_2D), [j \in Int |->
             <<Test({bb(j, i)})>> \o If(m[j], <<Set(out("k"), {out("k")}),
                                               Set(flat(i * Packed(m, LEN_2D) + Packed(m, j)), {out("k"), aa(j, i)})>>)])]))

\* Ifs with three and four arms: m and the parity of i pick the arm.
s441(m) == K("s441", AnyWidth, Loop(Up(0, LEN_1D), [i \in Int |->
             <<Test({d(i)})>> \o If(m[i], <<Set(a(i), {a(i), b(i), c(i)})>>)
             \o If(~m[i], <<Test({d(i)}), Set(a(i), {a(i), IF i % 2 = 0 THEN b(i) ELSE c(i)})>>)]))
s442(m) == K("s442", AnyWidth, Loop(Up(0, LEN_1D), [i \in Int |->
             If(m[i] /\ i % 2 = 0, <<Set(a(i), {a(i), b(i)})>>) \o If(m[i] /\ i % 2 = 1, <<Set(a(i), {a(i), c(i)})>>)
             \o If(~m[i] /\ i % 2 = 0, <<Set(a(i), {a(i), d(i)})>>) \o If(~m[i] /\ i % 2 = 1, <<Set(a(i), {a(i), e(i)})>>)]))
s443(m) == K("s443", AnyWidth, Loop(Up(0, LEN_1D), [i \in Int |->
             <<Test({d(i)})>> \o If(m[i], <<Set(a(i), {a(i), b(i), c(i)})>>) \o If(~m[i], <<Set(a(i), {a(i), b(i)})>>)]))
s481(m) == K("s481", AnyWidth, Loop(Up(0, Until(m)), [i \in Int |->
             <<Test({d(i)})>> \o If(~m[i], <<Set(a(i), {a(i), b(i), c(i)})>>)]))
s482(m) == K("s482", AnyWidth, Loop(Up(0, Until(m)), [i \in Int |->
             <<Set(a(i), {a(i), b(i), c(i)}), Test({c(i), b(i)})>>]))

Control == {s276, s281, s1281, s291, s292, s293}
ControlIf(m) ==
    {s271(m), s2710(m), s2711(m), s2712(m), s272(m), s273(m), s274(m), s275(m), s277(m), s278(m), s279(m),
     s1279(m), s331(m), s332(m), s341(m), s342(m), s343(m), s441(m), s442(m), s443(m), s481(m), s482(m)}
=============================================================================
