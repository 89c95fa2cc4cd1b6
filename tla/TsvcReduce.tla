----------------------------- MODULE TsvcReduce -----------------------------
(***************************************************************************)
(* TSVC: reductions, recurrences, loop rerolling, indirect addressing,     *)
(* intrinsics and calls (s31x, s32x, s35x, s41x, s45x, s471, s491).  A     *)
(* maximum and its index are one accumulator.  tsvc_ip and indx are an     *)
(* index vector that repeats itself: tsvc_runtime.c never sets tsvc_ip, so *)
(* what it points to is nobody's promise.                                  *)
(***************************************************************************)
EXTENDS TsvcLoops

ip(i) == (2 * i) % LEN_2D
indx(i) == i % LEN_1D

s311 == K("s311", AnyWidth, Loop(Up(0, LEN_1D), [i \in Int |-> <<Acc(acc, {a(i)})>>]))
Maximum2D == Loop(Up(0, LEN_2D), [i \in Int |-> Loop(Up(0, LEN_2D), [j \in Int |-> <<Acc(acc, {aa(i, j)})>>])])
s3110 == K2("s3110", AnyWidth, Maximum2D \o <<<<<<Set(out("chksum"), {acc})>>>>>>)
s13110 == K2("s13110", AnyWidth, Maximum2D \o <<<<<<Set(out("chksum"), {acc})>>>>>>)
s3111(m) == K("s3111", AnyWidth, Loop(Up(0, LEN_1D), [i \in Int |-> <<Test({a(i)})>> \o If(m[i], <<Acc(acc, {a(i)})>>)]))
s31111 == K("s31111", AnyWidth, Loop(Steps(0, 8, 1), [i \in Int |->
             <<Acc(acc, {a(4 * i), a(4 * i + 1), a(4 * i + 2), a(4 * i + 3)})>>]))

\* "sum reduction saving running sums": every partial sum is used.
s3112 == K("s3112", None, Loop(Up(0, LEN_1D), [i \in Int |-> <<Acc(acc, {a(i)}), Set(b(i), {acc})>>]))
s3113 == K("s3113", AnyWidth, Loop(Up(0, LEN_1D), [i \in Int |-> <<Acc(acc, {a(i)})>>]))
s312 == K("s312", AnyWidth, Loop(Up(0, LEN_1D), [i \in Int |-> <<Acc(acc, {a(i)})>>]))
s313 == K("s313", AnyWidth, Loop(Up(0, LEN_1D), [i \in Int |-> <<Acc(acc, {a(i), b(i)})>>]))
s314 == K("s314", AnyWidth, Loop(Up(0, LEN_1D), [i \in Int |-> <<Acc(acc, {a(i)})>>]))
s315 == K2("s315", AnyWidth, <<Loop(Up(0, LEN_1D), [i \in Int |-> <<Set(a(i), {})>>]),
                          Loop(Up(0, LEN_1D), [i \in Int |-> <<Acc(acc, {a(i)})>>]),
                          <<<<Set(out("chksum"), {acc})>>>>>>)
s316 == K("s316", AnyWidth, Loop(Up(1, LEN_1D), [i \in Int |-> <<Acc(acc, {a(i)})>>]))
s317 == K("s317", AnyWidth, Loop(Up(0, LEN_1D \div 2), [i \in Int |-> <<Acc(acc, {})>>]))
s318 == K2("s318", AnyWidth, <<Loop(Up(1, LEN_1D), [i \in Int |-> <<Acc(acc, {a(i)})>>]), <<<<Set(out("chksum"), {acc})>>>>>>)
s319 == K("s319", AnyWidth, Loop(Up(0, LEN_1D), [i \in Int |->
             <<Set(a(i), {c(i), d(i)}), Acc(acc, {a(i)}), Set(b(i), {c(i), e(i)}), Acc(acc, {b(i)})>>]))

\* Variant: the recurrence looks ahead instead of back.
s321_Ahead == K("s321", None, Loop(Up(1, LEN_1D - 1), [i \in Int |-> <<Set(a(i), {a(i), a(i + 1), b(i)})>>]))
s321 == K("s321", None, Loop(Up(1, LEN_1D), [i \in Int |-> <<Set(a(i), {a(i), a(i - 1), b(i)})>>]))
s322 == K("s322", None, Loop(Up(2, LEN_1D), [i \in Int |-> <<Set(a(i), {a(i), a(i - 1), b(i), a(i - 2), c(i)})>>]))
s323 == K("s323", None, Loop(Up(1, LEN_1D), [i \in Int |->
             <<Set(a(i), {b(i - 1), c(i), d(i)}), Set(b(i), {a(i), c(i), e(i)})>>]))

\* Unrolled by 5: a whole number of groups only if LEN_1D is a multiple of 5.
Five(i) == {i, i + 1, i + 2, i + 3, i + 4}
s351 == K("s351", AnyWidth, Loop(Steps(0, LEN_1D, 5), [i \in Int |->
             [n \in 1..5 |-> Set(a(i + n - 1), {a(i + n - 1), b(i + n - 1), c(0)})]]))
s352 == K("s352", AnyWidth, Loop(Steps(0, LEN_1D, 5), [i \in Int |->
             <<Acc(acc, {a(n) : n \in Five(i)} \cup {b(n) : n \in Five(i)})>>]))
s353 == K("s353", AnyWidth, Loop(Steps(0, LEN_1D, 5), [i \in Int |->
             [n \in 1..5 |-> Set(a(i + n - 1), {a(i + n - 1), b(ip(i + n - 1)), c(0)})]]))

s4112 == K("s4112", AnyWidth, Loop(Up(0, LEN_1D), [i \in Int |-> <<Set(a(i), {a(i), b(indx(i))})>>]))
s4113 == K("s4113", AnyWidth, Loop(Up(0, LEN_1D), [i \in Int |-> <<Set(a(ip(i)), {b(ip(i)), c(i)})>>]))
s4114 == K("s4114", AnyWidth, Loop(Up(0, LEN_1D), [i \in Int |->
             <<Set(a(i), {b(i), c(LEN_1D - ip(i) + 1 - 2), d(i)})>>]))
s4115 == K("s4115", AnyWidth, Loop(Up(0, LEN_1D), [i \in Int |-> <<Acc(acc, {a(i), b(ip(i))})>>]))
s4116 == K("s4116", AnyWidth, Loop(Up(0, LEN_2D - 1), [i \in Int |-> <<Acc(acc, {a(i + 1), aa(LEN_2D \div 2 - 1, ip(i))})>>]))
s4117 == K("s4117", AnyWidth, Loop(Up(0, LEN_1D), [i \in Int |-> <<Set(a(i), {b(i), c(i \div 2), d(i)})>>]))
s4121 == K("s4121", AnyWidth, Loop(Up(0, LEN_1D), [i \in Int |-> <<Set(a(i), {a(i), b(i), c(i)})>>]))
s451 == K("s451", AnyWidth, Loop(Up(0, LEN_1D), [i \in Int |-> <<Set(a(i), {b(i), c(i)})>>]))
s452 == K("s452", AnyWidth, Loop(Up(0, LEN_1D), [i \in Int |-> <<Set(a(i), {b(i), c(i)})>>]))
s453 == K("s453", AnyWidth, Loop(Up(0, LEN_1D), [i \in Int |-> <<Set(a(i), {b(i)})>>]))
s471 == K("s471", AnyWidth, Loop(Up(0, LEN_1D), [i \in Int |->
             <<Set(x(i), {b(i), d(i)}), Set(b(i), {c(i), d(i), e(i)})>>]))

\* "store in sequence": of the lanes that meet in one element, the last one wins.
s491 == K("s491", AnyWidth, Loop(Up(0, LEN_1D), [i \in Int |-> <<Set(a(ip(i)), {b(i), c(i), d(i)})>>]))

Reduce ==
    {s311, s3110, s13110, s31111, s3112, s3113, s312, s313, s314, s315, s316, s317, s318, s319, s321, s322,
     s323, s351, s352, s353, s4112, s4113, s4114, s4115, s4116, s4117, s4121, s451, s452, s453, s471, s491}
ReduceIf(m) == {s3111(m)}
=============================================================================
