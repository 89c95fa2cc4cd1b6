----------------------------- MODULE DlmulMicro -----------------------------
(***************************************************************************)
(* The kernels of dlmul-synthesis/microbench.  Each asks the vector length *)
(* anew in every step, with what remains; some run several loops, each     *)
(* with a register type of its own.                                        *)
(***************************************************************************)
EXTENDS DlmulCode

(* mb1: two loops over different arrays, one type each. *)
mb1_from_step(m) ==
    Loads(m, <<"b", "c">>) \o << Calc("out", m, {"b", "c"}), Store("a", m, "out") >>
mb1_to_step(m) ==
    Loads(m, <<"d", "e">>) \o << Calc("diff", m, {"d", "e"}), Store("x", m, "diff") >>
mb1(from, to) ==
    << Steps(Elems(64), from, mb1_from_step(from)),
       Steps(Elems(64), to, mb1_to_step(to)) >>

(* mb2: one streaming addition. *)
mb2(m) == << Steps(Elems(256), m, mb1_from_step(m)) >>

(* mb3: eight live inputs; d is read and written in place. *)
mb3(m) ==
    << Steps(Elems(64), m,
             Loads(m, <<"a", "b", "c", "d", "e", "x", "aa", "flat">>)
             \o << Calc("acc", m, {"a", "b", "c", "d", "e", "x", "aa", "flat"}),
                   Store("d", m, "acc") >>) >>

(* mb4, mb9: phase 2 is shorter than phases 1 and 3 and reads d of phase 1;
   phase 3 reads d again and flat_2d_array, part of it written by phase 2, and
   overwrites e, which phase 2 read. *)
phase1_step(m) ==
    Loads(m, <<"a", "b">>) \o << Calc("p1", m, {"a", "b"}), Store("d", m, "p1") >>
phase3_step(m) ==
    Loads(m, <<"d", "flat">>)
    \o << Calc("p3", m, {"d", "flat"}), Store("e", m, "p3") >>
mb4_phase2_step(m) ==
    Loads(m, <<"d", "e", "c", "x">>)
    \o << Calc("p2", m, {"d", "e", "c", "x"}), Store("flat", m, "p2") >>
mb4(wide, narrow) ==
    << Steps(Elems(128), wide, phase1_step(wide)),
       Steps(Elems(64), narrow, mb4_phase2_step(narrow)),
       Steps(Elems(128), wide, phase3_step(wide)) >>
mb9_phase2_step(m) ==
    Loads(m, <<"d", "e", "c">>)
    \o << Calc("p2", m, {"d", "e", "c"}), Store("flat", m, "p2") >>
mb9(wide, narrow) ==
    << Steps(Elems(128), wide, phase1_step(wide)),
       Steps(Elems(64), narrow, mb9_phase2_step(narrow)),
       Steps(Elems(128), wide, phase3_step(wide)) >>

(* mb5: 16-bit inputs widened into MB5_ACC_COUNT accumulators. *)
mb5(m) ==
    << Steps(Elems(64), E16(m),
             Loads(E16(m), <<"src0", "src1">>)
             \o << Calc("out", E16(m), {"src0", "src1"}),
                   Store("dst", E16(m), "out") >>) >>

(* mb6: copy, scale, add and triad (MB6_SHAPE 1 to 4). *)
mb6(m, shape) ==
    LET of == IF shape >= 3 THEN {"b", "c"} ELSE {"b"}
    IN << Steps(Elems(256), m,
                << Load("b", m, "b", 0) >>
                \o (IF shape >= 3 THEN << Load("c", m, "c", 0) >> ELSE << >>)
                \o (IF shape = 1 THEN << Store("a", m, "b") >>
                    ELSE << Calc("out", m, of), Store("a", m, "out") >>)) >>

(* mb7: a chain of MB7_CHAIN_DEPTH operations on one accumulator; depth is cut
   to 2. *)
mb7(m, op) ==
    LET of == IF op = 1 THEN {"b"} ELSE {"b", "c"}
    IN << Steps(Elems(128), m,
                Loads(m, <<"a", "b", "c">>)
                \o << Calc("acc1", m, {"a"} \union of),
                      Calc("acc2", m, {"acc1"} \union of),
                      Store("d", m, "acc2") >>) >>

(* mb8: k temporaries live at once; classes 1 and 2 differ in the operation
   only.  t11 reads a again, before a is stored. *)
mb8_step(m, k) ==
    LET all == <<"a", "b", "c", "d", "e", "x", "aa", "bb", "cc", "tt", "flat">>
        n == IF k = 12 THEN 11 ELSE k
        ts == SubSeq(all, 1, n)
    IN Loads(m, ts)
       \o (IF k = 12 THEN << Load("t11", m, "a", 0) >> ELSE << >>)
       \o << Calc("out", m, {ts[j] : j \in 1..n}
                            \union (IF k = 12 THEN {"t11"} ELSE {})),
             Store("a", m, "out") >>
mb8(m, k) == << Steps(Elems(64), m, mb8_step(m, k)) >>
mb8_widening(m) ==
    << Steps(Elems(64), E16(m),
             Loads(E16(m), <<"src0", "src1">>)
             \o << Calc("out", E16(m), {"src0", "src1"}),
                   Store("indx", E16(m), "out") >>) >>

(* mb10: after each step its strip of d is copied to e, MB10_EXTRA_PASSES times
   (two here, traffic level 1). *)
mb10_spill_step(m) == << Load("spill", m, "d", 0), Store("e", m, "spill") >>
mb10(m) ==
    << Steps(Elems(128), m,
             Loads(m, <<"a", "b">>)
             \o << Calc("out", m, {"a", "b"}), Store("d", m, "out") >>
             \o mb10_spill_step(m) \o mb10_spill_step(m)) >>

(* mb11: indx[i] = i, then a masked addition in place for those below the
   threshold. *)
mb11(m, threshold) ==
    << Steps(Elems(128), m,
             << Load("indx", m, "indx", 0),
                Masked("out", m, {"indx"}, Elems(threshold)),
                Store("indx", m, "out") >>) >>
=============================================================================
