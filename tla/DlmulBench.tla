----------------------------- MODULE DlmulBench -----------------------------
(***************************************************************************)
(* The kernels of dlmul-synthesis/bench.  Every file has the variants      *)
(* DLB_VARIANT_FIXED_Mx, one register type throughout (_fixed), and one or *)
(* two DLB_VARIANT_DYN_*, which change the type between phases (_dyn).     *)
(***************************************************************************)
EXTENDS DlmulCode

Six == <<"a", "b", "c", "d", "e", "x">>
SixIn == {"a", "b", "c", "d", "e", "x"}
Fs(n) == {F[j] : j \in 1..n}

(* db1: a float stream and a widening integer stream, side by side. *)
db1_body(f, i) ==
    Loads(f, Six)
    \o << Calc("a_out", f, {"a", "b", "c", "d"}),
          Calc("d_out", f, {"a_out", "e", "x"}) >>
    \o Loads(i, <<"src0", "src1", "bias">>)
    \o << Calc("i_out", i, {"src0", "src1", "bias"}),
          Store("a", f, "a_out"), Store("d", f, "d_out"),
          Store("indx", i, "i_out") >>
db1_fixed(m) == << Strips(Elems(192), m, db1_body(m, E16(m))) >>
db1_dyn == << Strips(Elems(192), M4, db1_body(M4, E16(M2))) >>

(* db2: twelve streams into one product sum. *)
db2_head(m) ==
    Loads(m, Six) \o Flats(m, 6) \o << Calc("a_out", m, {"a", "b", "c", "d"}) >>
db2_tail(m) ==
    << Calc("c_out", m, {"a_out", "b_out"}),
       Store("a", m, "a_out"), Store("b", m, "b_out"), Store("c", m, "c_out") >>
db2_of == {"a_out", "b", "c", "d", "e", "x"} \union Fs(6)
db2_fixed(m) ==
    << Strips(Elems(128), m,
              db2_head(m) \o << Calc("b_out", m, db2_of) >> \o db2_tail(m)) >>
db2_dyn ==
    << Strips(Elems(128), M8,
              db2_head(M8) \o << Zero("b_out", M8) >>
              \o Chunks(4, M2, NoLoads, Into("b_out", db2_of))
              \o db2_tail(M8)) >>

(* db3: a float part of 128 elements and an integer part of 96 in one loop. *)
db3_body(f, i) ==
    Below(Elems(128),
          Loads(f, <<"a", "b", "c", "x">>)
          \o << Calc("a_out", f, {"a", "b", "c"}),
                Calc("d_out", f, {"a_out", "x"}),
                Store("a", f, "a_out"), Store("d", f, "d_out") >>)
    \o Below(Elems(96),
             Loads(i, <<"src0", "src1", "bias">>)
             \o << Calc("out", i, {"src0", "src1", "bias"}),
                   Store("indx", i, "out") >>)
db3_fixed(m) == << Strips(Elems(128), m, db3_body(m, E16(m))) >>
db3_dyn == << Strips(Elems(128), M4, db3_body(M4, E16(M2))) >>

(* db4: dequantisation: scale and bias beside eight widening products. *)
db4_body(f, i) ==
    Loads(f, <<"a", "b">>) \o << Calc("a_out", f, {"a", "b"}) >>
    \o Loads(i, <<"lhs", "rhs", "zp">>)
    \o << Calc("sum", i, {"lhs", "rhs", "zp"}), Load("bias", i, "bias", 0),
          Calc("out", i, {"sum", "bias"}),
          Store("a", f, "a_out"), Store("indx", i, "out") >>
db4_fixed(m) == << Strips(Elems(192), m, db4_body(m, E16(m))) >>
db4_dyn == << Strips(Elems(192), M4, db4_body(M4, E16(M2))) >>

(* db5: three dependent sums over four streams. *)
db5_head(m) ==
    Loads(m, <<"a", "b", "c", "d">>)
    \o << Calc("a_out", m, {"a", "b", "c", "d"}) >>
db5_tail(m) ==
    << Calc("c_out", m, {"a_out", "b_out", "c", "d"}),
       Store("a", m, "a_out"), Store("b", m, "b_out"), Store("c", m, "c_out") >>
db5_of == {"a_out", "b", "c", "d"}
db5_fixed(m) ==
    << Strips(Elems(192), m,
              db5_head(m) \o << Calc("b_out", m, db5_of) >> \o db5_tail(m)) >>
db5_dyn ==
    << Strips(Elems(192), M8,
              db5_head(M8) \o << Zero("b_out", M8) >>
              \o Chunks(4, M2, NoLoads, Into("b_out", db5_of))
              \o db5_tail(M8)) >>

(* db6: m8 floats beside m2 to m4 integers, stripped by e16m2.  The second
   dynamic variant stores the integers in m2 parts. *)
db6_body(f, i) ==
    Loads(f, <<"a", "b", "c", "d">>)
    \o << Calc("a_out", f, {"a", "b", "c", "d"}) >>
    \o Loads(i, <<"lhs", "rhs", "zp">>)
    \o << Calc("sum", i, {"lhs", "rhs", "zp"}), Load("bias", i, "bias", 0),
          Calc("out", i, {"sum", "bias"}), Store("a", f, "a_out") >>
db6_fixed(m) ==
    << Strips(Elems(192), m,
              db6_body(m, E16(m)) \o << Store("indx", E16(m), "out") >>) >>
db6_dyn(parts) ==
    << Strips(Elems(192), E16(M2),
              db6_body(M8, E16(M2))
              \o IF parts THEN StoreChunks(2, M2, "indx", "out")
                          ELSE << Store("indx", M4, "out") >>) >>

(* db7: db2 with four accumulators, and c stored in m4 parts before a and b. *)
db7_head(m) ==
    Loads(m, Six) \o Flats(m, 6) \o << Calc("a_out", m, {"a", "b", "c"}) >>
db7_of == {"a_out", "b", "c", "d", "e", "x"} \union Fs(6)
db7_fixed(m) ==
    << Strips(Elems(128), m,
              db7_head(m)
              \o << Calc("b_out", m, db7_of), Calc("c_out", m, {"a_out", "b_out"}),
                    Store("a", m, "a_out"), Store("b", m, "b_out"),
                    Store("c", m, "c_out") >>) >>
db7_dyn ==
    << Strips(Elems(128), M8,
              db7_head(M8) \o << Zero("b_out", M8) >>
              \o Chunks(4, M2, NoLoads, Into("b_out", db7_of))
              \o << Calc("c_out", M8, {"a_out", "b_out"}) >>
              \o StoreChunks(2, M4, "c", "c_out")
              \o << Store("a", M8, "a_out"), Store("b", M8, "b_out") >>) >>

(* db8: the product sum twice (DB8_PRESSURE_REPEATS), the second on the result
   of the first. *)
db8_head(m) == Loads(m, Six) \o Flats(m, 6) \o << Calc("a_out", m, {"a", "b"}) >>
db8_tail(m) ==
    << Calc("d_out", m, {"a_out", "b2"}),
       Store("a", m, "a_out"), Store("b", m, "b2"), Store("d", m, "d_out") >>
db8_of(b) == {"a_out", b, "c", "d", "e", "x"} \union Fs(6)
db8_fixed(m) ==
    << Strips(Elems(128), m,
              db8_head(m)
              \o << Calc("b1", m, db8_of("b")), Calc("b2", m, db8_of("b1")) >>
              \o db8_tail(m)) >>
\* As if b_out = next were missing: the second round starts from b again.
db8_dyn_Forgets ==
    << Strips(Elems(128), M8,
              db8_head(M8)
              \o << Zero("b2", M8) >> \o Chunks(4, M2, NoLoads, Into("b2", db8_of("b")))
              \o db8_tail(M8)) >>
db8_dyn ==
    << Strips(Elems(128), M8,
              db8_head(M8)
              \o << Zero("b1", M8) >> \o Chunks(4, M2, NoLoads, Into("b1", db8_of("b")))
              \o << Zero("b2", M8) >> \o Chunks(4, M2, NoLoads, Into("b2", db8_of("b1")))
              \o db8_tail(M8)) >>

(* db9: a colour polynomial; c stored in m4 parts before a and b. *)
db9_head(m) ==
    Loads(m, Six) \o Flats(m, 2) \o << Calc("y", m, {"a", "b", "c"}) >>
db9_of == {"y", "d", "e", "x", "f0", "f1"}
db9_fixed(m) ==
    << Strips(Elems(128), m,
              db9_head(m)
              \o << Calc("gamma", m, db9_of), Calc("c_out", m, {"y", "gamma"}),
                    Store("a", m, "y"), Store("b", m, "gamma"),
                    Store("c", m, "c_out") >>) >>
db9_dyn ==
    << Strips(Elems(128), M8,
              db9_head(M8) \o << Zero("gamma", M8) >>
              \o Chunks(4, M2, NoLoads, Into("gamma", db9_of))
              \o << Calc("c_out", M8, {"y", "gamma"}) >>
              \o StoreChunks(2, M4, "c", "c_out")
              \o << Store("a", M8, "y"), Store("b", M8, "gamma") >>) >>

(* db10: three independent sums; 224 is no multiple of any m8. *)
db10_head(m) == Loads(m, Six) \o << Calc("a_out", m, {"a", "b"}) >>
db10_tail(m) ==
    << Calc("c_out", m, {"e", "x"}),
       Store("a", m, "a_out"), Store("b", m, "b_out"), Store("c", m, "c_out") >>
db10_fixed(m) ==
    << Strips(Elems(224), m,
              db10_head(m) \o << Calc("b_out", m, {"c", "d"}) >>
              \o db10_tail(m)) >>
db10_dyn ==
    << Strips(Elems(224), M8,
              db10_head(M8) \o << Zero("b_out", M8) >>
              \o Chunks(4, M2, NoLoads, Into("b_out", {"c", "d"}))
              \o db10_tail(M8)) >>

(* db11: a dependent polynomial in two m2 parts of an m4 stream. *)
db11_head(m) ==
    Loads(m, Six) \o Flats(m, 1) \o << Calc("y", m, {"a", "b", "c"}) >>
db11_tail(m) ==
    << Calc("out", m, {"y", "gamma"}),
       Store("a", m, "y"), Store("b", m, "gamma"), Store("c", m, "out") >>
db11_of == {"y", "d", "e", "x", "f0"}
db11_fixed(m) ==
    << Strips(Elems(192), m,
              db11_head(m) \o << Calc("gamma", m, db11_of) >> \o db11_tail(m)) >>
db11_dyn ==
    << Strips(Elems(192), M4,
              db11_head(M4) \o << Zero("gamma", M4) >>
              \o Chunks(2, M2, NoLoads, Into("gamma", db11_of))
              \o db11_tail(M4)) >>

(* db12: a normalised force; three registers set part by part. *)
db12_head(m) == Loads(m, Six) \o << Calc("seed", m, {"a", "b", "c"}) >>
db12_of == [fx |-> {"seed", "a"}, fy |-> {"seed", "b"}, fz |-> {"seed", "c"}]
db12_tail(m) ==
    << Calc("vx_out", m, {"d", "fx"}), Calc("vy_out", m, {"e", "fy"}),
       Calc("vz_out", m, {"x", "fz"}),
       Store("a", m, "vx_out"), Store("b", m, "vy_out"), Store("c", m, "vz_out") >>
db12_fixed(m) ==
    << Strips(Elems(192), m,
              db12_head(m)
              \o << Calc("fx", m, db12_of.fx), Calc("fy", m, db12_of.fy),
                    Calc("fz", m, db12_of.fz) >>
              \o db12_tail(m)) >>
db12_dyn ==
    << Strips(Elems(192), M4,
              db12_head(M4)
              \o << Zero("fx", M4), Zero("fy", M4), Zero("fz", M4) >>
              \o Chunks(2, M2, NoLoads,
                        [r \in {"fx", "fy", "fz"} |-> [fn |-> r, of |-> db12_of[r]]])
              \o db12_tail(M4)) >>

(* dep_matrix: three phases; the mode says whether phase 2 and phase 3 start
   from the result of phase 1 or from memory. *)
DepModes == {"none", "13", "12", "13_12"}
Uses12(mode) == mode \in {"12", "13_12"}
Uses13(mode) == mode \in {"13", "13_12"}
dep_head(m) ==
    Loads(m, <<"a", "b", "c">>)
    \o << Calc("phase1", m, {"a", "b", "c"}),
          Calc("phase1_out", m, {"b", "phase1"}) >>
\* As if phase 2 tested for the other edge:
dep_of_13(mode) ==
    {"d", "e", "x", "f0", "f1"} \union (IF Uses13(mode) THEN {"phase1"} ELSE {})
dep_of(mode) ==
    {"d", "e", "x", "f0", "f1"} \union (IF Uses12(mode) THEN {"phase1"} ELSE {})
dep_tail(m, mode) ==
    << Load("tail", m, "flat", 2),
       Calc("final", m, {"tail", "mid"}
                        \union (IF Uses13(mode) THEN {"phase1"} ELSE {})),
       Store("a", m, "phase1_out"), Store("b", m, "final"),
       Store("c", m, "mid") >>
dep_fixed(m, mode) ==
    << Strips(Elems(192), m,
              dep_head(m) \o Loads(m, <<"d", "e", "x">>) \o Flats(m, 2)
              \o << Calc("mid", m, dep_of(mode)) >> \o dep_tail(m, mode)) >>
dep_dyn(mode) ==
    LET own == [d |-> <<"d", 0>>, e |-> <<"e", 0>>, x |-> <<"x", 0>>,
                f0 |-> <<"flat", 0>>, f1 |-> <<"flat", 1>>]
    IN << Strips(Elems(192), M4,
                 dep_head(M4) \o << Zero("mid", M4) >>
                 \o Chunks(2, M2, own, Into("mid", dep_of(mode)))
                 \o dep_tail(M4, mode)) >>

(* alias_transfer: phase 2 overwrites the register of phase 1 part by part
   (OK), or builds three others while phase 1 stays live for phase 3 (BAD). *)
alias_head(m) ==
    Loads(m, <<"a", "b", "c", "d">>) \o << Calc("phase1", m, {"a", "b", "c"}) >>
alias_tail(m) ==
    << Calc("orig", m, {"phase1", "d"}), Store("a", m, "orig"),
       Store("b", m, "t0"), Store("c", m, "t1"), Store("d", m, "t2") >>
alias_of == [t0 |-> {"phase1"}, t1 |-> {"phase1"}, t2 |-> {"d", "phase1"}]
alias_fixed(m, keep) ==
    << Strips(Elems(192), m,
              alias_head(m)
              \o IF keep
                 THEN << Calc("t0", m, alias_of.t0), Calc("t1", m, alias_of.t1),
                         Calc("t2", m, alias_of.t2) >> \o alias_tail(m)
                 ELSE << Calc("twice", m, {"phase1"}), Store("a", m, "twice") >>) >>
alias_dyn(keep) ==
    << Strips(Elems(192), M4,
              alias_head(M4)
              \o IF keep
                 THEN << Zero("t0", M4), Zero("t1", M4), Zero("t2", M4) >>
                      \o Chunks(2, M2, NoLoads,
                                [r \in {"t0", "t1", "t2"} |->
                                    [fn |-> r, of |-> alias_of[r]]])
                      \o alias_tail(M4)
                 ELSE Chunks(2, M2, NoLoads,
                             [phase1 |-> [fn |-> "twice", of |-> {"phase1"}]])
                      \o << Store("a", M4, "phase1") >>) >>
=============================================================================
