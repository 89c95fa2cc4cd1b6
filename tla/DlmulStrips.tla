---------------------------- MODULE DlmulStrips ----------------------------
(***************************************************************************)
(* The kernels of dlmul-synthesis on a vector machine: one pass of the     *)
(* outer loop, one instruction per step, for every variant of every        *)
(* benchmark, every register length and every way vsetvl may split a       *)
(* length between one and two registers.  A value is the expression it was *)
(* computed by, so two variants agree when they compute the same thing     *)
(* from the same elements.                                                 *)
(***************************************************************************)
EXTENDS DlmulBench, DlmulMicro, FiniteSets, FiniteSetsExt, TLC

CONSTANTS
    Lanes,       \* the e32 lanes an m1 register may have
    LEN_1D, LEN_2D,
    BenchRuns,   \* the cases of a run, in some order: of the benches
    MicroRuns    \* and of the microbenches

ASSUME SizesAssumption ==
    /\ Unit \in Nat \ {0}
    /\ Lanes \subseteq Nat \ {0}
    /\ LEN_1D \in Nat \ {0} /\ LEN_2D \in Nat \ {0}

(***************************************************************************)
(* The cases: [bench, prog, ref], ref being the same computation with m1   *)
(* registers throughout.                                                   *)
(***************************************************************************)
Case(bench, prog, ref) == [bench |-> bench, prog |-> prog, ref |-> ref]

FixedCases(bench, fixed(_), ms) == {Case(<<bench>>, fixed(m), fixed(M1)) : m \in ms}
DynCase(bench, dyn, fixed(_)) == {Case(<<bench>>, dyn, fixed(M1))}

BenchCases ==
    FixedCases("db1", db1_fixed, {M1, M2, M4}) \union DynCase("db1", db1_dyn, db1_fixed)
    \union FixedCases("db2", db2_fixed, {M2, M4, M8}) \union DynCase("db2", db2_dyn, db2_fixed)
    \union FixedCases("db3", db3_fixed, {M2, M4}) \union DynCase("db3", db3_dyn, db3_fixed)
    \union FixedCases("db4", db4_fixed, {M1, M2, M4}) \union DynCase("db4", db4_dyn, db4_fixed)
    \union FixedCases("db5", db5_fixed, {M2, M4, M8}) \union DynCase("db5", db5_dyn, db5_fixed)
    \union FixedCases("db6", db6_fixed, {M1, M2, M4})
    \union {Case(<<"db6">>, db6_dyn(FALSE), db6_fixed(M1)),
            Case(<<"db6">>, db6_dyn(TRUE), db6_fixed(M1))}
    \union FixedCases("db7", db7_fixed, {M2, M4, M8}) \union DynCase("db7", db7_dyn, db7_fixed)
    \union FixedCases("db8", db8_fixed, {M2, M4, M8}) \union DynCase("db8", db8_dyn, db8_fixed)
    \union FixedCases("db9", db9_fixed, {M2, M4, M8}) \union DynCase("db9", db9_dyn, db9_fixed)
    \union FixedCases("db10", db10_fixed, {M2, M4, M8}) \union DynCase("db10", db10_dyn, db10_fixed)
    \union FixedCases("db11", db11_fixed, {M1, M2, M4}) \union DynCase("db11", db11_dyn, db11_fixed)
    \union FixedCases("db12", db12_fixed, {M1, M2, M4}) \union DynCase("db12", db12_dyn, db12_fixed)
    \union UNION {{Case(<<"dep", mode>>, dep_fixed(m, mode), dep_fixed(M1, mode))
                      : m \in {M1, M2, M4}}
                  \union {Case(<<"dep", mode>>, dep_dyn(mode), dep_fixed(M1, mode))}
                    : mode \in DepModes}
    \union UNION {{Case(<<"alias", keep>>, alias_fixed(m, keep), alias_fixed(M1, keep))
                      : m \in {M1, M2, M4}}
                  \union {Case(<<"alias", keep>>, alias_dyn(keep), alias_fixed(M1, keep))}
                    : keep \in BOOLEAN}

MicroCases ==
    {Case(<<"mb1">>, mb1(p, q), mb1(M1, M1))
        : p, q \in {MF2, M1, M4, M8}}
    \union FixedCases("mb2", mb2, {M1, M4, M8})
    \union FixedCases("mb3", mb3, {MF4, MF2, M1, M2})
    \union {Case(<<"mb4">>, mb4(p, q), mb4(M1, M1))
              : p \in {M1, M4, M8}, q \in {MF2, M1, M4, M8}}
    \union FixedCases("mb5", mb5, {MF2, M1, M2, M4})
    \union {Case(<<"mb6", shape>>, mb6(m, shape), mb6(M1, shape))
              : m \in {M1, M4, M8}, shape \in 1..4}
    \union {Case(<<"mb7", op>>, mb7(m, op), mb7(M1, op))
              : m \in {M1, M2, M4, M8}, op \in {1, 2}}
    \union {Case(<<"mb8", k>>, mb8(m, k), mb8(M1, k))
              : m \in {MF2, M1, M2, M4}, k \in {2, 4, 8, 12}}
    \union FixedCases("mb8w", mb8_widening, {MF2, M1, M2, M4})
    \union {Case(<<"mb9">>, mb9(p, q), mb9(M1, M1))
              : <<p, q>> \in {<<M8, M1>>, <<M4, MF2>>}}
    \union FixedCases("mb10", mb10, {M1, M2, M4})
    \union {Case(<<"mb11", t>>, mb11(m, t), mb11(M1, t))
              : m \in {M1, M4, M8}, t \in {16, 64, 112}}

ASSUME CasesAssumption ==
    Range(BenchRuns) \subseteq BenchCases /\ Range(MicroRuns) \subseteq MicroCases

Cases == BenchRuns \o MicroRuns

VARIABLES
    case,     \* the index of the case that runs
    lanes,    \* e32 lanes of an m1 register
    halves,   \* whether vsetvl halves a length between one and two registers
    loop,     \* which loop of the program
    offset,   \* its first element not yet processed
    vl,       \* the length of the strip that begins there
    pc,       \* the instruction of the body; 0 while the inputs are set
    reg,      \* register name -> its lanes
    mem       \* cell -> value, for the cells stored to

vars == <<case, lanes, halves, loop, offset, vl, pc, reg, mem>>

Vlmax(m) == (m * lanes) \div 4

(* vsetvl: the whole length when it fits, a full register when two would not
   do; in between the architecture leaves the choice, and the simulators take
   the full register. *)
Vl(avl, m) ==
    LET max == Vlmax(m)
    IN CASE avl <= max -> avl
         [] halves /\ avl > max /\ avl < 2 * max -> (avl + 1) \div 2
         [] OTHER -> max

Cell(arr, i) == <<arr, i, {}>>
Value(c) == IF c \in DOMAIN mem THEN mem[c] ELSE c
Expr(fn, args) == <<fn, 0, args>>
Undefined == Expr("undefined", {})

Prog == Cases[case].prog
L == Prog[loop]
Ins == L.body[pc]
Running == loop <= Len(Prog)

(* size_t avl = total - offset; if (avl > vl_base) avl = vl_base; *)
StripLength(l, from) ==
    LET base == Vl(IF l.once THEN l.total ELSE l.total - from, l.m)
    IN IF l.total - from < base THEN l.total - from ELSE base
\* What the loop adds to offset.
Advance == IF L.once THEN Vl(L.total, L.m) ELSE vl

(* The part of the strip the current instruction is for: favl and iavl of
   db3; 0 when its condition is false. *)
Avl ==
    IF "lim" \in DOMAIN Ins
    THEN IF offset >= Ins.lim THEN 0
         ELSE IF Ins.lim - offset < vl THEN Ins.lim - offset ELSE vl
    ELSE vl

\* A register of type m with n lanes set by f, the others left undefined.
Fill(m, n, f(_)) == [j \in 0..(Vlmax(m) - 1) |-> IF j < n THEN f(j) ELSE Undefined]
SetReg(r, v) == reg' = (r :> v) @@ reg

(* start and vlc of the K-th part of the strip. *)
Start == Ins.k * Vl(Avl, Ins.m)
PartLength == IF Start < Avl THEN Vl(Avl - Start, Ins.m) ELSE 0
\* Lane j of the K-th part of register r.
PartLane(r, j) == reg[r][Ins.k * Vlmax(Ins.m) + j]

LoadCell(j) == Cell(Ins.arr, Ins.k * L.total + offset + j)
ChunkCell(src, j) == Cell(src[1], src[2] * L.total + offset + Start + j)

\* The value of one lane of the part that register r gets.
ChunkLane(r, j) ==
    Expr(Ins.out[r].fn,
         {IF s \in DOMAIN Ins.ld THEN Value(ChunkCell(Ins.ld[s], j))
                                 ELSE PartLane(s, j) : s \in Ins.out[r].of})

\* vset: the K-th part of register r replaced, the rest kept.
ChunkReg(r) ==
    LET first == Ins.k * Vlmax(Ins.m)
    IN [i \in DOMAIN reg[r] |->
            IF i \in first..(first + Vlmax(Ins.m) - 1)
            THEN IF i - first < PartLength THEN ChunkLane(r, i - first) ELSE Undefined
            ELSE reg[r][i]]

\* Cells and values the current instruction stores, as a function.
Stored ==
    CASE Ins.op = "store" ->
           [c \in {Cell(Ins.arr, offset + j) : j \in 0..(Avl - 1)} |->
                reg[Ins.r][c[2] - offset]]
      [] Ins.op = "put" ->
           [c \in {Cell(Ins.arr, offset + Start + j) : j \in 0..(PartLength - 1)} |->
                PartLane(Ins.r, c[2] - offset - Start)]
      [] OTHER -> [c \in {} |-> Undefined]

\* Cells the current instruction loads.
Loaded ==
    CASE Ins.op = "load" -> {LoadCell(j) : j \in 0..(Avl - 1)}
      [] Ins.op = "chunk" ->
           {ChunkCell(Ins.ld[s], j) : s \in DOMAIN Ins.ld, j \in 0..(PartLength - 1)}
      [] OTHER -> {}
-----------------------------------------------------------------------------
LegalOn(n, prog) ==
    \A p \in DOMAIN prog : prog[p].m * n >= 4
        /\ \A j \in DOMAIN prog[p].body :
              "m" \in DOMAIN prog[p].body[j] => prog[p].body[j].m * n >= 4

Parted(prog) ==
    \E p \in DOMAIN prog, j \in 1..64 :
        j \in DOMAIN prog[p].body /\ prog[p].body[j].op \in {"chunk", "put"}

(* The parts of a register are found by K * chunk in memory and by K in the
   register: the programs that split registers rely on chunk being a whole
   register, so they run on machines whose vsetvl gives that. *)
Init ==
    /\ case \in DOMAIN Cases
    /\ lanes \in {n \in Lanes : LegalOn(n, Prog)}
    /\ halves \in (IF Parted(Prog) THEN {FALSE} ELSE BOOLEAN)
    /\ loop = 1 /\ offset = 0 /\ vl = 0 /\ pc = 0
    /\ reg = [r \in {} |-> << >>]
    /\ mem = [c \in {} |-> Undefined]

\* dlb_init_real_inputs and the kernels' own loops over their inputs.
Inputs ==
    /\ Running /\ pc = 0
    /\ pc' = 1
    /\ vl' = StripLength(L, 0)
    /\ UNCHANGED <<case, lanes, halves, loop, offset, reg, mem>>

Here == Running /\ pc \in 1..Len(L.body)
Step == pc' = pc + 1 /\ UNCHANGED <<case, lanes, halves, loop, offset, vl>>

LoadInto ==
    /\ Here /\ Ins.op = "load"
    /\ SetReg(Ins.r, Fill(Ins.m, Vl(Avl, Ins.m), LAMBDA j : Value(LoadCell(j))))
    /\ Step /\ UNCHANGED mem

Compute ==
    /\ Here /\ Ins.op \in {"calc", "zero"}
    /\ SetReg(Ins.r,
              Fill(Ins.m, Vl(Avl, Ins.m),
                   LAMBDA j : IF Ins.op = "zero" THEN Expr("zero", {})
                              ELSE Expr(Ins.r, {reg[s][j] : s \in Ins.of})))
    /\ Step /\ UNCHANGED mem

(* A masked operation without a destination operand: what the lanes that are
   off hold is up to the machine. *)
ComputeMasked ==
    /\ Here /\ Ins.op = "mask"
    /\ SetReg(Ins.r,
              Fill(Ins.m, Vl(Avl, Ins.m),
                   LAMBDA j : IF offset + j < Ins.active
                              THEN Expr(Ins.r, {reg[s][j] : s \in Ins.of})
                              ELSE Undefined))
    /\ Step /\ UNCHANGED mem

ComputePart ==
    /\ Here /\ Ins.op = "chunk"
    /\ reg' = [r \in DOMAIN Ins.out |-> ChunkReg(r)] @@ reg
    /\ Step /\ UNCHANGED mem

StoreOut ==
    /\ Here /\ Ins.op \in {"store", "put"}
    /\ mem' = Stored @@ mem
    /\ Step /\ UNCHANGED reg

\* offset += vl, and the next loop when nothing remains.
NextStrip ==
    /\ Running /\ pc > Len(L.body)
    /\ IF offset + Advance < L.total
       THEN /\ offset' = offset + Advance /\ UNCHANGED loop
            /\ vl' = StripLength(L, offset')
       ELSE /\ offset' = 0 /\ loop' = loop + 1
            /\ vl' = IF loop' <= Len(Prog) THEN StripLength(Prog[loop'], 0) ELSE 0
    /\ pc' = 1
    /\ reg' = [r \in {} |-> << >>]
    /\ UNCHANGED <<case, lanes, halves, mem>>

Done == ~Running
Terminated == Done /\ UNCHANGED vars

Next ==
    \/ Inputs \/ LoadInto \/ Compute \/ ComputeMasked \/ ComputePart
    \/ StoreOut \/ NextStrip \/ Terminated

Spec == Init /\ [][Next]_vars
-----------------------------------------------------------------------------
(***************************************************************************)
(* The reference: the loops of ref one element at a time.                  *)
(***************************************************************************)
ScalarIns(l, i, s, ins) ==
    LET get(c) == IF c \in DOMAIN s.mem THEN s.mem[c] ELSE c
        put(r, v) == [s EXCEPT !.reg = (r :> v) @@ s.reg]
        args == {s.reg[r] : r \in ins.of}
    IN CASE "lim" \in DOMAIN ins /\ i >= ins.lim -> s
         [] ins.op = "load" -> put(ins.r, get(Cell(ins.arr, ins.k * l.total + i)))
         [] ins.op = "calc" -> put(ins.r, Expr(ins.r, args))
         [] ins.op = "mask" ->
              put(ins.r, IF i < ins.active THEN Expr(ins.r, args) ELSE Undefined)
         [] ins.op = "store" ->
              [s EXCEPT !.mem = (Cell(ins.arr, i) :> s.reg[ins.r]) @@ s.mem]

ScalarElement(m, l, i) ==
    FoldLeft(LAMBDA s, ins : ScalarIns(l, i, s, ins),
             [mem |-> m, reg |-> [r \in {} |-> Undefined]], l.body).mem

\* An array that a loop stores is loaded at the element's own index only, so
\* the elements of a loop may be taken in any order.
ASSUME OwnElementsAssumption ==
    \A c \in DOMAIN Cases : \A p \in DOMAIN Cases[c].ref :
        LET body == Cases[c].ref[p].body
        IN \A j, k \in DOMAIN body :
              body[j].op = "load" /\ body[k].op = "store"
              /\ body[j].arr = body[k].arr => body[j].k = 0

ScalarLoop(m, l) ==
    LET element == [i \in 0..(l.total - 1) |-> ScalarElement(m, l, i)]
        stored == UNION {DOMAIN element[i] : i \in 0..(l.total - 1)}
    IN [c \in stored |->
            IF c[2] < l.total THEN element[c[2]][c] ELSE m[c]]

Scalar(prog) == FoldLeft(ScalarLoop, [c \in {} |-> Undefined], prog)
Reference == [c \in DOMAIN Cases |-> Scalar(Cases[c].ref)]

(* Whatever the register type, the register length and vsetvl's choice, a
   kernel leaves in memory what one element at a time would: no lane left over
   from a longer strip, no part at the wrong place, no load that sees a store
   of its own pass too early or too late.  The suite compares the cycles of
   the variants, which is fair only if they do the same work. *)
SameAsScalar == Done => mem = Reference[case]

(* The array bounds of arrays.h, types.h and the kernels' own int16_t arrays. *)
Size(arr) ==
    IF arr \in {"flat", "aa", "bb", "cc", "tt"} THEN (LEN_2D * LEN_2D) \div Unit
    ELSE LEN_1D \div Unit
\* As if the loop ran to LEN_1D inclusive:
InitCells_Inclusive ==
    IF case <= Len(BenchRuns)
    THEN {Cell(arr, i) : arr \in {"a", "b", "c", "d", "e", "x", "flat"},
                         i \in {0, LEN_1D \div Unit}}
    ELSE {}
\* What the inputs' loops write: dlb_init_real_inputs in the benches.
InitCells ==
    IF case <= Len(BenchRuns)
    THEN {Cell(arr, i) : arr \in {"a", "b", "c", "d", "e", "x", "flat"},
                         i \in {0, (LEN_1D \div Unit) - 1}}
    ELSE {}
Touched ==
    IF ~Running \/ pc > Len(L.body) THEN {}
    ELSE IF pc = 0 THEN InitCells
    ELSE Loaded \union DOMAIN Stored
(* No kernel, and no loop that sets its inputs, leaves an array. *)
InBounds == \A c \in Touched : c[2] \in 0..(Size(c[1]) - 1)

RECURSIVE Mentions(_, _)
Mentions(v, fn) == v[1] = fn \/ \E u \in v[3] : Mentions(u, fn)
(* The edges that give the dep_matrix cases their names: what phase 2 stores
   depends on phase 1 in the modes "1-2", what phase 3 stores on phase 1
   directly in the modes "1-3"; and with neither, nothing of phase 1 reaches
   b or c. *)
DependencySignature ==
    (Done /\ Cases[case].bench \in {<<"dep", mode>> : mode \in DepModes}) =>
        LET mode == Cases[case].bench[2]
            mid == mem[Cell("c", 0)]
            final == mem[Cell("b", 0)]
        IN /\ Mentions(mid, "phase1") <=> Uses12(mode)
           /\ (\E u \in final[3] : u[1] = "phase1") <=> Uses13(mode)
           /\ mode = "none" => ~Mentions(final, "phase1")
=============================================================================
