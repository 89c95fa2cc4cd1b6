----------------------------- MODULE TsvcVector -----------------------------
(***************************************************************************)
(* What a vectorising compiler does to the kernels: the iterations of a    *)
(* loop run in chunks of VF lanes, one statement at a time for the whole   *)
(* chunk, all lanes reading before any of them writes.  The content of a   *)
(* cell is who made it: the event (one statement of one iteration) that    *)
(* wrote it last, with the events that have accumulated into it since.  A  *)
(* lane that finds another content than the sequential loop would is stale.*)
(***************************************************************************)
EXTENDS TsvcDependence, TsvcTransform, TsvcControl, TsvcReduce

CONSTANTS Masks,       \* conditions: sequences of functions from iterations to BOOLEAN
          VFs,         \* vector widths
          Chosen       \* the kernels of this run, by name

ASSUME VectorAssumption ==
    /\ VFs \subseteq 1..AnyWidth
    /\ \A n \in 1..Len(Masks) : 0..(LEN_1D - 1) \subseteq DOMAIN Masks[n]

VARIABLES kernel,      \* <<name, number of the mask>>
          vf,
          turn,        \* of the loop that is not spread over the lanes
          first,       \* the chunk of lanes begins with
          place,       \* of the next statement in the code of the chunk
          mem,         \* the content of every cell the kernel touches
          stale        \* has a lane read the wrong content

vars == <<kernel, vf, turn, first, place, mem, stale>>

Plain == Dependence \cup Transform \cup Control \cup Reduce
Under(n) == DependenceIf(Masks[n]) \cup TransformIf(Masks[n]) \cup ControlIf(Masks[n]) \cup ReduceIf(Masks[n])
KernelsOf(n) == IF n = 0 THEN Plain ELSE Under(n)
\* The kernels of a set of pairs <<kernel, number>> by name and number.
ByName(numbered) ==
    [id \in {<<p[1].name, p[2]>> : p \in numbered} |->
        (CHOOSE p \in numbered : <<p[1].name, p[2]>> = id)[1]]
Kernels == ByName(UNION {{<<k, n>> : k \in KernelsOf(n)} : n \in 0..Len(Masks)})

-----------------------------------------------------------------------------
(* Sequential execution: the events <<l, n, st>>, statement st of iteration *)
(* n of loop l, one after another.                                          *)

Events(k) ==
    UNION {UNION {{<<l, n, st>> : st \in 1..Len(k.nest[l][n])} : n \in 1..Len(k.nest[l])} : l \in 1..Len(k.nest)}
Before(u, w) ==
    \/ u[1] < w[1]
    \/ u[1] = w[1] /\ u[2] < w[2]
    \/ u[1] = w[1] /\ u[2] = w[2] /\ u[3] < w[3]

At(k, ev) == k.nest[ev[1]][ev[2]][ev[3]]
Touched(S) == S.w \cup S.r \cup S.acc
Cells(k) == UNION {Touched(At(k, ev)) : ev \in Events(k)}

\* The events that write and accumulate into each cell of the chosen kernels.
Ids == {id \in DOMAIN Kernels : id[1] \in Chosen}
Writing(k) == [cell \in Cells(k) |-> {ev \in Events(k) : cell \in At(k, ev).w}]
Adding(k) == [cell \in Cells(k) |-> {ev \in Events(k) : cell \in At(k, ev).acc}]
Writers == [id \in Ids |-> Writing(Kernels[id])]
Adders == [id \in Ids |-> Adding(Kernels[id])]
Makers(id, cell) == Writers[id][cell] \cup Adders[id][cell]

\* What is left of the events of E in a cell: the last that wrote it, and
\* those that have added to it since.
Content(id, cell, E) == {u \in E : \A w \in E \cap Writers[id][cell] : w = u \/ Before(w, u)}
Sequential(id, cell, ev) == Content(id, cell, {u \in Makers(id, cell) : Before(u, ev)})
AtTheEnd(id, cell) == Content(id, cell, Makers(id, cell))

-----------------------------------------------------------------------------
(* Vector execution.  The lanes are iterations of the innermost loop, or of  *)
(* the one around it; what the other loop does is the turn.                  *)

This == Kernels[kernel]
Nest == This.nest

\* The iterations of a chunk of n at most vf, which also ends after the cuts.
Chunk ==
    {i \in first..(IF This.swap THEN Len(Nest) ELSE Len(Nest[turn])) :
        i < first + vf /\ \A cut \in This.cuts : ~(first <= cut /\ cut < i)}
Lanes ==
    {IF This.swap THEN <<i, turn>> ELSE <<turn, i>> :
        i \in {n \in Chunk : This.swap => turn <= Len(Nest[n])}}
Statement == IF This.order = <<>> THEN place ELSE This.order[place]
\* The events of the next instruction.
Active == {<<at[1], at[2], Statement>> : at \in {it \in Lanes : place <= Len(Nest[it[1]][it[2]])}}

Finished == (IF This.swap THEN first ELSE turn) > Len(Nest)

Init ==
    /\ kernel \in Ids /\ vf \in VFs
    /\ turn = 1 /\ first = 1 /\ place = 1
    /\ mem = [cell \in Cells(Kernels[kernel]) |-> {}]
    /\ stale = FALSE

ReadsRight(ev) == \A cell \in At(This, ev).r : mem[cell] = Sequential(kernel, cell, ev)

\* The lanes write in their order, over what was there.
After(k, events) ==
    [cell \in DOMAIN mem |->
        LET writing == {ev \in events : cell \in At(k, ev).w}
            adding == {ev \in events : cell \in At(k, ev).acc}
        IN  (IF writing = {} THEN mem[cell] ELSE {})
            \cup {u \in writing \cup adding : \A w \in writing : w = u \/ Before(w, u)}]
Store == mem' = After(This, Active)

VectorInstruction ==
    /\ ~Finished /\ Active # {}
    /\ stale' = (stale \/ \E ev \in Active : ~ReadsRight(ev))
    /\ Store
    /\ place' = place + 1
    /\ UNCHANGED <<kernel, vf, turn, first>>

NextChunk ==
    /\ ~Finished /\ Active = {}
    /\ This.swap <=> Lanes = {}
    /\ \E i \in Chunk : i + 1 \notin Chunk /\ first' = i + 1
    /\ turn' = (IF This.swap THEN 1 ELSE turn)
    /\ place' = 1
    /\ UNCHANGED <<kernel, vf, mem, stale>>

NextTurn ==
    /\ ~Finished /\ Active = {}
    /\ This.swap <=> Lanes # {}
    /\ turn' = turn + 1
    /\ first' = (IF This.swap THEN first ELSE 1)
    /\ place' = 1
    /\ UNCHANGED <<kernel, vf, mem, stale>>

Terminated == Finished /\ UNCHANGED vars

Next == VectorInstruction \/ NextChunk \/ NextTurn \/ Terminated

Spec == Init /\ [][Next]_vars

-----------------------------------------------------------------------------
(* Properties. *)

\* Cells of the kernel that are memory or the kernel's result: the expanded
\* scalars of single iterations are nobody's.
Visible(cell) == cell[1] \notin {"s", "t"}
LeftRight == \A cell \in {u \in DOMAIN mem : Visible(u)} : mem[cell] = AtTheEnd(kernel, cell)

\* The comments of the kernels call them vectorizable, or say by what they become
\* so: with those means and up to their width, every lane reads what the loop
\* would have read and the arrays end as the loop leaves them.
Vectorizable ==
    vf <= This.widths => ~stale /\ (Finished => LeftRight)

\* The recurrences are real: beyond its width a kernel goes wrong in some lane.
RecurrencesAreReal ==
    Finished /\ This.widths # Sometimes /\ vf > This.widths => stale

\* Arrays of one dimension are no shorter than a row of those of two.
Long == LEN_1D >= 2 /\ LEN_1D >= LEN_2D

\* The lengths at which a kernel's own offsets and steps fit.
Room(name) ==
    /\ name = "s31111" => LEN_1D >= 32
    /\ name \in {"s351", "s352", "s353"} => LEN_1D % 5 = 0
    /\ name = "s422" => LEN_1D + 8 <= LEN_2D * LEN_2D
    /\ name \in {"s423", "s424"} => LEN_1D + Strip <= LEN_2D * LEN_2D + 1

\* The kernels that leave the arrays as they are declared, and no others: those
\* that take five elements at a time, where the length is no multiple of five, and
\* those that reach past their index, where that is past the end.  With the lengths
\* of types.h (1000, 32; 64 for Strip) these are s423 and s424, with the 4096 of
\* emulate_all.py s351, s352, s353, s422, s423 and s424.  That the index vectors
\* point inside is assumed (TsvcReduce).
InBounds == Long => (Room(kernel[1]) <=> \A cell \in DOMAIN mem : Declared(cell))
=============================================================================
