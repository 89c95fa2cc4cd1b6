----------------------------- MODULE TsvcProofs -----------------------------
(***************************************************************************)
(* Running a kernel in chunks of lanes keeps what the loop computes when   *)
(* it keeps the order of every pair of events that depend on each other:   *)
(* one of them makes what the other reads, or they meet in a cell that     *)
(* one of them writes.  This is a property of the text of a kernel and of  *)
(* a width alone; it is proved for each kernel, and that it suffices is    *)
(* proved for the machine.  So are the other two properties: where every   *)
(* access of a kernel is, and that a recurrence which its text carries     *)
(* from one iteration to a later one goes wrong in more lanes.             *)
(***************************************************************************)
EXTENDS TsvcVector, FiniteSetTheorems, NaturalsInduction, WellFoundedInduction, TLAPS

\* Where a statement stands in the code of a chunk.
PlaceOf(k, st) == IF k.order = <<>> THEN st ELSE CHOOSE i \in 1..Len(k.order) : k.order[i] = st

Conflict(S, T) ==
    \/ S.w \cap Touched(T) # {} \/ Touched(S) \cap T.w # {}
    \/ S.acc \cap T.r # {} \/ S.r \cap T.acc # {}
Flow(S, T) == (S.w \cup S.acc) \cap T.r # {}

\* Lanes that are never in one chunk: too far from each other, or cut apart.
Apart(k, v, i, j) == j - i >= v \/ \E cut \in k.cuts : i <= cut /\ cut < j
InCode(k, u, w) ==
    \/ PlaceOf(k, u[3]) < PlaceOf(k, w[3])
    \/ u[3] = w[3] /\ ~Flow(At(k, u), At(k, w))

\* The chunks of v lanes keep the order of all events that depend on each other.
Kept(k, v) ==
    \A u, w \in Events(k) :
        Before(u, w) /\ Conflict(At(k, u), At(k, w)) =>
            IF k.swap THEN Apart(k, v, u[1], w[1]) \/ u[2] < w[2] \/ (u[2] = w[2] /\ InCode(k, u, w))
                      ELSE u[1] < w[1] \/ Apart(k, v, u[2], w[2]) \/ InCode(k, u, w)

\* Numbers are numbers, and an order of the statements is a permutation of those
\* of every iteration.
Sized(k) ==
    /\ Len(k.nest) \in Nat /\ k.cuts \subseteq Int /\ k.swap \in BOOLEAN
    /\ \A l \in 1..Len(k.nest) :
          /\ Len(k.nest[l]) \in Nat
          /\ \A n \in 1..Len(k.nest[l]) : Len(k.nest[l][n]) \in Nat
Formed(k) ==
    k.order # <<>> =>
        /\ Len(k.order) \in Nat
        /\ \A i \in 1..Len(k.order) : k.order[i] \in 1..Len(k.order)
        /\ \A i, j \in 1..Len(k.order) : k.order[i] = k.order[j] => i = j
        /\ \A i \in 1..Len(k.order) : \E p \in 1..Len(k.order) : k.order[p] = i
        /\ \A l \in 1..Len(k.nest) : \A n \in 1..Len(k.nest[l]) : Len(k.nest[l][n]) = Len(k.order)
Sound(k) ==
    Sized(k) /\ Formed(k) /\ \A v \in 1..AnyWidth : v <= k.widths => Kept(k, v)

\* What has been executed.
Executed(ev) ==
    IF This.swap
    THEN \/ ev[1] < first
         \/ ev[1] \in Chunk /\ (ev[2] < turn \/ (ev[2] = turn /\ PlaceOf(This, ev[3]) < place))
    ELSE \/ ev[1] < turn
         \/ ev[1] = turn /\ (ev[2] < first \/ (ev[2] \in Chunk /\ PlaceOf(This, ev[3]) < place))

Placed ==
    /\ kernel \in Ids /\ vf \in 1..AnyWidth
    /\ turn \in Nat \ {0} /\ first \in Nat \ {0} /\ place \in Nat \ {0}
\* Every cell holds what is left of the makers executed so far.
Done(cell) == {u \in Makers(kernel, cell) : Executed(u)}
Right == ~stale /\ mem = [cell \in Cells(This) |-> Content(kernel, cell, Done(cell))]

-----------------------------------------------------------------------------
(* Events and places. *)

LEMMA EventIs ==
    ASSUME NEW k, NEW ev \in Events(k)
    PROVE  /\ ev[1] \in 1..Len(k.nest) /\ ev[2] \in 1..Len(k.nest[ev[1]])
           /\ ev[3] \in 1..Len(k.nest[ev[1]][ev[2]])
           /\ ev = <<ev[1], ev[2], ev[3]>>
BY DEF Events

LEMMA IsEvent ==
    ASSUME NEW k, NEW l \in 1..Len(k.nest), NEW n \in 1..Len(k.nest[l]), NEW st \in 1..Len(k.nest[l][n])
    PROVE  <<l, n, st>> \in Events(k)
BY DEF Events

LEMMA NumbersOf ==
    ASSUME NEW k, Sized(k), NEW ev \in Events(k)
    PROVE  /\ ev[1] \in Nat /\ ev[2] \in Nat /\ ev[3] \in Nat
           /\ Len(k.nest[ev[1]]) \in Nat /\ Len(k.nest[ev[1]][ev[2]]) \in Nat
BY EventIs DEF Sized

LEMMA BeforeIsTotal ==
    ASSUME NEW k, Sized(k), NEW u \in Events(k), NEW w \in Events(k)
    PROVE  /\ u = w \/ Before(u, w) \/ Before(w, u)
           /\ ~(Before(u, w) /\ Before(w, u)) /\ ~Before(u, u)
<1>1. u = <<u[1], u[2], u[3]>> /\ w = <<w[1], w[2], w[3]>>
  BY EventIs
<1>2. u[1] \in Nat /\ u[2] \in Nat /\ u[3] \in Nat /\ w[1] \in Nat /\ w[2] \in Nat /\ w[3] \in Nat
  BY NumbersOf
<1> QED
  BY <1>1, <1>2 DEF Before

\* The statement at a place, and the place of a statement.
LEMMA PlaceIs ==
    ASSUME NEW k, Sized(k), Formed(k),
           NEW l \in 1..Len(k.nest), NEW n \in 1..Len(k.nest[l]), NEW i \in 1..Len(k.nest[l][n])
    PROVE  /\ PlaceOf(k, i) \in 1..Len(k.nest[l][n])
           /\ (IF k.order = <<>> THEN PlaceOf(k, i) ELSE k.order[PlaceOf(k, i)]) = i
           /\ k.order = <<>> => PlaceOf(k, i) = i
           /\ k.order # <<>> => PlaceOf(k, k.order[i]) = i /\ k.order[i] \in 1..Len(k.nest[l][n])
<1>1. CASE k.order = <<>>
  BY <1>1 DEF PlaceOf
<1>2. CASE k.order # <<>>
  <2>1. Len(k.nest[l][n]) = Len(k.order) /\ k.order[i] \in 1..Len(k.order)
    BY <1>2 DEF Formed
  <2>2. \E p \in 1..Len(k.order) : k.order[p] = i
    BY <1>2, <2>1 DEF Formed
  <2>3. PlaceOf(k, i) \in 1..Len(k.order) /\ k.order[PlaceOf(k, i)] = i
    BY <1>2, <2>2 DEF PlaceOf
  <2>4. PlaceOf(k, k.order[i]) \in 1..Len(k.order) /\ k.order[PlaceOf(k, k.order[i])] = k.order[i]
    BY <1>2, <2>1 DEF PlaceOf
  <2>5. PlaceOf(k, k.order[i]) = i
    BY <1>2, <2>1, <2>4 DEF Formed
  <2> QED
    BY <1>2, <2>1, <2>3, <2>5
<1> QED
  BY <1>1, <1>2

-----------------------------------------------------------------------------
(* Chunks. *)

Top == IF This.swap THEN Len(Nest) ELSE Len(Nest[turn])

LEMMA TopIs ==
    ASSUME Placed, Sized(This), ~Finished
    PROVE  /\ Top \in Nat
           /\ This.swap => first \in 1..Len(Nest)
           /\ ~This.swap => turn \in 1..Len(Nest)
<1>1. Len(Nest) \in Nat /\ \A l \in 1..Len(Nest) : Len(Nest[l]) \in Nat
  BY DEF Sized, Nest
<1>2. This.swap => first \in 1..Len(Nest)
  BY <1>1 DEF Finished, Placed
<1>3. ~This.swap => turn \in 1..Len(Nest)
  BY <1>1 DEF Finished, Placed
<1> QED
  BY <1>1, <1>2, <1>3 DEF Top

\* Chunks are intervals that begin with first, and the lanes of one are not apart.
LEMMA ChunkIs ==
    ASSUME Placed, Sized(This), ~Finished
    PROVE  /\ Chunk \subseteq first..Top
           /\ \A n \in Chunk : \A m \in first..n : m \in Chunk
           /\ \A m, n \in Chunk : m <= n => ~Apart(This, vf, m, n)
           /\ first <= Top => first \in Chunk
<1>1. Top \in Nat /\ first \in Nat /\ vf \in Nat \ {0} /\ This.cuts \subseteq Int
  BY TopIs DEF Placed, AnyWidth, Sized
<1>2. Chunk = {i \in first..Top : i < first + vf /\ \A cut \in This.cuts : ~(first <= cut /\ cut < i)}
  BY DEF Chunk, Top
<1>3. \A n \in Chunk : \A m \in first..n : m \in Chunk
  BY <1>1, <1>2
<1>4. \A m, n \in Chunk : m <= n => ~Apart(This, vf, m, n)
  BY <1>1, <1>2 DEF Apart
<1>5. first <= Top => first \in Chunk
  BY <1>1, <1>2
<1> QED
  BY <1>2, <1>3, <1>4, <1>5

-----------------------------------------------------------------------------
(* What is active, and what has been executed. *)

LEMMA LanesAre ==
    Lanes = IF This.swap THEN {<<l, turn>> : l \in {i \in Chunk : turn <= Len(Nest[i])}}
                         ELSE {<<turn, i>> : i \in Chunk}
<1>1. CASE This.swap
  BY <1>1 DEF Lanes
<1>2. CASE ~This.swap
  BY <1>2 DEF Lanes
<1> QED
  BY <1>1, <1>2

LEMMA ActiveIs ==
    ASSUME Placed, Sized(This), Formed(This), ~Finished, NEW ev \in Active
    PROVE  /\ ev \in Events(This)
           /\ PlaceOf(This, ev[3]) = place
           /\ IF This.swap THEN ev[1] \in Chunk /\ ev[2] = turn ELSE ev[1] = turn /\ ev[2] \in Chunk
<1>1. PICK at \in Lanes : place <= Len(Nest[at[1]][at[2]]) /\ ev = <<at[1], at[2], Statement>>
  BY DEF Active
<1>2. at[1] \in 1..Len(Nest) /\ at[2] \in 1..Len(Nest[at[1]])
  <2>1. CASE This.swap
    <3>1. PICK l \in Chunk : turn <= Len(Nest[l]) /\ at = <<l, turn>>
      BY <1>1, <2>1, LanesAre
    <3>2. l \in first..Len(Nest) /\ first \in Nat \ {0} /\ turn \in Nat \ {0}
      BY <2>1, <3>1, ChunkIs DEF Top, Placed
    <3>3. l \in 1..Len(Nest) /\ Len(Nest[l]) \in Nat
      BY <3>2 DEF Sized, Nest
    <3> QED
      BY <3>1, <3>2, <3>3
  <2>2. CASE ~This.swap
    <3>1. PICK i \in Chunk : at = <<turn, i>>
      BY <1>1, <2>2, LanesAre
    <3>2. i \in first..Len(Nest[turn]) /\ first \in Nat \ {0} /\ turn \in 1..Len(Nest)
      BY <2>2, <3>1, ChunkIs, TopIs DEF Top, Placed
    <3>3. Len(Nest[turn]) \in Nat
      BY <3>2 DEF Sized, Nest
    <3> QED
      BY <3>1, <3>2, <3>3
  <2> QED
    BY <2>1, <2>2
<1>3. place \in 1..Len(Nest[at[1]][at[2]])
  BY <1>1, <1>2 DEF Sized, Nest, Placed
<1>4. PlaceOf(This, Statement) = place /\ Statement \in 1..Len(Nest[at[1]][at[2]])
  <2> DEFINE l == at[1]  n == at[2]
  <2>1. l \in 1..Len(This.nest) /\ n \in 1..Len(This.nest[l]) /\ place \in 1..Len(This.nest[l][n])
    BY <1>2, <1>3 DEF Nest
  <2> HIDE DEF l, n
  <2>2. PlaceOf(This, Statement) = place /\ Statement \in 1..Len(This.nest[l][n])
    <3>1. CASE This.order = <<>>
      BY <2>1, <3>1 DEF Statement, PlaceOf
    <3>2. CASE This.order # <<>>
      <4>1. PlaceOf(This, This.order[place]) = place /\ This.order[place] \in 1..Len(This.nest[l][n])
        BY <2>1, <3>2, PlaceIs
      <4> QED
        BY <3>2, <4>1 DEF Statement
    <3> QED
      BY <3>1, <3>2
  <2> QED
    BY <2>2 DEF Nest, l, n
<1>5. ev \in Events(This)
  BY <1>1, <1>2, <1>4, IsEvent DEF Nest
<1>6. ev[1] = at[1] /\ ev[2] = at[2] /\ ev[3] = Statement
  BY <1>1
<1> QED
  BY <1>1, <1>4, <1>5, <1>6, LanesAre

\* All events of the lanes at this place are active.
LEMMA IsActive ==
    ASSUME Placed, Sized(This), Formed(This), NEW ev \in Events(This),
           PlaceOf(This, ev[3]) = place,
           IF This.swap THEN ev[1] \in Chunk /\ ev[2] = turn ELSE ev[1] = turn /\ ev[2] \in Chunk
    PROVE  ev \in Active
<1>1. ev[1] \in 1..Len(Nest) /\ ev[2] \in 1..Len(Nest[ev[1]]) /\ ev[3] \in 1..Len(Nest[ev[1]][ev[2]])
      /\ ev = <<ev[1], ev[2], ev[3]>>
  BY EventIs DEF Nest
<1>2. place \in 1..Len(Nest[ev[1]][ev[2]]) /\ Statement = ev[3]
  BY <1>1, PlaceIs DEF Statement, Nest
<1>3. Len(Nest[ev[1]]) \in Nat /\ Len(Nest[ev[1]][ev[2]]) \in Nat
  BY <1>1 DEF Sized, Nest
<1>4. <<ev[1], ev[2]>> \in Lanes
  BY <1>1, <1>3, LanesAre
<1>5. place <= Len(Nest[ev[1]][ev[2]])
  BY <1>2, <1>3
<1> DEFINE at == <<ev[1], ev[2]>>
<1>6. at \in Lanes /\ place <= Len(Nest[at[1]][at[2]]) /\ ev = <<at[1], at[2], Statement>>
  BY <1>1, <1>2, <1>4, <1>5
<1> QED
  BY <1>6 DEF Active

LEMMA PlacesDiffer ==
    ASSUME NEW k, Sized(k), Formed(k), NEW u \in Events(k), NEW w \in Events(k)
    PROVE  /\ PlaceOf(k, u[3]) \in Nat
           /\ PlaceOf(k, u[3]) = PlaceOf(k, w[3]) => u[3] = w[3]
<1>1. /\ PlaceOf(k, u[3]) \in 1..Len(k.nest[u[1]][u[2]])
      /\ (IF k.order = <<>> THEN PlaceOf(k, u[3]) ELSE k.order[PlaceOf(k, u[3])]) = u[3]
  BY EventIs, PlaceIs
<1>2. (IF k.order = <<>> THEN PlaceOf(k, w[3]) ELSE k.order[PlaceOf(k, w[3])]) = w[3]
  BY EventIs, PlaceIs
<1> QED
  BY <1>1, <1>2

LEMMA FlowConflicts ==
    ASSUME NEW S, NEW T
    PROVE  /\ Flow(S, T) => Conflict(S, T)
           /\ Conflict(S, T) => Conflict(T, S)
BY DEF Flow, Conflict, Touched

\* Lanes of the innermost loop: what has been executed precedes what is active
\* wherever the two conflict, and what the active lanes read has been executed.
LEMMA InnerOrder ==
    ASSUME Placed, Sized(This), Formed(This), Kept(This, vf), ~Finished, ~This.swap,
           NEW ev \in Active, NEW u \in Events(This)
    PROVE  /\ ~Executed(ev)
           /\ Executed(u) /\ Conflict(At(This, u), At(This, ev)) => Before(u, ev)
           /\ Before(u, ev) /\ Flow(At(This, u), At(This, ev)) => Executed(u)
<1>1. ev \in Events(This) /\ PlaceOf(This, ev[3]) = place /\ ev[1] = turn /\ ev[2] \in Chunk
  BY ActiveIs
<1>2. /\ u[1] \in Nat /\ u[2] \in Nat /\ u[3] \in Nat /\ ev[1] \in Nat /\ ev[2] \in Nat /\ ev[3] \in Nat
      /\ first \in Nat /\ turn \in Nat /\ place \in Nat /\ ev[2] >= first
  BY <1>1, NumbersOf, ChunkIs, TopIs DEF Placed
<1>3. PlaceOf(This, u[3]) \in Nat /\ PlaceOf(This, ev[3]) \in Nat
  BY <1>1, PlacesDiffer
<1>4. \A w \in Events(This) : Executed(w) <=>
        \/ w[1] < turn
        \/ w[1] = turn /\ (w[2] < first \/ (w[2] \in Chunk /\ PlaceOf(This, w[3]) < place))
  BY DEF Executed
<1>5. ~Executed(ev)
  BY <1>1, <1>2, <1>4
<1>6. ASSUME Executed(u), Conflict(At(This, u), At(This, ev)), ~Before(u, ev)
      PROVE  FALSE
  <2>1. Before(ev, u)
    BY <1>1, <1>5, <1>6, BeforeIsTotal
  <2>2. ev[1] < u[1] \/ Apart(This, vf, ev[2], u[2]) \/ InCode(This, ev, u)
    BY <1>1, <1>6, <2>1, FlowConflicts DEF Kept
  <2>3. u[1] = turn /\ ev[2] <= u[2] /\ u[2] \in Chunk /\ PlaceOf(This, u[3]) < place
    BY <1>1, <1>2, <1>4, <1>6, <2>1 DEF Before
  <2>4. ~Apart(This, vf, ev[2], u[2])
    BY <1>1, <2>3, ChunkIs
  <2>5. ~InCode(This, ev, u)
    BY <1>1, <1>3, <2>3 DEF InCode
  <2> QED
    BY <1>1, <1>2, <2>2, <2>3, <2>4, <2>5
<1>7. ASSUME Before(u, ev), Flow(At(This, u), At(This, ev)), ~Executed(u)
      PROVE  FALSE
  <2>1. u[1] < ev[1] \/ Apart(This, vf, u[2], ev[2]) \/ InCode(This, u, ev)
    BY <1>1, <1>7, FlowConflicts DEF Kept
  <2>2. u[1] = turn /\ u[2] <= ev[2] /\ first <= u[2]
    BY <1>1, <1>2, <1>4, <1>7 DEF Before
  <2>3. u[2] \in Chunk
    BY <1>1, <1>2, <2>2, ChunkIs
  <2>4. ~Apart(This, vf, u[2], ev[2])
    BY <1>1, <2>2, <2>3, ChunkIs
  <2>5. ~InCode(This, u, ev)
    BY <1>1, <1>2, <1>3, <1>4, <1>7, <2>2, <2>3 DEF InCode
  <2> QED
    BY <1>1, <1>2, <2>1, <2>2, <2>4, <2>5
<1> QED
  BY <1>5, <1>6, <1>7

\* The same of the lanes of the loop around it.
LEMMA OuterOrder ==
    ASSUME Placed, Sized(This), Formed(This), Kept(This, vf), ~Finished, This.swap,
           NEW ev \in Active, NEW u \in Events(This)
    PROVE  /\ ~Executed(ev)
           /\ Executed(u) /\ Conflict(At(This, u), At(This, ev)) => Before(u, ev)
           /\ Before(u, ev) /\ Flow(At(This, u), At(This, ev)) => Executed(u)
<1>1. ev \in Events(This) /\ PlaceOf(This, ev[3]) = place /\ ev[2] = turn /\ ev[1] \in Chunk
  BY ActiveIs
<1>2. /\ u[1] \in Nat /\ u[2] \in Nat /\ u[3] \in Nat /\ ev[1] \in Nat /\ ev[2] \in Nat /\ ev[3] \in Nat
      /\ first \in Nat /\ turn \in Nat /\ place \in Nat /\ ev[1] >= first
  BY <1>1, NumbersOf, ChunkIs, TopIs DEF Placed
<1>3. PlaceOf(This, u[3]) \in Nat /\ PlaceOf(This, ev[3]) \in Nat
  BY <1>1, PlacesDiffer
<1>4. \A w \in Events(This) : Executed(w) <=>
        \/ w[1] < first
        \/ w[1] \in Chunk /\ (w[2] < turn \/ (w[2] = turn /\ PlaceOf(This, w[3]) < place))
  BY DEF Executed
<1>5. ~Executed(ev)
  BY <1>1, <1>2, <1>4
<1>6. ASSUME Executed(u), Conflict(At(This, u), At(This, ev)), ~Before(u, ev)
      PROVE  FALSE
  <2>1. Before(ev, u)
    BY <1>1, <1>5, <1>6, BeforeIsTotal
  <2>2. Apart(This, vf, ev[1], u[1]) \/ ev[2] < u[2] \/ (ev[2] = u[2] /\ InCode(This, ev, u))
    BY <1>1, <1>6, <2>1, FlowConflicts DEF Kept
  <2>3. /\ ev[1] <= u[1] /\ u[1] \in Chunk
        /\ u[2] < turn \/ (u[2] = turn /\ PlaceOf(This, u[3]) < place)
    BY <1>1, <1>2, <1>4, <1>6, <2>1 DEF Before
  <2>4. ~Apart(This, vf, ev[1], u[1])
    BY <1>1, <2>3, ChunkIs
  <2>5. ev[2] = u[2] => ~InCode(This, ev, u)
    BY <1>1, <1>2, <1>3, <2>3 DEF InCode
  <2> QED
    BY <1>1, <1>2, <2>2, <2>3, <2>4, <2>5
<1>7. ASSUME Before(u, ev), Flow(At(This, u), At(This, ev)), ~Executed(u)
      PROVE  FALSE
  <2>1. Apart(This, vf, u[1], ev[1]) \/ u[2] < ev[2] \/ (u[2] = ev[2] /\ InCode(This, u, ev))
    BY <1>1, <1>7, FlowConflicts DEF Kept
  <2>2. u[1] <= ev[1] /\ first <= u[1]
    BY <1>1, <1>2, <1>4, <1>7 DEF Before
  <2>3. u[1] \in Chunk
    BY <1>1, <1>2, <2>2, ChunkIs
  <2>4. ~Apart(This, vf, u[1], ev[1])
    BY <1>1, <2>2, <2>3, ChunkIs
  <2>5. u[2] = ev[2] => ~InCode(This, u, ev)
    BY <1>1, <1>2, <1>3, <1>4, <1>7, <2>2, <2>3 DEF InCode
  <2> QED
    BY <1>1, <1>2, <1>4, <1>7, <2>1, <2>3, <2>4, <2>5
<1> QED
  BY <1>5, <1>6, <1>7

LEMMA OrderKept ==
    ASSUME Placed, Sized(This), Formed(This), Kept(This, vf), ~Finished,
           NEW ev \in Active, NEW u \in Events(This)
    PROVE  /\ ~Executed(ev)
           /\ Executed(u) /\ Conflict(At(This, u), At(This, ev)) => Before(u, ev)
           /\ Before(u, ev) /\ Flow(At(This, u), At(This, ev)) => Executed(u)
BY InnerOrder, OuterOrder

-----------------------------------------------------------------------------
(* What each step executes. *)

LEMMA PlaceAtLeastOne ==
    ASSUME NEW k, Sized(k), Formed(k), NEW u \in Events(k)
    PROVE  /\ PlaceOf(k, u[3]) \in 1..Len(k.nest[u[1]][u[2]])
           /\ PlaceOf(k, u[3]) \in Nat \ {0}
BY EventIs, PlaceIs

\* No statement is left for a chunk that has nothing active.
LEMMA PastAll ==
    ASSUME Placed, Sized(This), Formed(This), Active = {}, NEW u \in Events(This),
           IF This.swap THEN u[1] \in Chunk /\ u[2] = turn ELSE u[1] = turn /\ u[2] \in Chunk
    PROVE  PlaceOf(This, u[3]) < place
<1>1. /\ u[2] \in 1..Len(Nest[u[1]]) /\ Len(Nest[u[1]]) \in Nat /\ Len(Nest[u[1]][u[2]]) \in Nat
      /\ u[1] \in Nat /\ u[2] \in Nat
  BY EventIs, NumbersOf DEF Nest
<1>2. <<u[1], u[2]>> \in Lanes
  BY <1>1, LanesAre
<1>3. ~(place <= Len(Nest[u[1]][u[2]]))
  <2> DEFINE at == <<u[1], u[2]>>
  <2>1. at \in Lanes /\ at[1] = u[1] /\ at[2] = u[2]
    BY <1>2
  <2>2. ~(place <= Len(Nest[at[1]][at[2]]))
    BY <2>1 DEF Active
  <2> QED
    BY <2>1, <2>2
<1>4. PlaceOf(This, u[3]) \in 1..Len(Nest[u[1]][u[2]])
  BY PlaceAtLeastOne DEF Nest
<1> QED
  BY <1>1, <1>3, <1>4 DEF Placed

LEMMA NothingAtFirst ==
    ASSUME Init, Sized(This), Formed(This), NEW u \in Events(This)
    PROVE  ~Executed(u)
<1>1. u[1] \in 1..Len(Nest) /\ u[2] \in 1..Len(Nest[u[1]])
  BY EventIs DEF Nest
<1>2. u[1] \in Nat \ {0} /\ u[2] \in Nat \ {0} /\ PlaceOf(This, u[3]) \in Nat \ {0}
  BY <1>1, NumbersOf, PlaceAtLeastOne
<1> QED
  BY <1>2 DEF Init, Executed

LEMMA AllAtTheEnd ==
    ASSUME Placed, Sized(This), Finished, NEW u \in Events(This)
    PROVE  Executed(u)
<1>1. u[1] \in 1..Len(Nest) /\ Len(Nest) \in Nat
  BY EventIs DEF Nest, Sized
<1> QED
  BY <1>1 DEF Finished, Executed, Placed

LEMMA InstructionExecutes ==
    ASSUME Placed, Sized(This), Formed(This), VectorInstruction, NEW u \in Events(This)
    PROVE  Executed(u)' <=> Executed(u) \/ u \in Active
<1>1. /\ ~Finished /\ This' = This /\ Chunk' = Chunk /\ first' = first /\ turn' = turn
      /\ place' = place + 1
  BY DEF VectorInstruction, This, Chunk, Nest
<1>2. PlaceOf(This, u[3]) \in Nat /\ place \in Nat
  BY PlaceAtLeastOne DEF Placed
<1>3. PlaceOf(This, u[3]) < place' <=> PlaceOf(This, u[3]) < place \/ PlaceOf(This, u[3]) = place
  BY <1>1, <1>2
<1>4. u \in Active <=>
        /\ PlaceOf(This, u[3]) = place
        /\ IF This.swap THEN u[1] \in Chunk /\ u[2] = turn ELSE u[1] = turn /\ u[2] \in Chunk
  BY <1>1, ActiveIs, IsActive
<1>5. Executed(u)' <=>
        IF This.swap
        THEN \/ u[1] < first
             \/ u[1] \in Chunk /\ (u[2] < turn \/ (u[2] = turn /\ PlaceOf(This, u[3]) < place'))
        ELSE \/ u[1] < turn
             \/ u[1] = turn /\ (u[2] < first \/ (u[2] \in Chunk /\ PlaceOf(This, u[3]) < place'))
  BY <1>1 DEF Executed
<1> QED
  BY <1>3, <1>4, <1>5 DEF Executed

\* The chunk that follows another one.
LEMMA ChunkEnds ==
    ASSUME Placed, Sized(This), ~Finished, NEW i \in Chunk, i + 1 \notin Chunk
    PROVE  i \in Nat /\ Chunk = first..i
<1>1. /\ Chunk \subseteq first..Top /\ first \in Nat /\ i \in first..Top
      /\ \A n \in Chunk : \A m \in first..n : m \in Chunk
  BY ChunkIs DEF Placed
<1>2. i \in Nat
  BY <1>1
<1>3. ASSUME NEW n \in Chunk PROVE n \in first..i
  <2>1. n \in first..Top /\ n \in Int
    BY <1>1
  <2>2. i + 1 \in first..n => i + 1 \in Chunk
    BY <1>1
  <2> QED
    BY <1>1, <1>2, <2>1, <2>2
<1>4. \A m \in first..i : m \in Chunk
  BY <1>1
<1> QED
  BY <1>2, <1>3, <1>4

LEMMA ChunkExecutesNothing ==
    ASSUME Placed, Sized(This), Formed(This), NextChunk, NEW u \in Events(This)
    PROVE  Executed(u)' <=> Executed(u)
<1>1. PICK i \in Chunk : i + 1 \notin Chunk /\ first' = i + 1
  BY DEF NextChunk
<1>2. /\ ~Finished /\ Active = {} /\ This' = This /\ place' = 1
      /\ turn' = (IF This.swap THEN 1 ELSE turn)
      /\ This.swap <=> Lanes = {}
  BY DEF NextChunk, This
<1>3. i \in Nat /\ Chunk = first..i
  BY <1>1, <1>2, ChunkEnds
<1>4. /\ u[1] \in Nat \ {0} /\ u[2] \in Nat \ {0} /\ PlaceOf(This, u[3]) \in Nat \ {0}
      /\ u[2] <= Len(Nest[u[1]]) /\ Len(Nest[u[1]]) \in Nat
      /\ first \in Nat /\ turn \in Nat
  BY EventIs, NumbersOf, PlaceAtLeastOne DEF Placed, Nest
<1>5. CASE ~This.swap
  <2>1. Executed(u)' <=> u[1] < turn \/ (u[1] = turn /\ u[2] <= i)
    <3>1. Executed(u)' <=>
            \/ u[1] < turn
            \/ u[1] = turn /\ (u[2] < i + 1 \/ (u[2] \in Chunk' /\ PlaceOf(This, u[3]) < 1))
      BY <1>1, <1>2, <1>5 DEF Executed
    <3> QED
      BY <1>3, <1>4, <3>1
  <2>2. u[1] = turn /\ u[2] \in Chunk => PlaceOf(This, u[3]) < place
    BY <1>2, <1>5, PastAll
  <2>3. Executed(u) <=> u[1] < turn \/ (u[1] = turn /\ u[2] <= i)
    BY <1>3, <1>4, <1>5, <2>2 DEF Executed
  <2> QED
    BY <2>1, <2>3
<1>6. CASE This.swap
  <2>1. Executed(u)' <=> u[1] <= i
    <3>1. Executed(u)' <=>
            \/ u[1] < i + 1
            \/ u[1] \in Chunk' /\ (u[2] < 1 \/ (u[2] = 1 /\ PlaceOf(This, u[3]) < 1))
      BY <1>1, <1>2, <1>6 DEF Executed
    <3> QED
      BY <1>3, <1>4, <3>1
  <2>2. ASSUME u[1] \in Chunk PROVE u[2] < turn
    <3>1. turn <= Len(Nest[u[1]]) => <<u[1], turn>> \in Lanes
      BY <1>6, <2>2, LanesAre
    <3> QED
      BY <1>2, <1>4, <1>6, <3>1
  <2>3. Executed(u) <=> u[1] <= i
    BY <1>3, <1>4, <1>6, <2>2 DEF Executed
  <2> QED
    BY <2>1, <2>3
<1> QED
  BY <1>5, <1>6

LEMMA TurnExecutesNothing ==
    ASSUME Placed, Sized(This), Formed(This), NextTurn, NEW u \in Events(This)
    PROVE  Executed(u)' <=> Executed(u)
<1>1. /\ ~Finished /\ Active = {} /\ This' = This /\ place' = 1 /\ turn' = turn + 1 /\ vf' = vf
      /\ first' = (IF This.swap THEN first ELSE 1)
      /\ This.swap <=> Lanes # {}
  BY DEF NextTurn, This
<1>2. /\ u[1] \in Nat \ {0} /\ u[2] \in Nat \ {0} /\ PlaceOf(This, u[3]) \in Nat \ {0}
      /\ u[2] <= Len(Nest[u[1]]) /\ Len(Nest[u[1]]) \in Nat
      /\ first \in Nat /\ turn \in Nat
  BY EventIs, NumbersOf, PlaceAtLeastOne DEF Placed, Nest
<1>3. CASE ~This.swap
  <2>1. Executed(u)' <=> u[1] <= turn
    <3>1. Executed(u)' <=>
            \/ u[1] < turn + 1
            \/ u[1] = turn + 1 /\ (u[2] < 1 \/ (u[2] \in Chunk' /\ PlaceOf(This, u[3]) < 1))
      BY <1>1, <1>3 DEF Executed
    <3> QED
      BY <1>2, <3>1
  <2>2. Chunk = {}
    BY <1>1, <1>3, LanesAre
  <2>3. u[1] = turn => u[2] < first
    BY <1>1, <1>2, <1>3, <2>2, ChunkIs, TopIs DEF Top
  <2>4. Executed(u) <=> u[1] <= turn
    BY <1>2, <1>3, <2>2, <2>3 DEF Executed
  <2> QED
    BY <2>1, <2>4
<1>4. CASE This.swap
  <2>1. Chunk' = Chunk
    BY <1>1, <1>4 DEF Chunk, Nest
  <2>2. Executed(u)' <=>
          \/ u[1] < first
          \/ u[1] \in Chunk /\ (u[2] < turn + 1 \/ (u[2] = turn + 1 /\ PlaceOf(This, u[3]) < 1))
    BY <1>1, <1>4, <2>1 DEF Executed
  <2>3. u[1] \in Chunk /\ u[2] = turn => PlaceOf(This, u[3]) < place
    BY <1>1, <1>4, PastAll
  <2>4. Executed(u) <=> u[1] < first \/ (u[1] \in Chunk /\ u[2] <= turn)
    BY <1>2, <1>4, <2>3 DEF Executed
  <2> QED
    BY <1>2, <2>2, <2>4
<1> QED
  BY <1>3, <1>4

-----------------------------------------------------------------------------
(* Contents. *)

LEMMA MakersAre ==
    ASSUME kernel \in Ids, NEW cell \in Cells(This)
    PROVE  /\ Writers[kernel][cell] = {ev \in Events(This) : cell \in At(This, ev).w}
           /\ Makers(kernel, cell) = {ev \in Events(This) : cell \in At(This, ev).w \cup At(This, ev).acc}
<1>1. Writers[kernel][cell] = {ev \in Events(This) : cell \in At(This, ev).w}
  BY DEF Writers, Writing, This
<1>2. Adders[kernel][cell] = {ev \in Events(This) : cell \in At(This, ev).acc}
  BY DEF Adders, Adding, This
<1> QED
  BY <1>1, <1>2 DEF Makers

\* Events A on top of events E that precede them wherever one of the two writes.
LEMMA OnTop ==
    ASSUME NEW E, NEW A, NEW W,
           \A u \in E : \A w \in A : u \in W \/ w \in W => Before(u, w) /\ u # w /\ ~Before(w, u)
    PROVE  {u \in E \cup A : \A w \in (E \cup A) \cap W : w = u \/ Before(w, u)} =
             (IF A \cap W = {} THEN {u \in E : \A w \in E \cap W : w = u \/ Before(w, u)} ELSE {})
             \cup {u \in A : \A w \in A \cap W : w = u \/ Before(w, u)}
<1>1. CASE A \cap W = {}
  BY <1>1
<1>2. CASE A \cap W # {}
  BY <1>2
<1> QED
  BY <1>1, <1>2

LEMMA StoreKeeps ==
    ASSUME Placed, Sized(This), Formed(This), Kept(This, vf), VectorInstruction,
           NEW cell \in Cells(This), DOMAIN mem = Cells(This),
           mem[cell] = Content(kernel, cell, Done(cell))
    PROVE  mem'[cell] = Content(kernel, cell, {u \in Makers(kernel, cell) : Executed(u) \/ u \in Active})
<1> DEFINE W == Writers[kernel][cell]
           E == Done(cell)
           A == {u \in Active : u \in Makers(kernel, cell)}
<1>1. /\ W = {ev \in Events(This) : cell \in At(This, ev).w}
      /\ Makers(kernel, cell) = {ev \in Events(This) : cell \in At(This, ev).w \cup At(This, ev).acc}
  BY MakersAre DEF Placed
<1>2. ~Finished /\ Active \subseteq Events(This)
  BY ActiveIs DEF VectorInstruction
<1>3. A = {ev \in Active : cell \in At(This, ev).w} \cup {ev \in Active : cell \in At(This, ev).acc}
      /\ A \cap W = {ev \in Active : cell \in At(This, ev).w}
  BY <1>1, <1>2
<1>4. mem'[cell] = (IF A \cap W = {} THEN mem[cell] ELSE {})
                   \cup {u \in A : \A w \in A \cap W : w = u \/ Before(w, u)}
  <2>1. mem'[cell] =
          (IF {ev \in Active : cell \in At(This, ev).w} = {} THEN mem[cell] ELSE {})
          \cup {u \in {ev \in Active : cell \in At(This, ev).w} \cup {ev \in Active : cell \in At(This, ev).acc} :
                  \A w \in {ev \in Active : cell \in At(This, ev).w} : w = u \/ Before(w, u)}
    BY DEF VectorInstruction, Store, After
  <2> QED
    BY <1>3, <2>1
<1>5. ASSUME NEW u \in E, NEW w \in A, u \in W \/ w \in W
      PROVE  Before(u, w) /\ u # w /\ ~Before(w, u)
  <2>1. /\ u \in Events(This) /\ w \in Events(This) /\ w \in Active /\ Executed(u)
        /\ cell \in At(This, u).w \cup At(This, u).acc /\ cell \in At(This, w).w \cup At(This, w).acc
        /\ cell \in At(This, u).w \/ cell \in At(This, w).w
    BY <1>1, <1>2, <1>5 DEF Done
  <2>2. Conflict(At(This, u), At(This, w))
    BY <2>1 DEF Conflict, Touched
  <2>3. Before(u, w)
    BY <1>2, <2>1, <2>2, OrderKept
  <2> QED
    BY <2>1, <2>3, BeforeIsTotal
<1>6. {u \in Makers(kernel, cell) : Executed(u) \/ u \in Active} = E \cup A
  BY DEF Done
<1>7. Content(kernel, cell, E \cup A) =
        (IF A \cap W = {} THEN Content(kernel, cell, E) ELSE {})
        \cup {u \in A : \A w \in A \cap W : w = u \/ Before(w, u)}
  <2> HIDE DEF E, A
  <2>1. Content(kernel, cell, E \cup A) = {u \in E \cup A : \A w \in (E \cup A) \cap W : w = u \/ Before(w, u)}
    BY DEF Content
  <2>2. Content(kernel, cell, E) = {u \in E : \A w \in E \cap W : w = u \/ Before(w, u)}
    BY DEF Content
  <2> HIDE DEF W
  <2>3. {u \in E \cup A : \A w \in (E \cup A) \cap W : w = u \/ Before(w, u)} =
          (IF A \cap W = {} THEN {u \in E : \A w \in E \cap W : w = u \/ Before(w, u)} ELSE {})
          \cup {u \in A : \A w \in A \cap W : w = u \/ Before(w, u)}
    BY <1>5, OnTop
  <2> QED
    BY <2>1, <2>2, <2>3
<1> QED
  BY <1>4, <1>6, <1>7

LEMMA ReadKept ==
    ASSUME Placed, Sized(This), Formed(This), Kept(This, vf), ~Finished,
           NEW ev \in Active, NEW cell \in At(This, ev).r
    PROVE  Content(kernel, cell, Done(cell)) = Sequential(kernel, cell, ev)
<1>1. ev \in Events(This)
  BY ActiveIs
<1>2. cell \in Cells(This)
  BY <1>1 DEF Cells, Touched
<1>3. Makers(kernel, cell) = {u \in Events(This) : cell \in At(This, u).w \cup At(This, u).acc}
  BY <1>2, MakersAre DEF Placed
<1>4. ASSUME NEW u \in Makers(kernel, cell)
      PROVE  Executed(u) <=> Before(u, ev)
  <2>1. u \in Events(This) /\ cell \in At(This, u).w \cup At(This, u).acc
    BY <1>3
  <2>2. Flow(At(This, u), At(This, ev))
    BY <2>1 DEF Flow
  <2> QED
    BY <2>1, <2>2, FlowConflicts, OrderKept
<1>5. Done(cell) = {u \in Makers(kernel, cell) : Before(u, ev)}
  BY <1>4 DEF Done
<1> QED
  BY <1>5 DEF Sequential

-----------------------------------------------------------------------------
(* The invariant. *)

Inv == Placed /\ (vf <= This.widths => Right)
EverySound == \A id \in Ids : Sound(Kernels[id])

LEMMA ThisIsSound ==
    ASSUME EverySound, Placed
    PROVE  /\ Sized(This) /\ Formed(This)
           /\ vf <= This.widths => Kept(This, vf)
BY DEF EverySound, Placed, Sound, This

LEMMA InitPlaced ==
    ASSUME Init
    PROVE  Placed
<1>1. kernel \in Ids /\ vf \in VFs /\ turn = 1 /\ first = 1 /\ place = 1
  BY DEF Init
<1>2. vf \in 1..AnyWidth
  BY <1>1, VectorAssumption
<1> QED
  BY <1>1, <1>2 DEF Placed

LEMMA InitInv ==
    ASSUME EverySound, Init
    PROVE  Inv
<1>1. Placed /\ Sized(This) /\ Formed(This)
  BY InitPlaced, ThisIsSound
<1>2. ASSUME NEW cell \in Cells(This) PROVE Content(kernel, cell, Done(cell)) = {}
  <2>1. Makers(kernel, cell) \subseteq Events(This)
    BY MakersAre, <1>1 DEF Placed
  <2>2. Done(cell) = {}
    BY <1>1, <2>1, NothingAtFirst DEF Done
  <2> QED
    BY <2>2 DEF Content
<1>3. mem = [cell \in Cells(This) |-> {}] /\ ~stale
  BY DEF Init, This
<1>4. Right
  BY <1>2, <1>3 DEF Right
<1> QED
  BY <1>1, <1>4 DEF Inv

LEMMA StepPlaced ==
    ASSUME EverySound, Placed, Next
    PROVE  Placed'
<1>1. CASE VectorInstruction
  BY <1>1 DEF VectorInstruction, Placed
<1>2. CASE NextChunk
  <2>1. PICK i \in Chunk : i + 1 \notin Chunk /\ first' = i + 1
    BY <1>2 DEF NextChunk
  <2>2. i \in Nat
    BY <1>2, <2>1, ChunkEnds, ThisIsSound DEF NextChunk
  <2> QED
    BY <1>2, <2>1, <2>2 DEF NextChunk, Placed
<1>3. CASE NextTurn
  BY <1>3 DEF NextTurn, Placed
<1>4. CASE Terminated
  BY <1>4 DEF Terminated, vars, Placed
<1> QED
  BY <1>1, <1>2, <1>3, <1>4 DEF Next

\* A step that neither writes nor executes.
LEMMA NothingDone ==
    ASSUME Placed, Right, UNCHANGED <<kernel, mem, stale>>,
           \A u \in Events(This) : Executed(u)' <=> Executed(u)
    PROVE  Right'
<1>1. This' = This
  BY DEF This
<1>2. ASSUME NEW cell \in Cells(This) PROVE Done(cell)' = Done(cell)
  <2>1. Makers(kernel, cell) \subseteq Events(This)
    BY MakersAre DEF Placed
  <2> QED
    BY <2>1 DEF Done
<1> QED
  BY <1>1, <1>2 DEF Right

LEMMA InstructionRight ==
    ASSUME Placed, Sized(This), Formed(This), Kept(This, vf), Right, VectorInstruction
    PROVE  Right'
<1>1. ~Finished /\ This' = This /\ kernel' = kernel
  BY DEF VectorInstruction, This
<1>2. DOMAIN mem = Cells(This) /\ \A cell \in Cells(This) : mem[cell] = Content(kernel, cell, Done(cell))
  BY DEF Right
<1>3. ASSUME NEW ev \in Active PROVE ReadsRight(ev)
  <2>1. ev \in Events(This)
    BY <1>1, ActiveIs
  <2>2. \A cell \in At(This, ev).r : cell \in Cells(This)
    BY <2>1 DEF Cells, Touched
  <2> QED
    BY <1>1, <1>2, <2>2, ReadKept DEF ReadsRight
<1>4. ~stale'
  BY <1>3 DEF VectorInstruction, Right
<1>5. ASSUME NEW cell \in Cells(This) PROVE mem'[cell] = Content(kernel, cell, Done(cell)')
  <2>1. Makers(kernel, cell) \subseteq Events(This)
    BY MakersAre DEF Placed
  <2>2. Done(cell)' = {u \in Makers(kernel, cell) : Executed(u) \/ u \in Active}
    BY <1>1, <2>1, InstructionExecutes DEF Done
  <2> QED
    BY <1>2, <2>2, StoreKeeps
<1>6. mem' = [cell \in Cells(This) |-> mem'[cell]]
  BY <1>2 DEF VectorInstruction, Store, After
<1> QED
  BY <1>1, <1>4, <1>5, <1>6 DEF Right

LEMMA StepInv ==
    ASSUME EverySound, Inv, [Next]_vars
    PROVE  Inv'
<1>1. Placed /\ Sized(This) /\ Formed(This) /\ (vf <= This.widths => Kept(This, vf) /\ Right)
  BY ThisIsSound DEF Inv
<1>2. CASE UNCHANGED vars
  <2>1. This' = This /\ Chunk' = Chunk
    BY <1>2 DEF vars, This, Chunk, Nest
  <2>2. \A u \in Events(This) : Executed(u)' <=> Executed(u)
    BY <1>2, <2>1 DEF vars, Executed
  <2>3. vf <= This.widths => Right'
    BY <1>1, <1>2, <2>2, NothingDone DEF vars
  <2> QED
    BY <1>1, <1>2, <2>1, <2>3 DEF Inv, Placed, vars
<1>3. CASE Next
  <2>1. Placed'
    BY <1>1, <1>3, StepPlaced
  <2>2. This' = This /\ vf' = vf
    BY <1>3 DEF Next, VectorInstruction, NextChunk, NextTurn, Terminated, vars, This
  <2>3. ASSUME vf <= This.widths PROVE Right'
    <3>1. CASE VectorInstruction
      BY <1>1, <2>3, <3>1, InstructionRight
    <3>2. CASE NextChunk
      BY <1>1, <2>3, <3>2, ChunkExecutesNothing, NothingDone DEF NextChunk
    <3>3. CASE NextTurn
      BY <1>1, <2>3, <3>3, TurnExecutesNothing, NothingDone DEF NextTurn
    <3>4. CASE Terminated
      <4>1. UNCHANGED vars
        BY <3>4 DEF Terminated
      <4>2. \A u \in Events(This) : Executed(u)' <=> Executed(u)
        BY <2>2, <4>1 DEF vars, Executed, Chunk, Nest
      <4> QED
        BY <1>1, <2>3, <4>1, <4>2, NothingDone DEF vars
    <3> QED
      BY <1>3, <3>1, <3>2, <3>3, <3>4 DEF Next
  <2> QED
    BY <2>1, <2>2, <2>3 DEF Inv
<1> QED
  BY <1>2, <1>3

LEMMA InvIsVectorizable ==
    ASSUME EverySound, Inv
    PROVE  Vectorizable
<1>1. SUFFICES ASSUME vf <= This.widths PROVE ~stale /\ (Finished => LeftRight)
  BY DEF Vectorizable
<1>2. Placed /\ Right /\ Sized(This)
  BY <1>1, ThisIsSound DEF Inv
<1>3. ASSUME Finished, NEW cell \in DOMAIN mem PROVE mem[cell] = AtTheEnd(kernel, cell)
  <2>1. cell \in Cells(This) /\ mem[cell] = Content(kernel, cell, Done(cell))
    BY <1>2 DEF Right
  <2>2. Makers(kernel, cell) \subseteq Events(This)
    BY <1>2, <2>1, MakersAre DEF Placed
  <2>3. Done(cell) = Makers(kernel, cell)
    BY <1>2, <1>3, <2>2, AllAtTheEnd DEF Done
  <2> QED
    BY <2>1, <2>3 DEF AtTheEnd
<1> QED
  BY <1>2, <1>3 DEF Right, LeftRight

\* Whatever the kernels are: those that keep the order of their dependences up to
\* their width are computed right in chunks of at most that width.
THEOREM SoundIsEnough ==
    ASSUME EverySound
    PROVE  Spec => []Vectorizable
<1>1. Init => Inv
  BY InitInv
<1>2. Inv /\ [Next]_vars => Inv'
  BY StepInv
<1>3. Inv => Vectorizable
  BY InvIsVectorizable
<1> QED
  BY <1>1, <1>2, <1>3, PTL DEF Spec

-----------------------------------------------------------------------------
(* What a kernel has to be. *)

\* The lengths for which a kernel stays inside the arrays.
LengthsFit(name) == Long /\ Room(name)

Inside(S) == \A cell \in Touched(S) : Declared(cell)
Lies(L) == \A n \in 1..Len(L) : \A p \in 1..Len(L[n]) : Inside(L[n][p])
Good(k) ==
    /\ Sound(k)
    /\ LengthsFit(k.name) => \A l \in 1..Len(k.nest) : Lies(k.nest[l])

\* Iteration I before J, in one chunk, statement by statement.
Beside(k, I, J) ==
    \A p \in 1..Len(I) : \A q \in 1..Len(J) :
        Conflict(I[p], J[q]) => PlaceOf(k, p) < PlaceOf(k, q) \/ (p = q /\ ~Flow(I[p], J[q]))
Within(k, I) ==
    \A p, q \in 1..Len(I) : p < q /\ Conflict(I[p], I[q]) => PlaceOf(k, p) < PlaceOf(k, q)

\* The same in the order of the text.
Side(I, J) ==
    \A p \in 1..Len(I) : \A q \in 1..Len(J) :
        /\ q < p => ~Conflict(I[p], J[q])
        /\ p = q => ~Flow(I[p], J[q])
SideBySide(L) ==
    /\ Len(L) \in Nat
    /\ \A n \in 1..Len(L) : Len(L[n]) \in Nat
    /\ \A m, n \in 1..Len(L) : m < n => Side(L[m], L[n])

LEMMA InnerKept ==
    ASSUME NEW k, NEW v, Sized(k), ~k.swap,
           \A l \in 1..Len(k.nest) : \A m, n \in 1..Len(k.nest[l]) :
              m < n => Apart(k, v, m, n) \/ Beside(k, k.nest[l][m], k.nest[l][n]),
           \A l \in 1..Len(k.nest) : \A n \in 1..Len(k.nest[l]) : Within(k, k.nest[l][n])
    PROVE  Kept(k, v)
<1>1. SUFFICES ASSUME NEW u \in Events(k), NEW w \in Events(k), Before(u, w), Conflict(At(k, u), At(k, w))
               PROVE  u[1] < w[1] \/ Apart(k, v, u[2], w[2]) \/ InCode(k, u, w)
  BY DEF Kept
<1>2. /\ u[1] \in 1..Len(k.nest) /\ u[2] \in 1..Len(k.nest[u[1]]) /\ u[3] \in 1..Len(k.nest[u[1]][u[2]])
      /\ w[1] \in 1..Len(k.nest) /\ w[2] \in 1..Len(k.nest[w[1]]) /\ w[3] \in 1..Len(k.nest[w[1]][w[2]])
  BY EventIs
<1>3. CASE u[1] = w[1] /\ u[2] < w[2]
  <2>1. Apart(k, v, u[2], w[2]) \/ Beside(k, k.nest[u[1]][u[2]], k.nest[w[1]][w[2]])
    BY <1>2, <1>3
  <2> DEFINE I == k.nest[u[1]][u[2]]  J == k.nest[w[1]][w[2]]
  <2>2. At(k, u) = I[u[3]] /\ At(k, w) = J[w[3]] /\ u[3] \in 1..Len(I) /\ w[3] \in 1..Len(J)
    BY <1>2 DEF At
  <2>3. ASSUME Beside(k, I, J) PROVE InCode(k, u, w)
    <3> HIDE DEF I, J
    <3> QED
      BY <1>1, <2>2, <2>3 DEF Beside, InCode
  <2> QED
    BY <2>1, <2>3
<1>4. CASE u[1] = w[1] /\ u[2] = w[2] /\ u[3] < w[3]
  <2>1. Within(k, k.nest[u[1]][u[2]])
    BY <1>2
  <2> QED
    BY <1>1, <1>2, <1>4, <2>1 DEF Within, InCode, At
<1> QED
  BY <1>1, <1>3, <1>4 DEF Before

\* Kernels whose loops can be run in the order of the text.
LEMMA StraightNest ==
    ASSUME NEW name, NEW widths, NEW nest, Len(nest) \in Nat,
           \A l \in 1..Len(nest) : SideBySide(nest[l]),
           LengthsFit(name) => \A l \in 1..Len(nest) : Lies(nest[l])
    PROVE  Good(K2(name, widths, nest))
<1> DEFINE k == K2(name, widths, nest)
<1>1. /\ k.nest = nest /\ k.order = <<>> /\ k.cuts = {} /\ k.swap = FALSE /\ k.name = name
  BY DEF K2, Kernel
<1> HIDE DEF k
<1>2. Sized(k) /\ Formed(k)
  BY <1>1 DEF Sized, Formed, SideBySide
<1>3. ASSUME NEW v PROVE Kept(k, v)
  <2>1. ASSUME NEW l \in 1..Len(nest), NEW m \in 1..Len(nest[l]), NEW n \in 1..Len(nest[l]), m < n
        PROVE  Beside(k, nest[l][m], nest[l][n])
    <3>1. Side(nest[l][m], nest[l][n]) /\ Len(nest[l][m]) \in Nat /\ Len(nest[l][n]) \in Nat
      BY <2>1 DEF SideBySide
    <3> QED
      BY <1>1, <3>1 DEF Beside, Side, PlaceOf
  <2>2. \A l \in 1..Len(nest) : \A n \in 1..Len(nest[l]) : Within(k, nest[l][n])
    BY <1>1 DEF Within, PlaceOf
  <2> QED
    BY <1>1, <1>2, <2>1, <2>2, InnerKept
<1> QED
  BY <1>1, <1>2, <1>3 DEF Good, Sound, k

LEMMA StraightLoop ==
    ASSUME NEW name, NEW widths, NEW L, SideBySide(L), LengthsFit(name) => Lies(L)
    PROVE  Good(K(name, widths, L))
<1>1. Len(<<L>>) = 1 /\ <<L>>[1] = L
  OBVIOUS
<1> QED
  BY <1>1, StraightNest DEF K

\* One lane at a time is the loop itself.
LEMMA OneLane ==
    ASSUME NEW name, NEW widths, widths \in {None, Sometimes}, NEW nest, Len(nest) \in Nat,
           \A l \in 1..Len(nest) : Len(nest[l]) \in Nat /\ \A n \in 1..Len(nest[l]) : Len(nest[l][n]) \in Nat,
           LengthsFit(name) => \A l \in 1..Len(nest) : Lies(nest[l])
    PROVE  Good(K2(name, widths, nest))
<1> DEFINE k == K2(name, widths, nest)
<1>1. /\ k.nest = nest /\ k.order = <<>> /\ k.cuts = {} /\ k.swap = FALSE /\ k.name = name /\ k.widths = widths
  BY DEF K2, Kernel
<1> HIDE DEF k
<1>2. Sized(k) /\ Formed(k)
  BY <1>1 DEF Sized, Formed
<1>3. Kept(k, 1)
  <2>1. ASSUME NEW l \in 1..Len(nest), NEW m \in 1..Len(nest[l]), NEW n \in 1..Len(nest[l]), m < n
        PROVE  Apart(k, 1, m, n)
    BY <2>1 DEF Apart
  <2>2. \A l \in 1..Len(nest) : \A n \in 1..Len(nest[l]) : Within(k, nest[l][n])
    BY <1>1 DEF Within, PlaceOf
  <2> QED
    BY <1>1, <1>2, <2>1, <2>2, InnerKept
<1>4. \A v \in 1..AnyWidth : v <= widths => v = 1
  BY DEF None, Sometimes, AnyWidth
<1> QED
  BY <1>1, <1>2, <1>3, <1>4 DEF Good, Sound, k

-----------------------------------------------------------------------------
(* Loops. *)

LEMMA LenOfNat ==
    ASSUME NEW N \in Nat, NEW f, f = [n \in 1..N |-> f[n]]
    PROVE  Len(f) = N
OBVIOUS

LEMMA LenIs ==
    ASSUME NEW N \in Int, NEW f, f = [n \in 1..N |-> f[n]]
    PROVE  Len(f) = (IF N > 0 THEN N ELSE 0) /\ 1..Len(f) = 1..N
<1>1. CASE N > 0
  BY <1>1, LenOfNat
<1>2. CASE ~(N > 0)
  <2>1. 1..N = 1..0
    BY <1>2
  <2>2. f = [n \in 1..0 |-> f[n]]
    BY <2>1
  <2>3. Len(f) = 0
    BY <2>2, LenOfNat
  <2>4. 1..Len(f) = 1..N
    BY <2>1, <2>3
  <2>5. Len(f) = (IF N > 0 THEN N ELSE 0)
    BY <1>2, <2>3
  <2> QED
    BY <2>4, <2>5
<1> QED
  BY <1>1, <1>2

\* The iterations of a loop over N values.
LEMMA LoopIs ==
    ASSUME NEW N \in Int, NEW its, its = [n \in 1..N |-> its[n]], NEW body
    PROVE  /\ Len(Loop(its, body)) = (IF N > 0 THEN N ELSE 0)
           /\ Len(Loop(its, body)) \in Nat
           /\ 1..Len(Loop(its, body)) = 1..N
           /\ \A n \in 1..N : Loop(its, body)[n] = body[its[n]]
<1> DEFINE L == Loop(its, body)
<1>1. DOMAIN its = 1..N
  OBVIOUS
<1>2. L = [n \in 1..N |-> body[its[n]]]
  BY <1>1 DEF Loop
<1> HIDE DEF L
<1>3. L = [n \in 1..N |-> L[n]]
  BY <1>2
<1>4. \A n \in 1..N : L[n] = body[its[n]]
  BY <1>2
<1>5. Len(L) = (IF N > 0 THEN N ELSE 0) /\ 1..Len(L) = 1..N
  BY <1>3, LenIs
<1>6. (IF N > 0 THEN N ELSE 0) \in Nat
  OBVIOUS
<1> QED
  BY <1>4, <1>5, <1>6 DEF L

LEMMA UpLoop ==
    ASSUME NEW lo \in Int, NEW hi \in Int, NEW body
    PROVE  /\ Len(Loop(Up(lo, hi), body)) = (IF hi > lo THEN hi - lo ELSE 0)
           /\ Len(Loop(Up(lo, hi), body)) \in Nat
           /\ 1..Len(Loop(Up(lo, hi), body)) = 1..(hi - lo)
           /\ \A n \in 1..(hi - lo) : Loop(Up(lo, hi), body)[n] = body[lo + n - 1]
<1> DEFINE its == Up(lo, hi)  N == hi - lo
<1>1. its = [n \in 1..N |-> lo + n - 1] /\ N \in Int
  BY DEF Up
<1> HIDE DEF its, N
<1>2. its = [n \in 1..N |-> its[n]] /\ \A n \in 1..N : its[n] = lo + n - 1
  BY <1>1
<1>3. /\ Len(Loop(its, body)) = (IF N > 0 THEN N ELSE 0)
      /\ Len(Loop(its, body)) \in Nat
      /\ 1..Len(Loop(its, body)) = 1..N
      /\ \A n \in 1..N : Loop(its, body)[n] = body[its[n]]
  BY <1>1, <1>2, LoopIs
<1>4. (IF N > 0 THEN N ELSE 0) = (IF hi > lo THEN hi - lo ELSE 0)
  BY DEF N
<1>5. \A n \in 1..N : Loop(its, body)[n] = body[lo + n - 1]
  BY <1>2, <1>3
<1> QED
  BY <1>3, <1>4, <1>5 DEF its, N

LEMMA UpSideBySide ==
    ASSUME NEW lo \in Int, NEW hi \in Int, NEW body,
           \A i \in Int : lo <= i /\ i < hi => Len(body[i]) \in Nat,
           \A i, j \in Int : lo <= i /\ i < j /\ j < hi => Side(body[i], body[j])
    PROVE  SideBySide(Loop(Up(lo, hi), body))
<1> DEFINE L == Loop(Up(lo, hi), body)
<1>1. Len(L) \in Nat /\ 1..Len(L) = 1..(hi - lo) /\ \A n \in 1..(hi - lo) : L[n] = body[lo + n - 1]
  BY UpLoop
<1> HIDE DEF L
<1>2. ASSUME NEW n \in 1..(hi - lo)
      PROVE  lo + n - 1 \in Int /\ lo <= lo + n - 1 /\ lo + n - 1 < hi
  OBVIOUS
<1>3. ASSUME NEW n \in 1..(hi - lo) PROVE Len(L[n]) \in Nat
  BY <1>1, <1>2
<1>4. ASSUME NEW m \in 1..(hi - lo), NEW n \in 1..(hi - lo), m < n PROVE Side(L[m], L[n])
  <2>1. lo + m - 1 < lo + n - 1
    BY <1>4
  <2> QED
    BY <1>1, <1>2, <2>1
<1> QED
  BY <1>1, <1>3, <1>4 DEF SideBySide, L

LEMMA UpLies ==
    ASSUME NEW lo \in Int, NEW hi \in Int, NEW body,
           \A i \in Int : lo <= i /\ i < hi => \A p \in 1..Len(body[i]) : Inside(body[i][p])
    PROVE  Lies(Loop(Up(lo, hi), body))
<1> DEFINE L == Loop(Up(lo, hi), body)
<1>1. 1..Len(L) = 1..(hi - lo) /\ \A n \in 1..(hi - lo) : L[n] = body[lo + n - 1]
  BY UpLoop
<1> HIDE DEF L
<1>2. ASSUME NEW n \in 1..(hi - lo)
      PROVE  \A p \in 1..Len(L[n]) : Inside(L[n][p])
  <2>1. lo + n - 1 \in Int /\ lo <= lo + n - 1 /\ lo + n - 1 < hi
    OBVIOUS
  <2> QED
    BY <1>1, <2>1
<1> QED
  BY <1>1, <1>2 DEF Lies, L

\* Loops of one statement.
LEMMA OneStatement ==
    ASSUME NEW name, NEW widths, NEW lo \in Int, NEW hi \in Int, NEW body,
           \A i \in Int : Len(body[i]) = 1,
           \A i, j \in Int : lo <= i /\ i < j /\ j < hi => ~Flow(body[i][1], body[j][1]),
           LengthsFit(name) => \A i \in Int : lo <= i /\ i < hi => Inside(body[i][1])
    PROVE  Good(K(name, widths, Loop(Up(lo, hi), body)))
<1>1. SideBySide(Loop(Up(lo, hi), body))
  <2>1. \A i, j \in Int : lo <= i /\ i < j /\ j < hi => Side(body[i], body[j])
    BY DEF Side
  <2> QED
    BY <2>1, UpSideBySide
<1>2. LengthsFit(name) => Lies(Loop(Up(lo, hi), body))
  BY UpLies
<1> QED
  BY <1>1, <1>2, StraightLoop

LEMMA CellsDeclared ==
    /\ \A i \in Int : 0 <= i /\ i < LEN_1D =>
          Declared(a(i)) /\ Declared(b(i)) /\ Declared(c(i)) /\ Declared(d(i)) /\ Declared(e(i)) /\ Declared(x(i))
    /\ \A i, j \in Int : 0 <= i /\ i < LEN_2D /\ 0 <= j /\ j < LEN_2D =>
          Declared(aa(i, j)) /\ Declared(bb(i, j)) /\ Declared(cc(i, j))
    /\ \A i \in Int : 0 <= i /\ i < LEN_2D * LEN_2D => Declared(flat(i))
    /\ \A i : Declared(s(i)) /\ Declared(t(i)) /\ Declared(out(i))
    /\ Declared(acc)
BY LoopsAssumption DEF Declared, a, b, c, d, e, x, aa, bb, cc, flat, s, t, out, acc

LEMMA Numbers ==
    /\ LEN_1D \in Nat \ {0} /\ LEN_2D \in Nat \ {0} /\ Strip \in Nat \ {0}
    /\ LEN_1D \div 2 \in Nat /\ 2 * (LEN_1D \div 2) <= LEN_1D
    /\ LEN_2D \div 2 \in Nat /\ 2 * (LEN_2D \div 2) <= LEN_2D /\ LEN_2D <= 2 * (LEN_2D \div 2) + 1
BY LoopsAssumption

LEMMA IndexIs ==
    ASSUME NEW i \in Int
    PROVE  /\ ip(i) \in Int /\ 0 <= ip(i) /\ ip(i) < LEN_2D
           /\ indx(i) \in Int /\ 0 <= indx(i) /\ indx(i) < LEN_1D
BY LoopsAssumption DEF ip, indx

\* What a cell is called, and where it is.
LEMMA CellIs ==
    /\ \A i : /\ a(i)[1] = "a" /\ b(i)[1] = "b" /\ c(i)[1] = "c" /\ d(i)[1] = "d" /\ e(i)[1] = "e" /\ x(i)[1] = "x"
              /\ a(i)[2] = i /\ b(i)[2] = i /\ c(i)[2] = i /\ d(i)[2] = i /\ e(i)[2] = i /\ x(i)[2] = i
    /\ \A i, j : /\ aa(i, j)[1] = "aa" /\ bb(i, j)[1] = "bb" /\ cc(i, j)[1] = "cc"
                 /\ aa(i, j)[2] = i /\ bb(i, j)[2] = i /\ cc(i, j)[2] = i
                 /\ aa(i, j)[3] = j /\ bb(i, j)[3] = j /\ cc(i, j)[3] = j
    /\ \A i : flat(i)[1] = "flat_2d_array" /\ flat(i)[2] = i
    /\ \A i : s(i)[1] = "s" /\ t(i)[1] = "t" /\ out(i)[1] = "out" /\ s(i)[2] = i /\ t(i)[2] = i /\ out(i)[2] = i
    /\ acc[1] = "acc"
BY DEF a, b, c, d, e, x, aa, bb, cc, flat, s, t, out, acc


-----------------------------------------------------------------------------
(* Iterations that keep to their own elements, but for a reduction. *)

Own(i) == {a(i), b(i), c(i), d(i), e(i), x(i), s(i), t(i)}
Elements(i) == [w : SUBSET Own(i), r : SUBSET Own(i), acc : SUBSET (Own(i) \cup {acc})]

LEMMA OwnIs ==
    ASSUME NEW i \in Int, NEW j \in Int, i # j
    PROVE  Own(i) \cap Own(j) = {} /\ acc \notin Own(i)
BY DEF Own, a, b, c, d, e, x, s, t, acc

LEMMA ElementsLie ==
    ASSUME NEW i \in Int, 0 <= i, i < LEN_1D, NEW S \in Elements(i)
    PROVE  Inside(S)
<1>1. \A cell \in Own(i) \cup {acc} : Declared(cell)
  BY CellsDeclared DEF Own
<1>2. Touched(S) \subseteq Own(i) \cup {acc}
  BY DEF Elements, Touched
<1> QED
  BY <1>1, <1>2 DEF Inside

LEMMA ElementsSide ==
    ASSUME NEW i \in Int, NEW j \in Int, i # j, NEW S \in Elements(i), NEW T \in Elements(j)
    PROVE  ~Conflict(S, T) /\ ~Flow(S, T)
<1>1. /\ S.w \subseteq Own(i) /\ S.r \subseteq Own(i) /\ S.acc \subseteq Own(i) \cup {acc}
      /\ T.w \subseteq Own(j) /\ T.r \subseteq Own(j) /\ T.acc \subseteq Own(j) \cup {acc}
  BY DEF Elements
<1>2. Own(i) \cap Own(j) = {} /\ acc \notin Own(i) /\ acc \notin Own(j)
  BY OwnIs
<1> QED
  BY <1>1, <1>2 DEF Conflict, Flow, Touched

LEMMA OwnElements ==
    ASSUME NEW name, NEW widths, NEW lo \in Int, NEW hi \in Int, NEW body, 0 <= lo, hi <= LEN_1D,
           \A i \in Int : body[i] \in Seq(Elements(i))
    PROVE  Good(K(name, widths, Loop(Up(lo, hi), body)))
<1>1. \A i \in Int : Len(body[i]) \in Nat /\ \A p \in 1..Len(body[i]) : body[i][p] \in Elements(i)
  OBVIOUS
<1>2. SideBySide(Loop(Up(lo, hi), body))
  <2>1. ASSUME NEW i \in Int, NEW j \in Int, i < j PROVE Side(body[i], body[j])
    BY <1>1, <2>1, ElementsSide DEF Side
  <2> QED
    BY <1>1, <2>1, UpSideBySide
<1>3. Lies(Loop(Up(lo, hi), body))
  <2>1. ASSUME NEW i \in Int, lo <= i, i < hi PROVE \A p \in 1..Len(body[i]) : Inside(body[i][p])
    <3>1. 0 <= i /\ i < LEN_1D
      BY <2>1, Numbers
    <3> QED
      BY <1>1, <3>1, ElementsLie
  <2> QED
    BY <2>1, UpLies
<1> QED
  BY <1>2, <1>3, StraightLoop

\* A test, and the statements under a condition, are statements of the iteration.
LEMMA IfIs ==
    ASSUME NEW i, NEW p, NEW S \in Seq(Elements(i))
    PROVE  If(p, S) \in Seq(Elements(i))
<1>1. Test({}) \in Elements(i)
  BY DEF Test, Elements
<1>2. [n \in 1..Len(S) |-> Test({})] \in Seq(Elements(i))
  BY <1>1
<1> QED
  BY <1>2 DEF If

-----------------------------------------------------------------------------
(* The first exit. *)

LEMMA Least ==
    ASSUME NEW T \in SUBSET Nat, T # {}
    PROVE  \E n \in T : \A i \in T : n <= i
<1> DEFINE R == OpToRel(<, Nat)
<1>1. IsWellFoundedOn(R, Nat)
  BY NatLessThanWellFounded, Zenon
<1>2. R = {p \in Nat \X Nat : p[1] < p[2]}
  BY Zenon DEF OpToRel
<1> HIDE DEF R
<1>3. PICK n \in T : \A i \in T : ~(<<i, n>> \in R)
  BY <1>1, WFMin, Zenon
<1>4. \A i \in T : ~(i < n)
  BY <1>2, <1>3
<1> QED
  BY <1>3, <1>4

LEMMA UntilIs ==
    ASSUME NEW m
    PROVE  Until(m) \in Int /\ Until(m) <= LEN_1D
<1>1. Exit(m) \in SUBSET Nat /\ \A i \in Exit(m) : i < LEN_1D
  BY LoopsAssumption DEF Exit
<1>2. CASE Exit(m) = {}
  BY <1>2, LoopsAssumption DEF Until
<1>3. CASE Exit(m) # {}
  <2> DEFINE first_exit == CHOOSE i \in Exit(m) : \A n \in Exit(m) : i <= n
  <2>1. first_exit \in Exit(m)
    BY <1>1, <1>3, Least
  <2> QED
    BY <1>1, <1>3, <2>1, LoopsAssumption DEF Until
<1> QED
  BY <1>2, <1>3


-----------------------------------------------------------------------------
(* Conditional statements in a row: those that are not executed are empty. *)

Maybe(p, S) == IF p THEN S ELSE Test({})

LEMMA IfOf ==
    ASSUME NEW p, NEW A, NEW B, NEW C
    PROVE  /\ If(p, <<A>>) = <<Maybe(p, A)>>
           /\ If(p, <<A, B>>) = <<Maybe(p, A), Maybe(p, B)>>
           /\ If(p, <<A, B, C>>) = <<Maybe(p, A), Maybe(p, B), Maybe(p, C)>>
BY DEF If, Maybe

LEMMA InARow ==
    ASSUME NEW A, NEW B, NEW C, NEW D, NEW F
    PROVE  /\ LET J == <<A>> \o <<B>> IN Len(J) = 2 /\ J[1] = A /\ J[2] = B
           /\ LET J == <<A>> \o <<B, C>> IN Len(J) = 3 /\ J[1] = A /\ J[2] = B /\ J[3] = C
           /\ LET J == <<A>> \o <<B>> \o <<C>> IN Len(J) = 3 /\ J[1] = A /\ J[2] = B /\ J[3] = C
           /\ LET J == <<A>> \o <<B, C, D>> IN Len(J) = 4 /\ J[1] = A /\ J[2] = B /\ J[3] = C /\ J[4] = D
           /\ LET J == <<A, B, C>> \o <<D, F>>
              IN  Len(J) = 5 /\ J[1] = A /\ J[2] = B /\ J[3] = C /\ J[4] = D /\ J[5] = F
<1>1. /\ <<A>> \in Seq({A, B, C, D, F}) /\ <<B>> \in Seq({A, B, C, D, F}) /\ <<C>> \in Seq({A, B, C, D, F})
      /\ <<B, C>> \in Seq({A, B, C, D, F}) /\ <<B, C, D>> \in Seq({A, B, C, D, F})
      /\ <<A, B, C>> \in Seq({A, B, C, D, F}) /\ <<D, F>> \in Seq({A, B, C, D, F})
  OBVIOUS
<1> QED
  BY <1>1

LEMMA TestThenOne ==
    ASSUME NEW A, NEW p, NEW B
    PROVE  LET J == <<A>> \o If(p, <<B>>) IN Len(J) = 2 /\ J[1] = A /\ J[2] = Maybe(p, B)
<1> DEFINE P == Maybe(p, B)
<1>1. If(p, <<B>>) = <<P>>
  BY IfOf
<1> HIDE DEF P
<1>2. LET J == <<A>> \o <<P>> IN Len(J) = 2 /\ J[1] = A /\ J[2] = P
  BY InARow
<1> QED
  BY <1>1, <1>2 DEF P

LEMMA TestThenTwo ==
    ASSUME NEW A, NEW p, NEW B, NEW C
    PROVE  LET J == <<A>> \o If(p, <<B, C>>)
           IN  Len(J) = 3 /\ J[1] = A /\ J[2] = Maybe(p, B) /\ J[3] = Maybe(p, C)
<1> DEFINE P == Maybe(p, B)  Q == Maybe(p, C)
<1>1. If(p, <<B, C>>) = <<P, Q>>
  BY IfOf
<1> HIDE DEF P, Q
<1>2. LET J == <<A>> \o <<P, Q>> IN Len(J) = 3 /\ J[1] = A /\ J[2] = P /\ J[3] = Q
  BY InARow
<1> QED
  BY <1>1, <1>2 DEF P, Q

LEMMA TestThenThree ==
    ASSUME NEW A, NEW p, NEW B, NEW C, NEW D
    PROVE  LET J == <<A>> \o If(p, <<B, C, D>>)
           IN  Len(J) = 4 /\ J[1] = A /\ J[2] = Maybe(p, B) /\ J[3] = Maybe(p, C) /\ J[4] = Maybe(p, D)
<1> DEFINE P == Maybe(p, B)  Q == Maybe(p, C)  R == Maybe(p, D)
<1>1. If(p, <<B, C, D>>) = <<P, Q, R>>
  BY DEF If, Maybe
<1> HIDE DEF P, Q, R
<1>2. LET J == <<A>> \o <<P, Q, R>> IN Len(J) = 4 /\ J[1] = A /\ J[2] = P /\ J[3] = Q /\ J[4] = R
  BY InARow
<1> QED
  BY <1>1, <1>2 DEF P, Q, R

LEMMA ThreeThenTwo ==
    ASSUME NEW A, NEW B, NEW C, NEW p, NEW D, NEW F
    PROVE  LET J == <<A, B, C>> \o If(p, <<D, F>>)
           IN  Len(J) = 5 /\ J[1] = A /\ J[2] = B /\ J[3] = C /\ J[4] = Maybe(p, D) /\ J[5] = Maybe(p, F)
<1> DEFINE P == Maybe(p, D)  Q == Maybe(p, F)
<1>1. If(p, <<D, F>>) = <<P, Q>>
  BY IfOf
<1> HIDE DEF P, Q
<1>2. LET J == <<A, B, C>> \o <<P, Q>> IN Len(J) = 5 /\ J[1] = A /\ J[2] = B /\ J[3] = C /\ J[4] = P /\ J[5] = Q
  BY InARow
<1> QED
  BY <1>1, <1>2 DEF P, Q

\* What is not executed touches nothing.
LEMMA MaybeLess ==
    ASSUME NEW p, NEW S, NEW q, NEW T
    PROVE  /\ ~Conflict(S, T) => ~Conflict(Maybe(p, S), T) /\ ~Conflict(S, Maybe(q, T)) /\ ~Conflict(Maybe(p, S), Maybe(q, T))
           /\ ~Flow(S, T) => ~Flow(Maybe(p, S), T) /\ ~Flow(S, Maybe(q, T)) /\ ~Flow(Maybe(p, S), Maybe(q, T))
           /\ Inside(S) => Inside(Maybe(p, S))
<1>1. Maybe(p, S) = S \/ Maybe(p, S) = Test({})
  BY DEF Maybe
<1>2. Maybe(q, T) = T \/ Maybe(q, T) = Test({})
  BY DEF Maybe
<1>3. \A U : ~Conflict(Test({}), U) /\ ~Conflict(U, Test({})) /\ ~Flow(Test({}), U) /\ ~Flow(U, Test({}))
  BY DEF Test, Conflict, Flow, Touched
<1>4. Inside(Test({}))
  BY DEF Test, Inside, Touched
<1> QED
  BY <1>1, <1>2, <1>3, <1>4


-----------------------------------------------------------------------------
(* Loops whose statements are in another order in the code, or which are cut *)
(* into chunks: at[p] is the place of statement p.                           *)

Straight(N) == [p \in 1..N |-> p]
OrderIs(order, at, N) ==
    \/ order = <<>> /\ at = Straight(N)
    \/ /\ order # <<>> /\ Len(order) = N
       /\ \A p \in 1..N : /\ order[p] \in 1..N /\ at[order[p]] = p
                          /\ at[p] \in 1..N /\ order[at[p]] = p

\* Statements of iterations I and then J that may be executed in one chunk.
Together(at, I, J) ==
    \A p \in DOMAIN at : \A q \in DOMAIN at :
        Conflict(I[p], J[q]) => at[p] < at[q] \/ (p = q /\ ~Flow(I[p], J[q]))
Ordered(at, I) ==
    \A p \in DOMAIN at : \A q \in DOMAIN at : p < q /\ Conflict(I[p], I[q]) => at[p] < at[q]

LEMMA OrderedLoop ==
    ASSUME NEW name, NEW widths, NEW L, Len(L) \in Nat, NEW order, NEW cuts, cuts \subseteq Int,
           NEW N \in Nat, NEW at, DOMAIN at = 1..N, OrderIs(order, at, N),
           \A n \in 1..Len(L) : Len(L[n]) = N,
           \A n \in 1..Len(L) : Ordered(at, L[n]),
           \A m, n \in 1..Len(L) : m < n =>
              \/ n - m >= widths
              \/ \E cut \in cuts : m <= cut /\ cut < n
              \/ Together(at, L[m], L[n]),
           widths \in Int,
           LengthsFit(name) => Lies(L)
    PROVE  Good(Kernel(name, widths, <<L>>, order, cuts, FALSE))
<1> DEFINE k == Kernel(name, widths, <<L>>, order, cuts, FALSE)
<1>1. /\ k.nest = <<L>> /\ k.order = order /\ k.cuts = cuts /\ k.swap = FALSE /\ k.name = name
      /\ k.widths = widths
  BY DEF Kernel
<1> HIDE DEF k
<1>2. Len(k.nest) = 1 /\ k.nest[1] = L
  <2>1. Len(<<L>>) = 1 /\ <<L>>[1] = L
    OBVIOUS
  <2> QED
    BY <1>1, <2>1
<1>3. Sized(k)
  <2>1. \A l \in 1..Len(k.nest) : k.nest[l] = L
    BY <1>2
  <2> QED
    BY <1>1, <1>2, <2>1 DEF Sized
<1>4. Formed(k) /\ \A p \in 1..N : PlaceOf(k, p) = at[p]
  <2>1. CASE order = <<>> /\ at = Straight(N)
    BY <1>1, <2>1 DEF Formed, PlaceOf, Straight
  <2>2. CASE /\ order # <<>> /\ Len(order) = N
             /\ \A p \in 1..N : /\ order[p] \in 1..N /\ at[order[p]] = p
                                /\ at[p] \in 1..N /\ order[at[p]] = p
    <3>1. \A i, j \in 1..N : order[i] = order[j] => i = j
      BY <2>2
    <3>2. \A i \in 1..N : \E p \in 1..N : order[p] = i
      BY <2>2
    <3>3. Formed(k)
      <4>0. Len(order) = N /\ \A l \in 1..Len(k.nest) : k.nest[l] = L
        BY <1>2, <2>2
      <4>1. ASSUME NEW l \in 1..Len(k.nest), NEW n \in 1..Len(k.nest[l])
            PROVE  Len(k.nest[l][n]) = Len(order)
        <5>1. k.nest[l] = L /\ n \in 1..Len(L)
          BY <4>0
        <5> QED
          BY <4>0, <5>1
      <4>2. \A i \in 1..Len(order) : order[i] \in 1..Len(order)
        BY <2>2
      <4> QED
        BY <1>1, <2>2, <3>1, <3>2, <4>1, <4>2 DEF Formed
    <3>4. ASSUME NEW p \in 1..N PROVE PlaceOf(k, p) = at[p]
      <4>1. PlaceOf(k, p) = CHOOSE i \in 1..N : order[i] = p
        BY <1>1, <2>2 DEF PlaceOf
      <4>2. PlaceOf(k, p) \in 1..N /\ order[PlaceOf(k, p)] = p
        BY <3>2, <4>1
      <4> QED
        BY <2>2, <3>1, <4>2
    <3> QED
      BY <3>3, <3>4
  <2> QED
    BY <2>1, <2>2 DEF OrderIs
<1>5. ASSUME NEW v \in 1..AnyWidth, v <= widths
      PROVE  Kept(k, v)
  <2>1. ASSUME NEW m \in 1..Len(L), NEW n \in 1..Len(L), m < n
        PROVE  Apart(k, v, m, n) \/ Beside(k, L[m], L[n])
    <3>1. ASSUME Together(at, L[m], L[n]) PROVE Beside(k, L[m], L[n])
      <4>1. Len(L[m]) = N /\ Len(L[n]) = N
        OBVIOUS
      <4> QED
        BY <1>4, <3>1, <4>1 DEF Together, Beside
    <3>2. n - m >= widths => n - m >= v
      BY <1>5 DEF AnyWidth
    <3> QED
      BY <1>1, <2>1, <3>1, <3>2 DEF Apart
  <2>2. ASSUME NEW n \in 1..Len(L)
        PROVE  Within(k, L[n])
    BY <1>4 DEF Ordered, Within
  <2>3. /\ \A l \in 1..Len(k.nest) : \A m, n \in 1..Len(k.nest[l]) :
              m < n => Apart(k, v, m, n) \/ Beside(k, k.nest[l][m], k.nest[l][n])
        /\ \A l \in 1..Len(k.nest) : \A n \in 1..Len(k.nest[l]) : Within(k, k.nest[l][n])
    BY <1>2, <2>1, <2>2
  <2> QED
    BY <1>1, <1>3, <2>3, InnerKept
<1>6. LengthsFit(k.name) => \A l \in 1..Len(k.nest) : Lies(k.nest[l])
  BY <1>1, <1>2
<1> QED
  BY <1>1, <1>3, <1>4, <1>5, <1>6 DEF Good, Sound, k

LEMMA OrderedUp ==
    ASSUME NEW name, NEW widths \in Int, NEW lo \in Int, NEW hi \in Int, NEW body,
           NEW order, NEW cuts, cuts \subseteq Int,
           NEW N \in Nat, NEW at, DOMAIN at = 1..N, OrderIs(order, at, N),
           \A i \in Int : Len(body[i]) = N,
           \A i \in Int : lo <= i /\ i < hi => Ordered(at, body[i]),
           \A i, j \in Int : lo <= i /\ i < j /\ j < hi =>
              \/ j - i >= widths
              \/ \E cut \in cuts : i < lo + cut /\ lo + cut <= j
              \/ Together(at, body[i], body[j]),
           LengthsFit(name) => \A i \in Int : lo <= i /\ i < hi => \A p \in 1..N : Inside(body[i][p])
    PROVE  Good(Kernel(name, widths, <<Loop(Up(lo, hi), body)>>, order, cuts, FALSE))
<1> DEFINE L == Loop(Up(lo, hi), body)
<1>1. Len(L) \in Nat /\ 1..Len(L) = 1..(hi - lo) /\ \A n \in 1..(hi - lo) : L[n] = body[lo + n - 1]
  BY UpLoop
<1>2. LengthsFit(name) => Lies(L)
  BY UpLies
<1> HIDE DEF L
<1>3. ASSUME NEW n \in 1..(hi - lo)
      PROVE  lo + n - 1 \in Int /\ lo <= lo + n - 1 /\ lo + n - 1 < hi
  OBVIOUS
<1>4. \A n \in 1..Len(L) : Len(L[n]) = N /\ Ordered(at, L[n])
  BY <1>1, <1>3
<1>5. ASSUME NEW m \in 1..Len(L), NEW n \in 1..Len(L), m < n
      PROVE  \/ n - m >= widths
             \/ \E cut \in cuts : m <= cut /\ cut < n
             \/ Together(at, L[m], L[n])
  <2> DEFINE i == lo + m - 1  j == lo + n - 1
  <2>1. i \in Int /\ j \in Int /\ lo <= i /\ i < j /\ j < hi /\ j - i = n - m /\ L[m] = body[i] /\ L[n] = body[j]
    BY <1>1, <1>5
  <2>2. \A cut \in Int : i < lo + cut /\ lo + cut <= j => m <= cut /\ cut < n
    BY <1>1
  <2> HIDE DEF i, j
  <2>3. \/ j - i >= widths
        \/ \E cut \in cuts : i < lo + cut /\ lo + cut <= j
        \/ Together(at, body[i], body[j])
    BY <2>1
  <2> QED
    BY <2>1, <2>2, <2>3
<1> QED
  BY <1>1, <1>2, <1>4, <1>5, OrderedLoop DEF L


\* The loop for (i = lo; i < hi; i++) whose N statements are at the places of at.
Reorders(name, lo, hi, body, order, at, N) ==
    /\ lo \in Int /\ hi \in Int /\ N \in Nat /\ DOMAIN at = 1..N /\ OrderIs(order, at, N)
    /\ \A i \in Int : Len(body[i]) = N
    /\ \A i \in Int : lo <= i /\ i < hi => Ordered(at, body[i])
    /\ \A i, j \in Int : lo <= i /\ i < j /\ j < hi => Together(at, body[i], body[j])
    /\ LengthsFit(name) => \A i \in Int : lo <= i /\ i < hi => \A p \in 1..N : Inside(body[i][p])

LEMMA ReorderedUp ==
    ASSUME NEW name, NEW lo, NEW hi, NEW body, NEW order, NEW at, NEW N,
           Reorders(name, lo, hi, body, order, at, N)
    PROVE  Good(Kernel(name, AnyWidth, <<Loop(Up(lo, hi), body)>>, order, {}, FALSE))
<1> DEFINE cuts == {}
<1>1. cuts \subseteq Int /\ AnyWidth \in Int
  BY DEF AnyWidth
<1> HIDE DEF cuts
<1>2. /\ lo \in Int /\ hi \in Int /\ N \in Nat /\ DOMAIN at = 1..N /\ OrderIs(order, at, N)
      /\ \A i \in Int : Len(body[i]) = N
      /\ \A i \in Int : lo <= i /\ i < hi => Ordered(at, body[i])
      /\ LengthsFit(name) => \A i \in Int : lo <= i /\ i < hi => \A p \in 1..N : Inside(body[i][p])
  BY DEF Reorders
<1>3. \A i, j \in Int : lo <= i /\ i < j /\ j < hi =>
         \/ j - i >= AnyWidth
         \/ \E cut \in cuts : i < lo + cut /\ lo + cut <= j
         \/ Together(at, body[i], body[j])
  BY DEF Reorders
<1>4. Good(Kernel(name, AnyWidth, <<Loop(Up(lo, hi), body)>>, order, cuts, FALSE))
  BY <1>1, <1>2, <1>3, OrderedUp
<1> QED
  BY <1>4 DEF cuts


\* The same of a loop that steps through its values in another way.
LEMMA OrderedBy ==
    ASSUME NEW name, NEW widths \in Int, NEW M \in Int, NEW its, its = [n \in 1..M |-> its[n]], NEW body,
           NEW order, NEW N \in Nat, NEW at, DOMAIN at = 1..N, OrderIs(order, at, N),
           \A n \in 1..M : Len(body[its[n]]) = N /\ Ordered(at, body[its[n]]),
           \A m, n \in 1..M : m < n => Together(at, body[its[m]], body[its[n]]),
           LengthsFit(name) => \A n \in 1..M : \A p \in 1..N : Inside(body[its[n]][p])
    PROVE  Good(Kernel(name, widths, <<Loop(its, body)>>, order, {}, FALSE))
<1> DEFINE L == Loop(its, body)
<1>1. Len(L) \in Nat /\ 1..Len(L) = 1..M /\ \A n \in 1..M : L[n] = body[its[n]]
  BY LoopIs
<1> HIDE DEF L
<1>2. \A n \in 1..Len(L) : Len(L[n]) = N /\ Ordered(at, L[n])
  BY <1>1
<1>3. \A m, n \in 1..Len(L) : m < n => Together(at, L[m], L[n])
  BY <1>1
<1>4. ASSUME LengthsFit(name) PROVE Lies(L)
  BY <1>1, <1>2, <1>4 DEF Lies
<1> QED
  BY <1>1, <1>2, <1>3, <1>4, OrderedLoop DEF L


-----------------------------------------------------------------------------
(* Nests. *)

LEMMA OneSide ==
    ASSUME NEW lo \in Int, NEW hi \in Int, NEW body,
           \A i \in Int : Len(body[i]) = 1,
           \A i, j \in Int : lo <= i /\ i < j /\ j < hi => ~Flow(body[i][1], body[j][1])
    PROVE  SideBySide(Loop(Up(lo, hi), body))
<1>1. \A i, j \in Int : lo <= i /\ i < j /\ j < hi => Side(body[i], body[j])
  BY DEF Side
<1> QED
  BY <1>1, UpSideBySide

LEMMA OneLies ==
    ASSUME NEW lo \in Int, NEW hi \in Int, NEW body,
           \A i \in Int : Len(body[i]) = 1,
           \A i \in Int : lo <= i /\ i < hi => Inside(body[i][1])
    PROVE  Lies(Loop(Up(lo, hi), body))
BY UpLies

LEMMA UpNest ==
    ASSUME NEW name, NEW widths, NEW lo \in Int, NEW hi \in Int, NEW rows,
           \A i \in Int : lo <= i /\ i < hi => SideBySide(rows[i]),
           LengthsFit(name) => \A i \in Int : lo <= i /\ i < hi => Lies(rows[i])
    PROVE  Good(K2(name, widths, Loop(Up(lo, hi), rows)))
<1> DEFINE nest == Loop(Up(lo, hi), rows)
<1>1. Len(nest) \in Nat /\ 1..Len(nest) = 1..(hi - lo) /\ \A n \in 1..(hi - lo) : nest[n] = rows[lo + n - 1]
  BY UpLoop
<1> HIDE DEF nest
<1>2. ASSUME NEW n \in 1..(hi - lo)
      PROVE  lo + n - 1 \in Int /\ lo <= lo + n - 1 /\ lo + n - 1 < hi
  OBVIOUS
<1>3. \A l \in 1..Len(nest) : SideBySide(nest[l])
  BY <1>1, <1>2
<1>4. LengthsFit(name) => \A l \in 1..Len(nest) : Lies(nest[l])
  BY <1>1, <1>2
<1> QED
  BY <1>1, <1>3, <1>4, StraightNest DEF nest

\* Turns of the inner loop that have nothing to do with each other may run side
\* by side.
LEMMA OuterKept ==
    ASSUME NEW k, NEW v, Sized(k), k.swap, k.order = <<>>,
           \A l, r \in 1..Len(k.nest) : l < r =>
              \A m \in 1..Len(k.nest[l]) : \A n \in 1..Len(k.nest[r]) :
                 \A p \in 1..Len(k.nest[l][m]) : \A q \in 1..Len(k.nest[r][n]) :
                    ~Conflict(k.nest[l][m][p], k.nest[r][n][q])
    PROVE  Kept(k, v)
<1>1. SUFFICES ASSUME NEW u \in Events(k), NEW w \in Events(k), Before(u, w), Conflict(At(k, u), At(k, w))
               PROVE  u[2] < w[2] \/ (u[2] = w[2] /\ InCode(k, u, w))
  BY DEF Kept
<1>2. /\ u[1] \in 1..Len(k.nest) /\ u[2] \in 1..Len(k.nest[u[1]]) /\ u[3] \in 1..Len(k.nest[u[1]][u[2]])
      /\ w[1] \in 1..Len(k.nest) /\ w[2] \in 1..Len(k.nest[w[1]]) /\ w[3] \in 1..Len(k.nest[w[1]][w[2]])
  BY EventIs
<1>3. ~(u[1] < w[1])
  BY <1>1, <1>2 DEF At
<1> QED
  BY <1>1, <1>3 DEF Before, InCode, PlaceOf

LEMMA SwappedNest ==
    ASSUME NEW name, NEW widths, NEW lo \in Int, NEW hi \in Int, NEW rows,
           \A i \in Int : lo <= i /\ i < hi =>
              Len(rows[i]) \in Nat /\ \A n \in 1..Len(rows[i]) : Len(rows[i][n]) \in Nat,
           \A i, j \in Int : lo <= i /\ i < j /\ j < hi =>
              \A m \in 1..Len(rows[i]) : \A n \in 1..Len(rows[j]) :
                 \A p \in 1..Len(rows[i][m]) : \A q \in 1..Len(rows[j][n]) : ~Conflict(rows[i][m][p], rows[j][n][q]),
           LengthsFit(name) => \A i \in Int : lo <= i /\ i < hi => Lies(rows[i])
    PROVE  Good(Swapped(name, widths, Loop(Up(lo, hi), rows)))
<1> DEFINE nest == Loop(Up(lo, hi), rows)  k == Swapped(name, widths, nest)
<1>1. Len(nest) \in Nat /\ 1..Len(nest) = 1..(hi - lo) /\ \A n \in 1..(hi - lo) : nest[n] = rows[lo + n - 1]
  BY UpLoop
<1>2. k.nest = nest /\ k.order = <<>> /\ k.cuts = {} /\ k.swap = TRUE /\ k.name = name
  BY DEF Swapped, Kernel
<1> HIDE DEF nest, k
<1>3. ASSUME NEW n \in 1..(hi - lo)
      PROVE  lo + n - 1 \in Int /\ lo <= lo + n - 1 /\ lo + n - 1 < hi
  OBVIOUS
<1>4. Sized(k) /\ Formed(k)
  <2>1. \A l \in 1..Len(nest) : Len(nest[l]) \in Nat /\ \A n \in 1..Len(nest[l]) : Len(nest[l][n]) \in Nat
    BY <1>1, <1>3
  <2> QED
    BY <1>1, <1>2, <2>1 DEF Sized, Formed
<1>5. ASSUME NEW v PROVE Kept(k, v)
  <2>1. ASSUME NEW l \in 1..Len(nest), NEW r \in 1..Len(nest), l < r,
               NEW m \in 1..Len(nest[l]), NEW n \in 1..Len(nest[r]),
               NEW p \in 1..Len(nest[l][m]), NEW q \in 1..Len(nest[r][n])
        PROVE  ~Conflict(nest[l][m][p], nest[r][n][q])
    <3> DEFINE i == lo + l - 1  j == lo + r - 1
    <3>0. l \in 1..(hi - lo) /\ r \in 1..(hi - lo)
      BY <1>1
    <3>1. i \in Int /\ j \in Int /\ lo <= i /\ i < j /\ j < hi /\ nest[l] = rows[i] /\ nest[r] = rows[j]
      BY <1>1, <2>1, <3>0
    <3> HIDE DEF i, j
    <3> QED
      BY <2>1, <3>1
  <2> QED
    BY <1>2, <1>4, <2>1, OuterKept
<1>6. LengthsFit(name) => \A l \in 1..Len(nest) : Lies(nest[l])
  BY <1>1, <1>3
<1> QED
  BY <1>2, <1>4, <1>5, <1>6 DEF Good, Sound, k, nest

\* One lane of a loop, or of a nest.
LEMMA OneLaneUp ==
    ASSUME NEW name, NEW widths, widths \in {None, Sometimes}, NEW lo \in Int, NEW hi \in Int, NEW body,
           \A i \in Int : Len(body[i]) \in Nat,
           LengthsFit(name) => \A i \in Int : lo <= i /\ i < hi => \A p \in 1..Len(body[i]) : Inside(body[i][p])
    PROVE  Good(K(name, widths, Loop(Up(lo, hi), body)))
<1> DEFINE L == Loop(Up(lo, hi), body)
<1>1. Len(L) \in Nat /\ 1..Len(L) = 1..(hi - lo) /\ \A n \in 1..(hi - lo) : L[n] = body[lo + n - 1]
  BY UpLoop
<1>2. LengthsFit(name) => Lies(L)
  BY UpLies
<1> HIDE DEF L
<1>3. \A n \in 1..Len(L) : Len(L[n]) \in Nat
  BY <1>1
<1>4. Len(<<L>>) = 1 /\ <<L>>[1] = L
  OBVIOUS
<1>5. \A l \in 1..Len(<<L>>) : <<L>>[l] = L
  BY <1>4
<1>6. /\ \A l \in 1..Len(<<L>>) : Len(<<L>>[l]) \in Nat /\ \A n \in 1..Len(<<L>>[l]) : Len(<<L>>[l][n]) \in Nat
      /\ LengthsFit(name) => \A l \in 1..Len(<<L>>) : Lies(<<L>>[l])
  BY <1>1, <1>2, <1>3, <1>5
<1>7. Good(K2(name, widths, <<L>>))
  BY <1>4, <1>6, OneLane
<1> QED
  BY <1>7 DEF K, L

LEMMA OneLaneNest ==
    ASSUME NEW name, NEW widths, widths \in {None, Sometimes}, NEW lo \in Int, NEW hi \in Int, NEW rows,
           \A i \in Int : lo <= i /\ i < hi =>
              Len(rows[i]) \in Nat /\ \A n \in 1..Len(rows[i]) : Len(rows[i][n]) \in Nat,
           LengthsFit(name) => \A i \in Int : lo <= i /\ i < hi => Lies(rows[i])
    PROVE  Good(K2(name, widths, Loop(Up(lo, hi), rows)))
<1> DEFINE nest == Loop(Up(lo, hi), rows)
<1>1. Len(nest) \in Nat /\ 1..Len(nest) = 1..(hi - lo) /\ \A n \in 1..(hi - lo) : nest[n] = rows[lo + n - 1]
  BY UpLoop
<1> HIDE DEF nest
<1>2. ASSUME NEW n \in 1..(hi - lo)
      PROVE  lo + n - 1 \in Int /\ lo <= lo + n - 1 /\ lo + n - 1 < hi
  OBVIOUS
<1>3. \A l \in 1..Len(nest) : Len(nest[l]) \in Nat /\ \A n \in 1..Len(nest[l]) : Len(nest[l][n]) \in Nat
  BY <1>1, <1>2
<1>4. LengthsFit(name) => \A l \in 1..Len(nest) : Lies(nest[l])
  BY <1>1, <1>2
<1> QED
  BY <1>1, <1>3, <1>4, OneLane DEF nest


\* Where the rows of a square of rows are.
LEMMA RowMajor ==
    ASSUME NEW i \in Int, NEW j \in Int, 0 <= i, i < LEN_2D, 0 <= j, j < LEN_2D
    PROVE  /\ i * LEN_2D + j \in Int /\ 0 <= i * LEN_2D + j /\ i * LEN_2D + j < LEN_2D * LEN_2D
<1>1. i * LEN_2D \in Int /\ 0 <= i * LEN_2D
  BY Numbers
<1>2. (i + 1) * LEN_2D <= LEN_2D * LEN_2D
  BY Numbers
<1>3. (i + 1) * LEN_2D = i * LEN_2D + LEN_2D
  BY Numbers
<1> QED
  BY <1>1, <1>2, <1>3, Numbers

LEMMA PackedIs ==
    ASSUME NEW m, NEW n \in Nat
    PROVE  Packed(m, n) \in Nat /\ Packed(m, n) <= n
<1> DEFINE All == 0..(n - 1)
           Some == {i \in 0..(n - 1) : m[i]}
<1>1. IsFiniteSet(All) /\ Cardinality(All) = n
  BY FS_Interval
<1>2. IsFiniteSet(Some) /\ Cardinality(Some) <= Cardinality(All)
  BY <1>1, FS_Subset
<1>3. Cardinality(Some) \in Nat
  BY <1>2, FS_CardinalityType
<1> QED
  BY <1>1, <1>2, <1>3 DEF Packed

LEMMA RowsPacked ==
    ASSUME NEW m, NEW i \in Int, NEW j \in Int, 0 <= i, i < LEN_2D, 0 <= j, j < LEN_2D
    PROVE  LET p == i * Packed(m, LEN_2D) + Packed(m, j)
           IN  p \in Int /\ 0 <= p /\ p < LEN_2D * LEN_2D
<1>1. Packed(m, LEN_2D) \in Nat /\ Packed(m, LEN_2D) <= LEN_2D /\ Packed(m, j) \in Nat /\ Packed(m, j) <= j
  BY Numbers, PackedIs
<1>2. i * Packed(m, LEN_2D) \in Int /\ 0 <= i * Packed(m, LEN_2D) /\ i * Packed(m, LEN_2D) <= i * LEN_2D
  BY <1>1, Numbers
<1>3. i * LEN_2D + j \in Int /\ i * LEN_2D + j < LEN_2D * LEN_2D /\ i * LEN_2D \in Int
  BY RowMajor, Numbers
<1> QED
  BY <1>1, <1>2, <1>3, Numbers

LEMMA Halves ==
    ASSUME NEW y \in Int, NEW z \in Int, NEW k \in Int, 0 <= y, 0 <= k
    PROVE  /\ y \div 2 \in Int /\ 0 <= y \div 2 /\ y \div 2 <= y
           /\ z >= y + 2 * k + 2 => y \div 2 + k < z \div 2
OBVIOUS

\* Where the columns of a packed triangle begin.
LEMMA Triangle ==
    ASSUME NEW j \in Int, 0 <= j
    PROVE  /\ (j * (j + 1)) \div 2 \in Int /\ 0 <= (j * (j + 1)) \div 2
           /\ \A n \in Int : j < n => (j * (j + 1)) \div 2 + j < (n * (n + 1)) \div 2
           /\ j < LEN_2D => (j * (j + 1)) \div 2 + j < LEN_2D * LEN_2D
<1>1. j * (j + 1) \in Int /\ 0 <= j * (j + 1)
  OBVIOUS
<1>2. ASSUME NEW n \in Int, j < n PROVE (j * (j + 1)) \div 2 + j < (n * (n + 1)) \div 2
  <2>1. n * (n + 1) >= j * (j + 1) + 2 * j + 2 /\ n * (n + 1) \in Int
    BY <1>2
  <2> QED
    BY <1>1, <2>1, Halves
<1>3. ASSUME j < LEN_2D PROVE (j * (j + 1)) \div 2 + j < LEN_2D * LEN_2D
  <2>1. LEN_2D * LEN_2D >= j * (j + 1) + j + 1
    BY <1>3, Numbers
  <2>2. (j * (j + 1)) \div 2 <= j * (j + 1) /\ (j * (j + 1)) \div 2 \in Int
    BY <1>1, Halves
  <2> DEFINE y == j * (j + 1)  h == (j * (j + 1)) \div 2  q == LEN_2D * LEN_2D
  <2>3. y \in Int /\ h \in Int /\ q \in Int /\ h <= y /\ q >= y + j + 1
    BY <1>1, <2>1, <2>2, Numbers
  <2> HIDE DEF y, h, q
  <2>4. h + j < q
    BY <2>3
  <2> QED
    BY <2>4 DEF h, q
<1>4. (j * (j + 1)) \div 2 \in Int /\ 0 <= (j * (j + 1)) \div 2
  BY <1>1, Halves
<1> QED
  BY <1>2, <1>3, <1>4


\* A loop of one iteration of one statement, and a sequence of loops.
LEMMA Once ==
    ASSUME NEW S
    PROVE  /\ SideBySide(<<<<S>>>>) /\ (Inside(S) => Lies(<<<<S>>>>))
           /\ Len(<<<<S>>>>) \in Nat /\ \A n \in 1..Len(<<<<S>>>>) : Len(<<<<S>>>>[n]) \in Nat
<1> DEFINE I == <<S>>  L == <<I>>
<1>1. Len(I) = 1 /\ I[1] = S
  OBVIOUS
<1> HIDE DEF I
<1>2. Len(L) = 1 /\ L[1] = I
  OBVIOUS
<1> HIDE DEF L
<1>3. SideBySide(L) /\ (Inside(S) => Lies(L)) /\ Len(L) \in Nat /\ \A n \in 1..Len(L) : Len(L[n]) \in Nat
  BY <1>1, <1>2 DEF SideBySide, Lies
<1> QED
  BY <1>3 DEF L, I

LEMMA TurnsOf ==
    ASSUME NEW M \in Nat, NEW nest, nest = [n \in 1..M |-> nest[n]]
    PROVE  Len(nest) = M
BY LenOfNat

\* The loops of a nest that come in pairs.
LEMMA Pairs ==
    ASSUME NEW N \in Nat, NEW n \in 1..(2 * N)
    PROVE  /\ (n - 1) \div 2 \in Int /\ 0 <= (n - 1) \div 2 /\ (n - 1) \div 2 < N
           /\ (n + 1) \div 2 \in Int /\ 1 <= (n + 1) \div 2 /\ (n + 1) \div 2 <= N
OBVIOUS

LEMMA PackingIs ==
    ASSUME NEW m
    PROVE  Packing(m) \in {None, Sometimes}
BY DEF Packing

LEMMA MaximumIs ==
    /\ Len(Maximum2D) = LEN_2D /\ Maximum2D \in Seq({Maximum2D[l] : l \in 1..LEN_2D})
    /\ \A l \in 1..LEN_2D : SideBySide(Maximum2D[l]) /\ Lies(Maximum2D[l])
<1> DEFINE rows == [i \in Int |-> Loop(Up(0, LEN_2D), [j \in Int |-> <<Acc(acc, {aa(i, j)})>>])]
<1>1. ASSUME NEW i \in Int, 0 <= i, i < LEN_2D
      PROVE  SideBySide(rows[i]) /\ Lies(rows[i])
  <2> DEFINE body == [j \in Int |-> <<Acc(acc, {aa(i, j)})>>]
  <2>1. \A j \in Int : Len(body[j]) = 1
    OBVIOUS
  <2>2. ASSUME NEW j \in Int, NEW k \in Int, j < k PROVE ~Flow(body[j][1], body[k][1])
    BY <1>1, <2>2, CellIs DEF Flow, Acc
  <2>3. ASSUME NEW j \in Int, 0 <= j, j < LEN_2D PROVE Inside(body[j][1])
    BY <1>1, <2>3, CellsDeclared DEF Inside, Touched, Acc
  <2>4. 0 \in Int /\ LEN_2D \in Int
    BY Numbers
  <2>5. rows[i] = Loop(Up(0, LEN_2D), body)
    OBVIOUS
  <2> HIDE DEF body, rows
  <2>6. SideBySide(rows[i])
    BY <2>1, <2>2, <2>3, <2>4, <2>5, OneSide
  <2>7. Lies(rows[i])
    BY <2>1, <2>2, <2>3, <2>4, <2>5, OneLies
  <2> QED
    BY <2>6, <2>7
<1>2. Maximum2D = Loop(Up(0, LEN_2D), rows)
  BY DEF Maximum2D
<1> HIDE DEF rows
<1>3. 0 \in Int /\ LEN_2D \in Nat /\ LEN_2D > 0
  BY Numbers
<1>4. Len(Maximum2D) = LEN_2D /\ \A l \in 1..LEN_2D : Maximum2D[l] = rows[0 + l - 1]
  BY <1>2, <1>3, UpLoop
<1>5. Maximum2D \in Seq({Maximum2D[l] : l \in 1..LEN_2D})
  <2>1. DOMAIN Up(0, LEN_2D) = 1..LEN_2D
    BY <1>3 DEF Up
  <2>2. Maximum2D = [l \in 1..LEN_2D |-> Maximum2D[l]]
    BY <1>2, <2>1 DEF Loop
  <2>3. ASSUME NEW f, f = [l \in 1..LEN_2D |-> f[l]] PROVE f \in Seq({f[l] : l \in 1..LEN_2D})
    BY <1>3, <2>3
  <2> QED
    BY <2>2, <2>3
<1>6. ASSUME NEW l \in 1..LEN_2D PROVE SideBySide(Maximum2D[l]) /\ Lies(Maximum2D[l])
  <2> DEFINE i == 0 + l - 1
  <2>1. i \in Int /\ 0 <= i /\ i < LEN_2D /\ Maximum2D[l] = rows[i]
    BY <1>3, <1>4
  <2> HIDE DEF i
  <2> QED
    BY <1>1, <2>1
<1> QED
  BY <1>4, <1>5, <1>6

LEMMA MaximumGood ==
    ASSUME NEW name, NEW widths
    PROVE  Good(K2(name, widths, Maximum2D \o <<<<<<Set(out("chksum"), {acc})>>>>>>))
<1> DEFINE S == Set(out("chksum"), {acc})
           last == <<<<S>>>>
           nest == Maximum2D \o <<last>>
<1>1. SideBySide(last) /\ Lies(last)
  <2>1. Inside(S)
    BY CellsDeclared DEF Inside, Touched, Set
  <2> QED
    BY <2>1, Once
<1> HIDE DEF last
<1>2. Len(nest) = LEN_2D + 1 /\ nest[LEN_2D + 1] = last /\ \A l \in 1..LEN_2D : nest[l] = Maximum2D[l]
  <2> DEFINE T == {Maximum2D[l] : l \in 1..LEN_2D} \cup {last}
  <2>1. Maximum2D \in Seq(T) /\ <<last>> \in Seq(T) /\ Len(Maximum2D) = LEN_2D /\ LEN_2D \in Nat
    BY MaximumIs, Numbers
  <2>2. Len(<<last>>) = 1 /\ <<last>>[1] = last
    OBVIOUS
  <2>3. ASSUME NEW f \in Seq(T), NEW g \in Seq(T), Len(g) = 1
        PROVE  Len(f \o g) = Len(f) + 1 /\ (f \o g)[Len(f) + 1] = g[1] /\ \A l \in 1..Len(f) : (f \o g)[l] = f[l]
    <3>1. Len(f) \in Nat /\ Len(f \o g) = Len(f) + Len(g)
      OBVIOUS
    <3>2. (f \o g)[Len(f) + 1] = g[1]
      BY <2>3, <3>1
    <3>3. \A l \in 1..Len(f) : (f \o g)[l] = f[l]
      BY <3>1
    <3> QED
      BY <2>3, <3>1, <3>2, <3>3
  <2> HIDE DEF T
  <2> QED
    BY <2>1, <2>2, <2>3
<1> HIDE DEF nest
<1>3. ASSUME NEW l \in 1..Len(nest) PROVE SideBySide(nest[l]) /\ Lies(nest[l])
  <2>1. l \in 1..LEN_2D \/ l = LEN_2D + 1
    BY <1>2, Numbers
  <2> QED
    BY <1>1, <1>2, <2>1, MaximumIs
<1>4. Len(nest) \in Nat
  BY <1>2, Numbers
<1>5. Good(K2(name, widths, nest))
  BY <1>3, <1>4, StraightNest
<1> QED
  BY <1>5 DEF nest, last, S

LEMMA ChecksumIs == LET L == <<<<Set(out("chksum"), {acc})>>>> IN SideBySide(L) /\ Lies(L)
<1>1. Inside(Set(out("chksum"), {acc}))
  BY CellsDeclared DEF Inside, Touched, Set
<1> QED
  BY <1>1, Once

-----------------------------------------------------------------------------
(* The kernels of TsvcDependence. *)

LEMMA s000Good == Good(s000)
<1> DEFINE body == [i \in Int |-> <<Set(a(i), {b(i), c(i)})>>]
<1>1. \A i \in Int : body[i] \in Seq(Elements(i))
  BY DEF Set, Elements, Own
<1>2. s000 = K("s000", AnyWidth, Loop(Up(0, LEN_1D), body))
  BY DEF s000
<1>3. LEN_1D \in Int /\ LEN_1D <= LEN_1D
  BY Numbers
<1> HIDE DEF body
<1> QED
  BY <1>1, <1>2, <1>3, OwnElements

LEMMA s111Good == Good(s111)
<1> DEFINE body == [i \in Int |-> <<Set(a(i), {a(i - 1), b(i)})>>]
           M == (LEN_1D - 1 + 2 - 1) \div 2
           its == [n \in 1..M |-> 1 + (n - 1) * 2]
           at == Straight(1)
<1>1. DOMAIN at = 1..1 /\ OrderIs(<<>>, at, 1)
  BY DEF OrderIs, Straight
<1>2. M \in Int /\ (2 * M <= LEN_1D) /\ its = [n \in 1..M |-> its[n]]
  BY Numbers
<1>3. s111 = Kernel("s111", AnyWidth, <<Loop(its, body)>>, <<>>, {}, FALSE)
  BY DEF s111, K, K2, Steps
<1> HIDE DEF M
<1>4. \A n \in 1..M : its[n] = 2 * n - 1 /\ its[n] \in Int
  BY <1>2, Numbers
<1> HIDE DEF its
<1>5. \A i \in Int : Len(body[i]) = 1
  OBVIOUS
<1>6. ASSUME NEW i \in Int PROVE Ordered(at, body[i])
  BY <1>1 DEF Ordered, Straight
<1>7. ASSUME NEW i \in Int, NEW j \in Int, i + 1 < j PROVE Together(at, body[i], body[j])
  <2>1. ~Flow(body[i][1], body[j][1])
    BY <1>7, CellIs DEF Conflict, Flow, Touched, Set
  <2> HIDE DEF body
  <2> QED
    BY <1>1, <2>1 DEF Together, Straight
<1>8. ASSUME LengthsFit("s111"), NEW i \in Int, 1 <= i /\ i < LEN_1D PROVE \A p \in 1..1 : Inside(body[i][p])
  BY <1>8, Numbers, CellsDeclared DEF Inside, Touched, Set
<1> HIDE DEF body, at
<1>9. \A n \in 1..M : Len(body[its[n]]) = 1 /\ Ordered(at, body[its[n]])
  BY <1>4, <1>5, <1>6
<1>10. ASSUME NEW m \in 1..M, NEW n \in 1..M, m < n PROVE Together(at, body[its[m]], body[its[n]])
  <2> DEFINE i == its[m]  j == its[n]
  <2>1. i \in Int /\ j \in Int /\ i + 1 < j
    <3>1. m \in Int /\ n \in Int /\ m < n
      BY <1>2, <1>10
    <3>2. its[m] = 2 * m - 1 /\ its[n] = 2 * n - 1
      BY <1>4
    <3> QED
      BY <3>1, <3>2, Numbers
  <2> HIDE DEF i, j
  <2>2. Together(at, body[i], body[j])
    BY <1>7, <2>1
  <2> QED
    BY <2>2 DEF i, j
<1>11. ASSUME LengthsFit("s111"), NEW n \in 1..M PROVE \A p \in 1..1 : Inside(body[its[n]][p])
  <2> DEFINE i == its[n]
  <2>1. i \in Int /\ 1 <= i /\ i < LEN_1D
    <3>1. n \in Int /\ 1 <= n /\ n <= M /\ M \in Int /\ 2 * M <= LEN_1D
      BY <1>2, <1>11
    <3>2. its[n] = 2 * n - 1
      BY <1>4
    <3> QED
      BY <3>1, <3>2, Numbers
  <2> HIDE DEF i
  <2>2. \A p \in 1..1 : Inside(body[i][p])
    BY <1>8, <1>11, <2>1
  <2> QED
    BY <2>2 DEF i
<1>12. AnyWidth \in Int
  BY DEF AnyWidth
<1> QED
  BY <1>1, <1>2, <1>3, <1>9, <1>10, <1>11, <1>12, OrderedBy

LEMMA s1111Good == Good(s1111)
<1> DEFINE body == [i \in Int |-> <<Set(a(2 * i), {b(i), c(i), d(i)})>>]
<1>1. \A i \in Int : Len(body[i]) = 1
  OBVIOUS
<1>2. ASSUME NEW i \in Int, NEW j \in Int, 0 <= i, i < j, j < LEN_1D \div 2
      PROVE  ~Flow(body[i][1], body[j][1])
  BY <1>2 DEF Flow, Set, a, b, c, d
<1>3. ASSUME LengthsFit("s1111"), NEW i \in Int, 0 <= i, i < LEN_1D \div 2
      PROVE  Inside(body[i][1])
  BY <1>3, Numbers, CellsDeclared DEF Inside, Touched, Set
<1>4. s1111 = K("s1111", AnyWidth, Loop(Up(0, LEN_1D \div 2), body))
  BY DEF s1111
<1>5. 0 \in Int /\ LEN_1D \div 2 \in Int
  BY Numbers
<1> HIDE DEF body
<1> QED
  BY <1>1, <1>2, <1>3, <1>4, <1>5, OneStatement

LEMMA s1112Good == Good(s1112)
<1> DEFINE body == [i \in Int |-> <<Set(a(i), {b(i)})>>]
           M == LEN_1D - 1 - 0 + 1
           its == [n \in 1..M |-> LEN_1D - 1 - n + 1]
           at == Straight(1)
<1>1. DOMAIN at = 1..1 /\ OrderIs(<<>>, at, 1)
  BY DEF OrderIs, Straight
<1>2. M \in Int /\ (M = LEN_1D) /\ its = [n \in 1..M |-> its[n]]
  BY Numbers
<1>3. s1112 = Kernel("s1112", AnyWidth, <<Loop(its, body)>>, <<>>, {}, FALSE)
  BY DEF s1112, K, K2, Down
<1> HIDE DEF M
<1>4. \A n \in 1..M : its[n] = LEN_1D - n /\ its[n] \in Int
  BY <1>2, Numbers
<1> HIDE DEF its
<1>5. \A i \in Int : Len(body[i]) = 1
  OBVIOUS
<1>6. ASSUME NEW i \in Int PROVE Ordered(at, body[i])
  BY <1>1 DEF Ordered, Straight
<1>7. ASSUME NEW i \in Int, NEW j \in Int, j < i PROVE Together(at, body[i], body[j])
  <2>1. ~Flow(body[i][1], body[j][1])
    BY <1>7, CellIs DEF Conflict, Flow, Touched, Set
  <2> HIDE DEF body
  <2> QED
    BY <1>1, <2>1 DEF Together, Straight
<1>8. ASSUME LengthsFit("s1112"), NEW i \in Int, 0 <= i /\ i < LEN_1D PROVE \A p \in 1..1 : Inside(body[i][p])
  BY <1>8, Numbers, CellsDeclared DEF Inside, Touched, Set
<1> HIDE DEF body, at
<1>9. \A n \in 1..M : Len(body[its[n]]) = 1 /\ Ordered(at, body[its[n]])
  BY <1>4, <1>5, <1>6
<1>10. ASSUME NEW m \in 1..M, NEW n \in 1..M, m < n PROVE Together(at, body[its[m]], body[its[n]])
  <2> DEFINE i == its[m]  j == its[n]
  <2>1. i \in Int /\ j \in Int /\ j < i
    <3>1. m \in Int /\ n \in Int /\ m < n
      BY <1>2, <1>10
    <3>2. its[m] = LEN_1D - m /\ its[n] = LEN_1D - n
      BY <1>4
    <3> QED
      BY <3>1, <3>2, Numbers
  <2> HIDE DEF i, j
  <2>2. Together(at, body[i], body[j])
    BY <1>7, <2>1
  <2> QED
    BY <2>2 DEF i, j
<1>11. ASSUME LengthsFit("s1112"), NEW n \in 1..M PROVE \A p \in 1..1 : Inside(body[its[n]][p])
  <2> DEFINE i == its[n]
  <2>1. i \in Int /\ 0 <= i /\ i < LEN_1D
    <3>1. n \in Int /\ 1 <= n /\ n <= M /\ M \in Int /\ M = LEN_1D
      BY <1>2, <1>11
    <3>2. its[n] = LEN_1D - n
      BY <1>4
    <3> QED
      BY <3>1, <3>2, Numbers
  <2> HIDE DEF i
  <2>2. \A p \in 1..1 : Inside(body[i][p])
    BY <1>8, <1>11, <2>1
  <2> QED
    BY <2>2 DEF i
<1>12. AnyWidth \in Int
  BY DEF AnyWidth
<1> QED
  BY <1>1, <1>2, <1>3, <1>9, <1>10, <1>11, <1>12, OrderedBy

LEMMA s1113Good == Good(s1113)
<1> DEFINE body == [i \in Int |-> <<Set(a(i), {a(LEN_1D \div 2), b(i)})>>]
           at == Straight(1)
<1>1. DOMAIN at = 1..1 /\ OrderIs(<<>>, at, 1)
  BY DEF OrderIs, Straight
<1>2. \A i \in Int : Len(body[i]) = 1
  OBVIOUS
<1>4. ASSUME NEW i \in Int PROVE Ordered(at, body[i])
  BY <1>1 DEF Ordered, Straight
<1>5. ASSUME NEW i \in Int, NEW j \in Int, 0 <= i, i < j, j < LEN_1D, ~(i < LEN_1D \div 2 + 1 /\ LEN_1D \div 2 + 1 <= j)
      PROVE  /\ ~Flow(body[i][1], body[j][1])
  BY CellIs, <1>5, Numbers DEF Conflict, Flow, Touched, Set
<1>6. ASSUME NEW i \in Int, NEW j \in Int, 0 <= i, i < j, j < LEN_1D, ~(i < LEN_1D \div 2 + 1 /\ LEN_1D \div 2 + 1 <= j)
      PROVE  Together(at, body[i], body[j])
  <2> HIDE DEF body
  <2> QED
    BY <1>1, <1>5, <1>6 DEF Together, Straight
<1>7. ASSUME LengthsFit("s1113"), NEW i \in Int, 0 <= i, i < LEN_1D
      PROVE  \A p \in 1..1 : Inside(body[i][p])
  <2>1. Inside(body[i][1])
    BY <1>2, <1>7, Numbers, CellsDeclared DEF LengthsFit, Long, Room, Inside, Touched, Set
  <2> QED
    BY <2>1
<1>8. s1113 = Kernel("s1113", AnyWidth, <<Loop(Up(0, LEN_1D), body)>>, <<>>, {LEN_1D \div 2 + 1}, FALSE)
  BY DEF s1113, Cut, body
<1>9. 0 \in Int /\ LEN_1D \in Int /\ AnyWidth \in Int /\ {LEN_1D \div 2 + 1} \subseteq Int
  BY Numbers DEF AnyWidth
<1>10. ASSUME NEW i \in Int, NEW j \in Int, 0 <= i, i < j, j < LEN_1D
      PROVE  \/ j - i >= AnyWidth
             \/ \E cut \in {LEN_1D \div 2 + 1} : i < 0 + cut /\ 0 + cut <= j
             \/ Together(at, body[i], body[j])
  <2> HIDE DEF at, body
  <2> QED
    BY <1>6, <1>10, Numbers
<1> HIDE DEF at
<1> QED
  BY <1>1, <1>2, <1>4, <1>10, <1>7, <1>8, <1>9, OrderedUp

LEMMA s1115Good == Good(s1115)
<1> DEFINE rows == [i \in Int |-> Loop(Up(0, LEN_2D), [j \in Int |-> <<Set(aa(i, j), {aa(i, j), cc(j, i), bb(i, j)})>>])]
<1>1. ASSUME NEW i \in Int, 0 <= i, i < LEN_2D
      PROVE  SideBySide(rows[i]) /\ (LengthsFit("s1115") => Lies(rows[i]))
  <2> DEFINE body == [j \in Int |-> <<Set(aa(i, j), {aa(i, j), cc(j, i), bb(i, j)})>>]
  <2>1. \A j \in Int : Len(body[j]) = 1
    OBVIOUS
  <2>2. ASSUME NEW j \in Int, NEW k \in Int, 0 <= j, j < k, k < LEN_2D
        PROVE  ~Flow(body[j][1], body[k][1])
    BY <1>1, <2>2, CellIs DEF Flow, Set
  <2>3. ASSUME LengthsFit("s1115"), NEW j \in Int, 0 <= j, j < LEN_2D
        PROVE  Inside(body[j][1])
    BY <1>1, <2>3, Numbers, CellsDeclared DEF LengthsFit, Long, Room, Inside, Touched, Set
  <2>4. 0 \in Int /\ LEN_2D \in Int
    BY <1>1, Numbers
  <2>5. rows[i] = Loop(Up(0, LEN_2D), body)
    BY <1>1
  <2> HIDE DEF body, rows
  <2>6. SideBySide(rows[i])
    BY <2>1, <2>2, <2>3, <2>4, <2>5, OneSide
  <2>7. LengthsFit("s1115") => Lies(rows[i])
    BY <2>1, <2>2, <2>3, <2>4, <2>5, OneLies
  <2> QED
    BY <2>6, <2>7
<1>2. s1115 = K2("s1115", AnyWidth, Loop(Up(0, LEN_2D), rows))
  BY DEF s1115
<1>3. 0 \in Int /\ LEN_2D \in Int
  BY Numbers
<1> HIDE DEF rows
<1> QED
  BY <1>1, <1>2, <1>3, UpNest

LEMMA s1119Good == Good(s1119)
<1> DEFINE rows == [i \in Int |-> Loop(Up(0, LEN_2D), [j \in Int |-> <<Set(aa(i, j), {aa(i - 1, j), bb(i, j)})>>])]
<1>1. ASSUME NEW i \in Int, 1 <= i, i < LEN_2D
      PROVE  SideBySide(rows[i]) /\ (LengthsFit("s1119") => Lies(rows[i]))
  <2> DEFINE body == [j \in Int |-> <<Set(aa(i, j), {aa(i - 1, j), bb(i, j)})>>]
  <2>1. \A j \in Int : Len(body[j]) = 1
    OBVIOUS
  <2>2. ASSUME NEW j \in Int, NEW k \in Int, 0 <= j, j < k, k < LEN_2D
        PROVE  ~Flow(body[j][1], body[k][1])
    BY <1>1, <2>2, CellIs DEF Flow, Set
  <2>3. ASSUME LengthsFit("s1119"), NEW j \in Int, 0 <= j, j < LEN_2D
        PROVE  Inside(body[j][1])
    BY <1>1, <2>3, Numbers, CellsDeclared DEF LengthsFit, Long, Room, Inside, Touched, Set
  <2>4. 0 \in Int /\ LEN_2D \in Int
    BY <1>1, Numbers
  <2>5. rows[i] = Loop(Up(0, LEN_2D), body)
    BY <1>1
  <2> HIDE DEF body, rows
  <2>6. SideBySide(rows[i])
    BY <2>1, <2>2, <2>3, <2>4, <2>5, OneSide
  <2>7. LengthsFit("s1119") => Lies(rows[i])
    BY <2>1, <2>2, <2>3, <2>4, <2>5, OneLies
  <2> QED
    BY <2>6, <2>7
<1>2. s1119 = K2("s1119", AnyWidth, Loop(Up(1, LEN_2D), rows))
  BY DEF s1119
<1>3. 1 \in Int /\ LEN_2D \in Int
  BY Numbers
<1> HIDE DEF rows
<1> QED
  BY <1>1, <1>2, <1>3, UpNest

LEMMA s112Good == Good(s112)
<1> DEFINE body == [i \in Int |-> <<Set(a(i + 1), {a(i), b(i)})>>]
           M == LEN_1D - 2 - 0 + 1
           its == [n \in 1..M |-> LEN_1D - 2 - n + 1]
           at == Straight(1)
<1>1. DOMAIN at = 1..1 /\ OrderIs(<<>>, at, 1)
  BY DEF OrderIs, Straight
<1>2. M \in Int /\ (M = LEN_1D - 1) /\ its = [n \in 1..M |-> its[n]]
  BY Numbers
<1>3. s112 = Kernel("s112", AnyWidth, <<Loop(its, body)>>, <<>>, {}, FALSE)
  BY DEF s112, K, K2, Down
<1> HIDE DEF M
<1>4. \A n \in 1..M : its[n] = LEN_1D - n - 1 /\ its[n] \in Int
  BY <1>2, Numbers
<1> HIDE DEF its
<1>5. \A i \in Int : Len(body[i]) = 1
  OBVIOUS
<1>6. ASSUME NEW i \in Int PROVE Ordered(at, body[i])
  BY <1>1 DEF Ordered, Straight
<1>7. ASSUME NEW i \in Int, NEW j \in Int, j < i PROVE Together(at, body[i], body[j])
  <2>1. ~Flow(body[i][1], body[j][1])
    BY <1>7, CellIs DEF Conflict, Flow, Touched, Set
  <2> HIDE DEF body
  <2> QED
    BY <1>1, <2>1 DEF Together, Straight
<1>8. ASSUME LengthsFit("s112"), NEW i \in Int, 0 <= i /\ i + 1 < LEN_1D PROVE \A p \in 1..1 : Inside(body[i][p])
  BY <1>8, Numbers, CellsDeclared DEF Inside, Touched, Set
<1> HIDE DEF body, at
<1>9. \A n \in 1..M : Len(body[its[n]]) = 1 /\ Ordered(at, body[its[n]])
  BY <1>4, <1>5, <1>6
<1>10. ASSUME NEW m \in 1..M, NEW n \in 1..M, m < n PROVE Together(at, body[its[m]], body[its[n]])
  <2> DEFINE i == its[m]  j == its[n]
  <2>1. i \in Int /\ j \in Int /\ j < i
    <3>1. m \in Int /\ n \in Int /\ m < n
      BY <1>2, <1>10
    <3>2. its[m] = LEN_1D - m - 1 /\ its[n] = LEN_1D - n - 1
      BY <1>4
    <3> QED
      BY <3>1, <3>2, Numbers
  <2> HIDE DEF i, j
  <2>2. Together(at, body[i], body[j])
    BY <1>7, <2>1
  <2> QED
    BY <2>2 DEF i, j
<1>11. ASSUME LengthsFit("s112"), NEW n \in 1..M PROVE \A p \in 1..1 : Inside(body[its[n]][p])
  <2> DEFINE i == its[n]
  <2>1. i \in Int /\ 0 <= i /\ i + 1 < LEN_1D
    <3>1. n \in Int /\ 1 <= n /\ n <= M /\ M \in Int /\ M = LEN_1D - 1
      BY <1>2, <1>11
    <3>2. its[n] = LEN_1D - n - 1
      BY <1>4
    <3> QED
      BY <3>1, <3>2, Numbers
  <2> HIDE DEF i
  <2>2. \A p \in 1..1 : Inside(body[i][p])
    BY <1>8, <1>11, <2>1
  <2> QED
    BY <2>2 DEF i
<1>12. AnyWidth \in Int
  BY DEF AnyWidth
<1> QED
  BY <1>1, <1>2, <1>3, <1>9, <1>10, <1>11, <1>12, OrderedBy

LEMMA s113Good == Good(s113)
<1> DEFINE body == [i \in Int |-> <<Set(a(i), {a(0), b(i)})>>]
<1>1. \A i \in Int : Len(body[i]) = 1
  OBVIOUS
<1>2. ASSUME NEW i \in Int, NEW j \in Int, 1 <= i, i < j, j < LEN_1D
      PROVE  ~Flow(body[i][1], body[j][1])
  BY <1>2 DEF Flow, Set, a, b
<1>3. ASSUME LengthsFit("s113"), NEW i \in Int, 1 <= i, i < LEN_1D
      PROVE  Inside(body[i][1])
  BY <1>3, Numbers, CellsDeclared DEF Inside, Touched, Set
<1>4. s113 = K("s113", AnyWidth, Loop(Up(1, LEN_1D), body))
  BY DEF s113
<1>5. 1 \in Int /\ LEN_1D \in Int
  BY Numbers
<1> HIDE DEF body
<1> QED
  BY <1>1, <1>2, <1>3, <1>4, <1>5, OneStatement

LEMMA s114Good == Good(s114)
<1> DEFINE rows == [i \in Int |-> Loop(Up(0, i), [j \in Int |-> <<Set(aa(i, j), {aa(j, i), bb(i, j)})>>])]
<1>1. ASSUME NEW i \in Int, 0 <= i, i < LEN_2D
      PROVE  SideBySide(rows[i]) /\ (LengthsFit("s114") => Lies(rows[i]))
  <2> DEFINE body == [j \in Int |-> <<Set(aa(i, j), {aa(j, i), bb(i, j)})>>]
  <2>1. \A j \in Int : Len(body[j]) = 1
    OBVIOUS
  <2>2. ASSUME NEW j \in Int, NEW k \in Int, 0 <= j, j < k, k < i
        PROVE  ~Flow(body[j][1], body[k][1])
    BY <1>1, <2>2, CellIs DEF Flow, Set
  <2>3. ASSUME LengthsFit("s114"), NEW j \in Int, 0 <= j, j < i
        PROVE  Inside(body[j][1])
    BY <1>1, <2>3, Numbers, CellsDeclared DEF LengthsFit, Long, Room, Inside, Touched, Set
  <2>4. 0 \in Int /\ i \in Int
    BY <1>1, Numbers
  <2>5. rows[i] = Loop(Up(0, i), body)
    BY <1>1
  <2> HIDE DEF body, rows
  <2>6. SideBySide(rows[i])
    BY <2>1, <2>2, <2>3, <2>4, <2>5, OneSide
  <2>7. LengthsFit("s114") => Lies(rows[i])
    BY <2>1, <2>2, <2>3, <2>4, <2>5, OneLies
  <2> QED
    BY <2>6, <2>7
<1>2. s114 = K2("s114", AnyWidth, Loop(Up(0, LEN_2D), rows))
  BY DEF s114
<1>3. 0 \in Int /\ LEN_2D \in Int
  BY Numbers
<1> HIDE DEF rows
<1> QED
  BY <1>1, <1>2, <1>3, UpNest

LEMMA s115Good == Good(s115)
<1> DEFINE rows == [j \in Int |-> Loop(Up(j + 1, LEN_2D), [i \in Int |-> <<Set(a(i), {a(i), aa(j, i), a(j)})>>])]
<1>1. ASSUME NEW j \in Int, 0 <= j, j < LEN_2D
      PROVE  SideBySide(rows[j]) /\ (LengthsFit("s115") => Lies(rows[j]))
  <2> DEFINE body == [i \in Int |-> <<Set(a(i), {a(i), aa(j, i), a(j)})>>]
  <2>1. \A i \in Int : Len(body[i]) = 1
    OBVIOUS
  <2>2. ASSUME NEW i \in Int, NEW k \in Int, j + 1 <= i, i < k, k < LEN_2D
        PROVE  ~Flow(body[i][1], body[k][1])
    BY <1>1, <2>2, CellIs DEF Flow, Set
  <2>3. ASSUME LengthsFit("s115"), NEW i \in Int, j + 1 <= i, i < LEN_2D
        PROVE  Inside(body[i][1])
    BY <1>1, <2>3, Numbers, CellsDeclared DEF LengthsFit, Long, Room, Inside, Touched, Set
  <2>4. j + 1 \in Int /\ LEN_2D \in Int
    BY <1>1, Numbers
  <2>5. rows[j] = Loop(Up(j + 1, LEN_2D), body)
    BY <1>1
  <2> HIDE DEF body, rows
  <2>6. SideBySide(rows[j])
    BY <2>1, <2>2, <2>3, <2>4, <2>5, OneSide
  <2>7. LengthsFit("s115") => Lies(rows[j])
    BY <2>1, <2>2, <2>3, <2>4, <2>5, OneLies
  <2> QED
    BY <2>6, <2>7
<1>2. s115 = K2("s115", AnyWidth, Loop(Up(0, LEN_2D), rows))
  BY DEF s115
<1>3. 0 \in Int /\ LEN_2D \in Int
  BY Numbers
<1> HIDE DEF rows
<1> QED
  BY <1>1, <1>2, <1>3, UpNest

LEMMA s116Good == Good(s116)
<1> DEFINE X(i, p) == Set(a(i + p), {a(i + p), a(i + p + 1)})
           Y(i) == Set(t(i), {a(i + 5)})
           Z(i) == Set(a(i + 4), {a(i + 4), t(i)})
           body == [i \in Int |-> <<Set(a(i), {a(i), a(i + 1)}),
                                 Set(a(i + 1), {a(i + 1), a(i + 2)}),
                                 Set(a(i + 2), {a(i + 2), a(i + 3)}),
                                 Set(a(i + 3), {a(i + 3), a(i + 4)}),
                                 Set(t(i), {a(i + 5)}),
                                 Set(a(i + 4), {a(i + 4), t(i)})>>]
           M == (LEN_1D - 5 - 0 + 5 - 1) \div 5
           its == [n \in 1..M |-> 0 + (n - 1) * 5]
           at == <<2, 3, 4, 5, 1, 6>>
           order == <<5, 1, 2, 3, 4, 6>>
<1>1. DOMAIN at = 1..6 /\ OrderIs(order, at, 6)
  BY DEF OrderIs
<1>2. M \in Int /\ (5 * M < LEN_1D) /\ its = [n \in 1..M |-> its[n]]
  BY Numbers
<1>3. s116 = Kernel("s116", AnyWidth, <<Loop(its, body)>>, order, {}, FALSE)
  BY DEF s116, Reordered, Steps
<1> HIDE DEF M
<1>4. \A n \in 1..M : its[n] = 5 * n - 5 /\ its[n] \in Int
  BY <1>2, Numbers
<1> HIDE DEF its
<1>5. \A i \in Int : Len(body[i]) = 6
  OBVIOUS
<1>a. ASSUME NEW i \in Int
      PROVE  /\ body[i][1] = X(i, 0) /\ body[i][2] = X(i, 1) /\ body[i][3] = X(i, 2)
             /\ body[i][4] = X(i, 3) /\ body[i][5] = Y(i) /\ body[i][6] = Z(i)
  <2>1. i + 0 = i /\ i + 0 + 1 = i + 1 /\ i + 1 + 1 = i + 2 /\ i + 2 + 1 = i + 3 /\ i + 3 + 1 = i + 4
    OBVIOUS
  <2> QED
    BY <2>1
<1>6. ASSUME NEW i \in Int PROVE Ordered(at, body[i])
  <2>1. \A p \in 0..3 : ~Conflict(X(i, p), Y(i))
    BY CellIs DEF Conflict, Touched, Set
  <2> HIDE DEF body, X, Y, Z
  <2>2. /\ ~Conflict(body[i][1], body[i][5]) /\ ~Conflict(body[i][2], body[i][5])
        /\ ~Conflict(body[i][3], body[i][5]) /\ ~Conflict(body[i][4], body[i][5])
    BY <1>a, <2>1
  <2> QED
    BY <1>1, <2>2 DEF Ordered
<1>7. ASSUME NEW i \in Int, NEW j \in Int, i + 4 < j PROVE Together(at, body[i], body[j])
  <2>1. ASSUME NEW p \in 0..3, NEW q \in 0..3
        PROVE  ~Conflict(X(i, p), X(j, q)) /\ ~Flow(X(i, p), X(j, q))
    <3>1. i + p < j + q /\ i + p + 1 < j + q
      BY <1>7
    <3>2. i + p \in Int /\ i + p + 1 \in Int /\ j + q \in Int /\ j + q + 1 \in Int /\ j + q < j + q + 1
      OBVIOUS
    <3>3. /\ a(i + p) # a(j + q) /\ a(i + p) # a(j + q + 1)
          /\ a(i + p + 1) # a(j + q) /\ a(i + p + 1) # a(j + q + 1)
      BY <3>1, <3>2 DEF a
    <3> QED
      BY <3>3 DEF Conflict, Flow, Touched, Set
  <2>2. ASSUME NEW p \in 0..3
        PROVE  ~Conflict(X(i, p), Y(j)) /\ ~Conflict(Z(i), X(j, p))
    BY <1>7, CellIs DEF Conflict, Touched, Set
  <2>3. ~Flow(Y(i), Y(j)) /\ ~Flow(Z(i), Z(j)) /\ ~Conflict(Z(i), Y(j))
    BY <1>7, CellIs DEF Conflict, Flow, Touched, Set
  <2> HIDE DEF body, X, Y, Z
  <2>4. \A p, q \in 1..4 : ~Conflict(body[i][p], body[j][q]) /\ ~Flow(body[i][p], body[j][q])
    <3>1. \A p \in 1..4 : p - 1 \in 0..3 /\ body[i][p] = X(i, p - 1) /\ body[j][p] = X(j, p - 1)
      BY <1>a
    <3> QED
      BY <2>1, <3>1
  <2>5. \A p \in 1..4 : ~Conflict(body[i][p], body[j][5]) /\ ~Conflict(body[i][6], body[j][p])
    <3>1. \A p \in 1..4 : p - 1 \in 0..3 /\ body[i][p] = X(i, p - 1) /\ body[j][p] = X(j, p - 1)
      BY <1>a
    <3> QED
      BY <1>a, <2>2, <3>1
  <2>6. ~Flow(body[i][5], body[j][5]) /\ ~Flow(body[i][6], body[j][6]) /\ ~Conflict(body[i][6], body[j][5])
    BY <1>a, <2>3
  <2> QED
    BY <1>1, <2>4, <2>5, <2>6 DEF Together
<1>8. ASSUME LengthsFit("s116"), NEW i \in Int, 0 <= i /\ i + 5 < LEN_1D PROVE \A p \in 1..6 : Inside(body[i][p])
  <2>1. Inside(body[i][1]) /\ Inside(body[i][2]) /\ Inside(body[i][3]) /\ Inside(body[i][4]) /\ Inside(body[i][5]) /\ Inside(body[i][6])
    BY <1>8, Numbers, CellsDeclared DEF Inside, Touched, Set
  <2> QED
    BY <2>1
<1> HIDE DEF body, at, order
<1>9. \A n \in 1..M : Len(body[its[n]]) = 6 /\ Ordered(at, body[its[n]])
  BY <1>4, <1>5, <1>6
<1>10. ASSUME NEW m \in 1..M, NEW n \in 1..M, m < n PROVE Together(at, body[its[m]], body[its[n]])
  <2> DEFINE i == its[m]  j == its[n]
  <2>1. i \in Int /\ j \in Int /\ i + 4 < j
    <3>1. m \in Int /\ n \in Int /\ m < n
      BY <1>2, <1>10
    <3>2. its[m] = 5 * m - 5 /\ its[n] = 5 * n - 5
      BY <1>4
    <3> QED
      BY <3>1, <3>2, Numbers
  <2> HIDE DEF i, j
  <2>2. Together(at, body[i], body[j])
    BY <1>7, <2>1
  <2> QED
    BY <2>2 DEF i, j
<1>11. ASSUME LengthsFit("s116"), NEW n \in 1..M PROVE \A p \in 1..6 : Inside(body[its[n]][p])
  <2> DEFINE i == its[n]
  <2>1. i \in Int /\ 0 <= i /\ i + 5 < LEN_1D
    <3>1. n \in Int /\ 1 <= n /\ n <= M /\ M \in Int /\ 5 * M < LEN_1D
      BY <1>2, <1>11
    <3>2. its[n] = 5 * n - 5
      BY <1>4
    <3> QED
      BY <3>1, <3>2, Numbers
  <2> HIDE DEF i
  <2>2. \A p \in 1..6 : Inside(body[i][p])
    BY <1>8, <1>11, <2>1
  <2> QED
    BY <2>2 DEF i
<1>12. AnyWidth \in Int
  BY DEF AnyWidth
<1> QED
  BY <1>1, <1>2, <1>3, <1>9, <1>10, <1>11, <1>12, OrderedBy

LEMMA s1161Good == ASSUME NEW m PROVE Good(s1161(m))
<1> DEFINE body == [i \in Int |-> <<Test({c(i)})>>
                             \o If(~m[i], <<Set(a(i), {c(i), d(i), e(i)})>>)
                             \o If(m[i], <<Set(b(i), {a(i), d(i)})>>)]
<1>1. ASSUME NEW i \in Int PROVE body[i] \in Seq(Elements(i))
  <2>1. <<Test({c(i)})>> \in Seq(Elements(i))
    BY DEF Test, Elements, Own
  <2>2. <<Set(a(i), {c(i), d(i), e(i)})>> \in Seq(Elements(i))
    BY DEF Set, Elements, Own
  <2>3. If(~m[i], <<Set(a(i), {c(i), d(i), e(i)})>>) \in Seq(Elements(i))
    BY <2>2, IfIs
  <2>4. <<Set(b(i), {a(i), d(i)})>> \in Seq(Elements(i))
    BY DEF Set, Elements, Own
  <2>5. If(m[i], <<Set(b(i), {a(i), d(i)})>>) \in Seq(Elements(i))
    BY <2>4, IfIs
  <2> QED
    BY <2>1, <2>3, <2>5
<1>2. s1161(m) = K("s1161", AnyWidth, Loop(Up(0, LEN_1D - 1), body))
  BY DEF s1161
<1>3. LEN_1D - 1 \in Int /\ LEN_1D - 1 <= LEN_1D
  BY Numbers
<1> HIDE DEF body
<1> QED
  BY <1>1, <1>2, <1>3, OwnElements

LEMMA s118Good == Good(s118)
<1> DEFINE rows == [i \in Int |-> Loop(Up(0, i), [j \in Int |-> <<Acc(a(i), {bb(j, i), a(i - j - 1)})>>])]
<1>1. ASSUME NEW i \in Int, 1 <= i, i < LEN_2D
      PROVE  SideBySide(rows[i]) /\ (LengthsFit("s118") => Lies(rows[i]))
  <2> DEFINE body == [j \in Int |-> <<Acc(a(i), {bb(j, i), a(i - j - 1)})>>]
  <2>1. \A j \in Int : Len(body[j]) = 1
    OBVIOUS
  <2>2. ASSUME NEW j \in Int, NEW k \in Int, 0 <= j, j < k, k < i
        PROVE  ~Flow(body[j][1], body[k][1])
    BY <1>1, <2>2, CellIs DEF Flow, Acc
  <2>3. ASSUME LengthsFit("s118"), NEW j \in Int, 0 <= j, j < i
        PROVE  Inside(body[j][1])
    BY <1>1, <2>3, Numbers, CellsDeclared DEF LengthsFit, Long, Room, Inside, Touched, Acc
  <2>4. 0 \in Int /\ i \in Int
    BY <1>1, Numbers
  <2>5. rows[i] = Loop(Up(0, i), body)
    BY <1>1
  <2> HIDE DEF body, rows
  <2>6. SideBySide(rows[i])
    BY <2>1, <2>2, <2>3, <2>4, <2>5, OneSide
  <2>7. LengthsFit("s118") => Lies(rows[i])
    BY <2>1, <2>2, <2>3, <2>4, <2>5, OneLies
  <2> QED
    BY <2>6, <2>7
<1>2. s118 = K2("s118", AnyWidth, Loop(Up(1, LEN_2D), rows))
  BY DEF s118
<1>3. 1 \in Int /\ LEN_2D \in Int
  BY Numbers
<1> HIDE DEF rows
<1> QED
  BY <1>1, <1>2, <1>3, UpNest

LEMMA s119Good == Good(s119)
<1> DEFINE rows == [i \in Int |-> Loop(Up(1, LEN_2D), [j \in Int |-> <<Set(aa(i, j), {aa(i - 1, j - 1), bb(i, j)})>>])]
<1>1. ASSUME NEW i \in Int, 1 <= i, i < LEN_2D
      PROVE  SideBySide(rows[i]) /\ (LengthsFit("s119") => Lies(rows[i]))
  <2> DEFINE body == [j \in Int |-> <<Set(aa(i, j), {aa(i - 1, j - 1), bb(i, j)})>>]
  <2>1. \A j \in Int : Len(body[j]) = 1
    OBVIOUS
  <2>2. ASSUME NEW j \in Int, NEW k \in Int, 1 <= j, j < k, k < LEN_2D
        PROVE  ~Flow(body[j][1], body[k][1])
    BY <1>1, <2>2, CellIs DEF Flow, Set
  <2>3. ASSUME LengthsFit("s119"), NEW j \in Int, 1 <= j, j < LEN_2D
        PROVE  Inside(body[j][1])
    BY <1>1, <2>3, Numbers, CellsDeclared DEF LengthsFit, Long, Room, Inside, Touched, Set
  <2>4. 1 \in Int /\ LEN_2D \in Int
    BY <1>1, Numbers
  <2>5. rows[i] = Loop(Up(1, LEN_2D), body)
    BY <1>1
  <2> HIDE DEF body, rows
  <2>6. SideBySide(rows[i])
    BY <2>1, <2>2, <2>3, <2>4, <2>5, OneSide
  <2>7. LengthsFit("s119") => Lies(rows[i])
    BY <2>1, <2>2, <2>3, <2>4, <2>5, OneLies
  <2> QED
    BY <2>6, <2>7
<1>2. s119 = K2("s119", AnyWidth, Loop(Up(1, LEN_2D), rows))
  BY DEF s119
<1>3. 1 \in Int /\ LEN_2D \in Int
  BY Numbers
<1> HIDE DEF rows
<1> QED
  BY <1>1, <1>2, <1>3, UpNest

LEMMA s121Good == Good(s121)
<1> DEFINE body == [i \in Int |-> <<Set(a(i), {a(i + 1), b(i)})>>]
<1>1. \A i \in Int : Len(body[i]) = 1
  OBVIOUS
<1>2. ASSUME NEW i \in Int, NEW j \in Int, 0 <= i, i < j, j < LEN_1D - 1
      PROVE  ~Flow(body[i][1], body[j][1])
  BY <1>2 DEF Flow, Set, a, b
<1>3. ASSUME LengthsFit("s121"), NEW i \in Int, 0 <= i, i < LEN_1D - 1
      PROVE  Inside(body[i][1])
  BY <1>3, Numbers, CellsDeclared DEF Inside, Touched, Set
<1>4. s121 = K("s121", AnyWidth, Loop(Up(0, LEN_1D - 1), body))
  BY DEF s121
<1>5. 0 \in Int /\ LEN_1D - 1 \in Int
  BY Numbers
<1> HIDE DEF body
<1> QED
  BY <1>1, <1>2, <1>3, <1>4, <1>5, OneStatement

LEMMA s122Good == Good(s122)
<1> DEFINE body == [i \in Int |-> <<Set(a(i), {a(i), b(LEN_1D - (i + 1))})>>]
<1>1. \A i \in Int : Len(body[i]) = 1
  OBVIOUS
<1>2. ASSUME NEW i \in Int, NEW j \in Int, 0 <= i, i < j, j < LEN_1D
      PROVE  ~Flow(body[i][1], body[j][1])
  BY <1>2 DEF Flow, Set, a, b
<1>3. ASSUME LengthsFit("s122"), NEW i \in Int, 0 <= i, i < LEN_1D
      PROVE  Inside(body[i][1])
  BY <1>3, Numbers, CellsDeclared DEF Inside, Touched, Set
<1>4. s122 = K("s122", AnyWidth, Loop(Up(0, LEN_1D), body))
  BY DEF s122
<1>5. 0 \in Int /\ LEN_1D \in Int
  BY Numbers
<1> HIDE DEF body
<1> QED
  BY <1>1, <1>2, <1>3, <1>4, <1>5, OneStatement

LEMMA s1221Good == Good(s1221)
<1> DEFINE body == [i \in Int |-> <<Set(b(i), {b(i - 4), a(i)})>>]
           at == Straight(1)
<1>1. DOMAIN at = 1..1 /\ OrderIs(<<>>, at, 1)
  BY DEF OrderIs, Straight
<1>2. \A i \in Int : Len(body[i]) = 1
  OBVIOUS
<1>4. ASSUME NEW i \in Int PROVE Ordered(at, body[i])
  BY <1>1 DEF Ordered, Straight
<1>5. ASSUME NEW i \in Int, NEW j \in Int, 4 <= i, i < j, j < LEN_1D, j - i < 4
      PROVE  /\ ~Flow(body[i][1], body[j][1])
  BY CellIs, <1>5, Numbers DEF Conflict, Flow, Touched, Set
<1>6. ASSUME NEW i \in Int, NEW j \in Int, 4 <= i, i < j, j < LEN_1D, j - i < 4
      PROVE  Together(at, body[i], body[j])
  <2> HIDE DEF body
  <2> QED
    BY <1>1, <1>5, <1>6 DEF Together, Straight
<1>7. ASSUME LengthsFit("s1221"), NEW i \in Int, 4 <= i, i < LEN_1D
      PROVE  \A p \in 1..1 : Inside(body[i][p])
  <2>1. Inside(body[i][1])
    BY <1>2, <1>7, Numbers, CellsDeclared DEF LengthsFit, Long, Room, Inside, Touched, Set
  <2> QED
    BY <2>1
<1>8. s1221 = Kernel("s1221", 4, <<Loop(Up(4, LEN_1D), body)>>, <<>>, {}, FALSE)
  BY DEF s1221, K, K2, body
<1>9. 4 \in Int /\ LEN_1D \in Int /\ 4 \in Int
  BY Numbers DEF AnyWidth
<1>10. ASSUME NEW i \in Int, NEW j \in Int, 4 <= i, i < j, j < LEN_1D
      PROVE  \/ j - i >= 4
             \/ \E cut \in {} : i < 4 + cut /\ 4 + cut <= j
             \/ Together(at, body[i], body[j])
  <2> HIDE DEF at, body
  <2> QED
    BY <1>6, <1>10, Numbers
<1> HIDE DEF at
<1> QED
  BY <1>1, <1>2, <1>4, <1>10, <1>7, <1>8, <1>9, OrderedUp

LEMMA s123Good == ASSUME NEW m PROVE Good(s123(m))
<1> DEFINE A(i) == Set(out("j"), {out("j")})
           B(i) == Set(a(i + Packed(m, i)), {out("j"), b(i), d(i), e(i)})
           C(i) == Set(a(i + Packed(m, i) + 1), {out("j"), c(i), d(i), e(i)})
           body == [i \in Int |-> <<A(i), B(i), Test({c(i)})>> \o If(m[i], <<A(i), C(i)>>)]
<1>1. ASSUME NEW i \in Int
      PROVE  /\ Len(body[i]) = 5 /\ body[i][1] = A(i) /\ body[i][2] = B(i) /\ body[i][3] = Test({c(i)})
             /\ body[i][4] = Maybe(m[i], A(i)) /\ body[i][5] = Maybe(m[i], C(i))
  BY ThreeThenTwo
<1>2. s123(m) = K("s123", None, Loop(Up(0, LEN_1D \div 2), body))
  BY DEF s123
<1> HIDE DEF body
<1>3. ASSUME LengthsFit("s123"), NEW i \in Int, 0 <= i, i < LEN_1D \div 2
      PROVE  \A p \in 1..Len(body[i]) : Inside(body[i][p])
  <2>1. Inside(A(i)) /\ Inside(B(i)) /\ Inside(C(i)) /\ Inside(Test({c(i)}))
    <3>1. Packed(m, i) \in Nat /\ Packed(m, i) <= i
      BY <1>3, PackedIs
    <3>2. i < LEN_1D /\ i + Packed(m, i) \in Int /\ 0 <= i + Packed(m, i) /\ i + Packed(m, i) + 1 < LEN_1D
      BY <1>3, <3>1, Numbers
    <3> QED
      BY <1>3, <3>2, Numbers, CellsDeclared DEF Inside, Touched, Set, Test
  <2> HIDE DEF A, B, C
  <2>2. Inside(Maybe(m[i], A(i))) /\ Inside(Maybe(m[i], C(i)))
    BY <2>1, MaybeLess
  <2> QED
    BY <1>1, <2>1, <2>2
<1>4. \A i \in Int : Len(body[i]) = 5
  BY <1>1
<1> DEFINE half == LEN_1D \div 2
<1>5. half \in Int
  BY Numbers
<1>6. s123(m) = K("s123", None, Loop(Up(0, half), body))
  BY <1>2
<1>7. LengthsFit("s123") => \A i \in Int : 0 <= i /\ i < half => \A p \in 1..Len(body[i]) : Inside(body[i][p])
  BY <1>3
<1> HIDE DEF A, B, C, half
<1> QED
  BY <1>4, <1>5, <1>6, <1>7, OneLaneUp

LEMMA s124Good == ASSUME NEW m PROVE Good(s124(m))
<1> DEFINE body == [i \in Int |-> <<Test({b(i)})>>
                             \o If(m[i], <<Set(a(i), {b(i), d(i), e(i)})>>)
                             \o If(~m[i], <<Set(a(i), {c(i), d(i), e(i)})>>)]
<1>1. ASSUME NEW i \in Int PROVE body[i] \in Seq(Elements(i))
  <2>1. <<Test({b(i)})>> \in Seq(Elements(i))
    BY DEF Test, Elements, Own
  <2>2. <<Set(a(i), {b(i), d(i), e(i)})>> \in Seq(Elements(i))
    BY DEF Set, Elements, Own
  <2>3. If(m[i], <<Set(a(i), {b(i), d(i), e(i)})>>) \in Seq(Elements(i))
    BY <2>2, IfIs
  <2>4. <<Set(a(i), {c(i), d(i), e(i)})>> \in Seq(Elements(i))
    BY DEF Set, Elements, Own
  <2>5. If(~m[i], <<Set(a(i), {c(i), d(i), e(i)})>>) \in Seq(Elements(i))
    BY <2>4, IfIs
  <2> QED
    BY <2>1, <2>3, <2>5
<1>2. s124(m) = K("s124", AnyWidth, Loop(Up(0, LEN_1D), body))
  BY DEF s124
<1>3. LEN_1D \in Int /\ LEN_1D <= LEN_1D
  BY Numbers
<1> HIDE DEF body
<1> QED
  BY <1>1, <1>2, <1>3, OwnElements

LEMMA s125Good == Good(s125)
<1> DEFINE rows == [i \in Int |-> Loop(Up(0, LEN_2D), [j \in Int |-> <<Set(flat(i * LEN_2D + j), {aa(i, j), bb(i, j), cc(i, j)})>>])]
<1>1. ASSUME NEW i \in Int, 0 <= i, i < LEN_2D
      PROVE  SideBySide(rows[i]) /\ (LengthsFit("s125") => Lies(rows[i]))
  <2> DEFINE body == [j \in Int |-> <<Set(flat(i * LEN_2D + j), {aa(i, j), bb(i, j), cc(i, j)})>>]
  <2>1. \A j \in Int : Len(body[j]) = 1
    OBVIOUS
  <2>2. ASSUME NEW j \in Int, NEW k \in Int, 0 <= j, j < k, k < LEN_2D
        PROVE  ~Flow(body[j][1], body[k][1])
    BY <1>1, <2>2, CellIs, RowMajor DEF Flow, Set
  <2>3. ASSUME LengthsFit("s125"), NEW j \in Int, 0 <= j, j < LEN_2D
        PROVE  Inside(body[j][1])
    BY <1>1, <2>3, Numbers, CellsDeclared, RowMajor DEF LengthsFit, Long, Room, Inside, Touched, Set
  <2>4. 0 \in Int /\ LEN_2D \in Int
    BY <1>1, Numbers
  <2>5. rows[i] = Loop(Up(0, LEN_2D), body)
    BY <1>1
  <2> HIDE DEF body, rows
  <2>6. SideBySide(rows[i])
    BY <2>1, <2>2, <2>3, <2>4, <2>5, OneSide
  <2>7. LengthsFit("s125") => Lies(rows[i])
    BY <2>1, <2>2, <2>3, <2>4, <2>5, OneLies
  <2> QED
    BY <2>6, <2>7
<1>2. s125 = K2("s125", AnyWidth, Loop(Up(0, LEN_2D), rows))
  BY DEF s125
<1>3. 0 \in Int /\ LEN_2D \in Int
  BY Numbers
<1> HIDE DEF rows
<1> QED
  BY <1>1, <1>2, <1>3, UpNest

LEMMA s126Good == Good(s126)
<1> DEFINE rows == [i \in Int |-> Loop(Up(1, LEN_2D), [j \in Int |-> <<Set(bb(j, i), {bb(j - 1, i), flat(i * LEN_2D + j - 1), cc(j, i)})>>])]
           body == [i \in Int |-> [j \in Int |-> <<Set(bb(j, i), {bb(j - 1, i), flat(i * LEN_2D + j - 1), cc(j, i)})>>]]
<1>1. ASSUME NEW i \in Int, 0 <= i, i < LEN_2D
      PROVE  /\ Len(rows[i]) \in Nat /\ 1..Len(rows[i]) = 1..(LEN_2D - 1)
             /\ \A n \in 1..(LEN_2D - 1) : rows[i][n] = body[i][1 + n - 1]
             /\ LengthsFit("s126") => Lies(rows[i])
  <2> DEFINE row == [j \in Int |-> <<Set(bb(j, i), {bb(j - 1, i), flat(i * LEN_2D + j - 1), cc(j, i)})>>]
  <2>1. \A j \in Int : Len(row[j]) = 1
    OBVIOUS
  <2>2. ASSUME LengthsFit("s126"), NEW j \in Int, 1 <= j, j < LEN_2D
        PROVE  Inside(row[j][1])
    BY <1>1, <2>2, Numbers, CellsDeclared, RowMajor DEF LengthsFit, Long, Room, Inside, Touched, Set
  <2>3. 1 \in Int /\ LEN_2D \in Int
    BY <1>1, Numbers
  <2>4. rows[i] = Loop(Up(1, LEN_2D), row) /\ body[i] = row
    BY <1>1
  <2> HIDE DEF row, rows, body
  <2>5. LengthsFit("s126") => Lies(rows[i])
    BY <2>1, <2>2, <2>3, <2>4, OneLies
  <2> QED
    BY <2>3, <2>4, <2>5, UpLoop
<1>2. \A i, j \in Int : Len(body[i][j]) = 1
  OBVIOUS
<1>3. ASSUME NEW i \in Int, NEW r \in Int, 0 <= i, i < r, r < LEN_2D,
             NEW m \in Int, NEW n \in Int, 1 <= m, 1 <= n
      PROVE  ~Conflict(body[i][m][1], body[r][n][1])
  BY <1>3, CellIs DEF Conflict, Touched, Set
<1>4. s126 = Swapped("s126", AnyWidth, Loop(Up(0, LEN_2D), rows))
  BY DEF s126
<1>5. 0 \in Int /\ LEN_2D \in Int
  BY Numbers
<1> HIDE DEF rows, body
<1>6. ASSUME NEW i \in Int, 0 <= i, i < LEN_2D
      PROVE  \A n \in 1..Len(rows[i]) : Len(rows[i][n]) = 1
  <2>1. \A n \in 1..Len(rows[i]) : rows[i][n] = body[i][1 + n - 1]
    BY <1>1, <1>6
  <2>2. \A n \in 1..Len(rows[i]) : 1 + n - 1 \in Int
    BY <1>6, Numbers
  <2> QED
    BY <1>2, <1>6, <2>1, <2>2
<1>7. ASSUME NEW i \in Int, NEW r \in Int, 0 <= i, i < r, r < LEN_2D,
             NEW m \in 1..Len(rows[i]), NEW n \in 1..Len(rows[r])
      PROVE  ~Conflict(rows[i][m][1], rows[r][n][1])
  <2>1. 0 <= r /\ i < LEN_2D
    BY <1>5, <1>7
  <2>2. rows[i][m] = body[i][1 + m - 1] /\ rows[r][n] = body[r][1 + n - 1]
    BY <1>1, <1>7, <2>1
  <2>3. /\ 1 + m - 1 \in Int /\ 1 + n - 1 \in Int
        /\ 1 <= 1 + m - 1 /\ 1 <= 1 + n - 1
    BY <1>1, <1>7, <2>1
  <2> QED
    BY <1>3, <1>7, <2>2, <2>3
<1>8. ASSUME NEW i \in Int, NEW r \in Int, 0 <= i, i < r, r < LEN_2D
      PROVE  \A m \in 1..Len(rows[i]) : \A n \in 1..Len(rows[r]) :
                \A p \in 1..Len(rows[i][m]) : \A q \in 1..Len(rows[r][n]) : ~Conflict(rows[i][m][p], rows[r][n][q])
  <2>1. 0 <= r /\ i < LEN_2D
    BY <1>5, <1>8
  <2>2. /\ \A m \in 1..Len(rows[i]) : Len(rows[i][m]) = 1
        /\ \A n \in 1..Len(rows[r]) : Len(rows[r][n]) = 1
    BY <1>6, <1>8, <2>1
  <2>3. \A m \in 1..Len(rows[i]) : \A n \in 1..Len(rows[r]) : ~Conflict(rows[i][m][1], rows[r][n][1])
    BY <1>7, <1>8
  <2> QED
    BY <2>2, <2>3
<1>9. ASSUME NEW i \in Int, 0 <= i, i < LEN_2D
      PROVE  Len(rows[i]) \in Nat /\ \A n \in 1..Len(rows[i]) : Len(rows[i][n]) \in Nat
  BY <1>1, <1>6, <1>9
<1> QED
  BY <1>1, <1>4, <1>5, <1>8, <1>9, SwappedNest

LEMMA s127Good == Good(s127)
<1> DEFINE body == [i \in Int |-> <<Set(a(2 * i), {b(i), c(i), d(i)}),
                                 Set(a(2 * i + 1), {b(i), d(i), e(i)})>>]
           at == Straight(2)
<1>1. DOMAIN at = 1..2 /\ OrderIs(<<>>, at, 2)
  BY DEF OrderIs, Straight
<1>2. \A i \in Int : Len(body[i]) = 2
  OBVIOUS
<1>4. ASSUME NEW i \in Int PROVE Ordered(at, body[i])
  BY <1>1 DEF Ordered, Straight
<1>5. ASSUME NEW i \in Int, NEW j \in Int, 0 <= i, i < j, j < LEN_1D \div 2
      PROVE  /\ ~Flow(body[i][1], body[j][1])
             /\ ~Flow(body[i][2], body[j][2])
             /\ ~Conflict(body[i][2], body[j][1])
  BY CellIs, <1>5 DEF Conflict, Flow, Touched, Set
<1>6. ASSUME NEW i \in Int, NEW j \in Int, 0 <= i, i < j, j < LEN_1D \div 2
      PROVE  Together(at, body[i], body[j])
  <2> HIDE DEF body
  <2> QED
    BY <1>1, <1>5, <1>6 DEF Together, Straight
<1>7. ASSUME LengthsFit("s127"), NEW i \in Int, 0 <= i, i < LEN_1D \div 2
      PROVE  \A p \in 1..2 : Inside(body[i][p])
  <2>1. Inside(body[i][1]) /\ Inside(body[i][2])
    BY <1>2, <1>7, Numbers, CellsDeclared DEF LengthsFit, Long, Room, Inside, Touched, Set
  <2> QED
    BY <2>1
<1>8. s127 = Kernel("s127", AnyWidth, <<Loop(Up(0, LEN_1D \div 2), body)>>, <<>>, {}, FALSE)
  BY DEF s127, K, K2, body
<1>9. 0 \in Int /\ LEN_1D \div 2 \in Int /\ AnyWidth \in Int
  BY Numbers DEF AnyWidth
<1> HIDE DEF at
<1> QED
  BY <1>1, <1>2, <1>4, <1>6, <1>7, <1>8, <1>9, OrderedUp

LEMMA s128Good == Good(s128)
<1> DEFINE body == [i \in Int |-> <<Set(a(i), {b(2 * i), d(i)}),
                                 Set(b(2 * i), {a(i), c(2 * i)})>>]
           at == Straight(2)
<1>1. DOMAIN at = 1..2 /\ OrderIs(<<>>, at, 2)
  BY DEF OrderIs, Straight
<1>2. \A i \in Int : Len(body[i]) = 2
  OBVIOUS
<1>4. ASSUME NEW i \in Int PROVE Ordered(at, body[i])
  BY <1>1 DEF Ordered, Straight
<1>5. ASSUME NEW i \in Int, NEW j \in Int, 0 <= i, i < j, j < LEN_1D \div 2
      PROVE  /\ ~Flow(body[i][1], body[j][1])
             /\ ~Flow(body[i][2], body[j][2])
             /\ ~Conflict(body[i][2], body[j][1])
  BY CellIs, <1>5 DEF Conflict, Flow, Touched, Set
<1>6. ASSUME NEW i \in Int, NEW j \in Int, 0 <= i, i < j, j < LEN_1D \div 2
      PROVE  Together(at, body[i], body[j])
  <2> HIDE DEF body
  <2> QED
    BY <1>1, <1>5, <1>6 DEF Together, Straight
<1>7. ASSUME LengthsFit("s128"), NEW i \in Int, 0 <= i, i < LEN_1D \div 2
      PROVE  \A p \in 1..2 : Inside(body[i][p])
  <2>1. Inside(body[i][1]) /\ Inside(body[i][2])
    BY <1>2, <1>7, Numbers, CellsDeclared DEF LengthsFit, Long, Room, Inside, Touched, Set
  <2> QED
    BY <2>1
<1>8. s128 = Kernel("s128", AnyWidth, <<Loop(Up(0, LEN_1D \div 2), body)>>, <<>>, {}, FALSE)
  BY DEF s128, K, K2, body
<1>9. 0 \in Int /\ LEN_1D \div 2 \in Int /\ AnyWidth \in Int
  BY Numbers DEF AnyWidth
<1> HIDE DEF at
<1> QED
  BY <1>1, <1>2, <1>4, <1>6, <1>7, <1>8, <1>9, OrderedUp

LEMMA s131Good == Good(s131)
<1> DEFINE body == [i \in Int |-> <<Set(a(i), {a(i + 1), b(i)})>>]
<1>1. \A i \in Int : Len(body[i]) = 1
  OBVIOUS
<1>2. ASSUME NEW i \in Int, NEW j \in Int, 0 <= i, i < j, j < LEN_1D - 1
      PROVE  ~Flow(body[i][1], body[j][1])
  BY <1>2 DEF Flow, Set, a, b
<1>3. ASSUME LengthsFit("s131"), NEW i \in Int, 0 <= i, i < LEN_1D - 1
      PROVE  Inside(body[i][1])
  BY <1>3, Numbers, CellsDeclared DEF Inside, Touched, Set
<1>4. s131 = K("s131", AnyWidth, Loop(Up(0, LEN_1D - 1), body))
  BY DEF s131
<1>5. 0 \in Int /\ LEN_1D - 1 \in Int
  BY Numbers
<1> HIDE DEF body
<1> QED
  BY <1>1, <1>2, <1>3, <1>4, <1>5, OneStatement

LEMMA s132Good == Good(s132)
<1> DEFINE body == [i \in Int |-> <<Set(aa(0, i), {aa(1, i - 1), b(i), c(1)})>>]
<1>1. \A i \in Int : Len(body[i]) = 1
  OBVIOUS
<1>2. ASSUME NEW i \in Int, NEW j \in Int, 1 <= i, i < j, j < LEN_2D
      PROVE  ~Flow(body[i][1], body[j][1])
  BY <1>2 DEF Flow, Set, b, c, aa
<1>3. ASSUME LengthsFit("s132"), NEW i \in Int, 1 <= i, i < LEN_2D
      PROVE  Inside(body[i][1])
  BY <1>3, Numbers, CellsDeclared DEF LengthsFit, Long, Room, Inside, Touched, Set
<1>4. s132 = K("s132", AnyWidth, Loop(Up(1, LEN_2D), body))
  BY DEF s132
<1>5. 1 \in Int /\ LEN_2D \in Int
  BY Numbers
<1> HIDE DEF body
<1> QED
  BY <1>1, <1>2, <1>3, <1>4, <1>5, OneStatement

LEMMA s1351Good == Good(s1351)
<1> DEFINE body == [i \in Int |-> <<Set(a(i), {b(i), c(i)})>>]
<1>1. \A i \in Int : body[i] \in Seq(Elements(i))
  BY DEF Set, Elements, Own
<1>2. s1351 = K("s1351", AnyWidth, Loop(Up(0, LEN_1D), body))
  BY DEF s1351
<1>3. LEN_1D \in Int /\ LEN_1D <= LEN_1D
  BY Numbers
<1> HIDE DEF body
<1> QED
  BY <1>1, <1>2, <1>3, OwnElements

LEMMA s141Good == Good(s141)
<1> DEFINE rows == [i \in Int |-> Loop(Up(i, LEN_2D), [j \in Int |-> <<Set(flat((j * (j + 1)) \div 2 + i), {flat((j * (j + 1)) \div 2 + i), bb(j, i)})>>])]
<1>1. ASSUME NEW i \in Int, 0 <= i, i < LEN_2D
      PROVE  SideBySide(rows[i]) /\ (LengthsFit("s141") => Lies(rows[i]))
  <2> DEFINE body == [j \in Int |-> <<Set(flat((j * (j + 1)) \div 2 + i), {flat((j * (j + 1)) \div 2 + i), bb(j, i)})>>]
  <2>1. \A j \in Int : Len(body[j]) = 1
    OBVIOUS
  <2>2. ASSUME NEW j \in Int, NEW k \in Int, i <= j, j < k, k < LEN_2D
        PROVE  ~Flow(body[j][1], body[k][1])
    BY <1>1, <2>2, CellIs, Triangle DEF Flow, Set
  <2>3. ASSUME LengthsFit("s141"), NEW j \in Int, i <= j, j < LEN_2D
        PROVE  Inside(body[j][1])
    BY <1>1, <2>3, Numbers, CellsDeclared, Triangle DEF LengthsFit, Long, Room, Inside, Touched, Set
  <2>4. i \in Int /\ LEN_2D \in Int
    BY <1>1, Numbers
  <2>5. rows[i] = Loop(Up(i, LEN_2D), body)
    BY <1>1
  <2> HIDE DEF body, rows
  <2>6. SideBySide(rows[i])
    BY <2>1, <2>2, <2>3, <2>4, <2>5, OneSide
  <2>7. LengthsFit("s141") => Lies(rows[i])
    BY <2>1, <2>2, <2>3, <2>4, <2>5, OneLies
  <2> QED
    BY <2>6, <2>7
<1>2. s141 = K2("s141", AnyWidth, Loop(Up(0, LEN_2D), rows))
  BY DEF s141
<1>3. 0 \in Int /\ LEN_2D \in Int
  BY Numbers
<1> HIDE DEF rows
<1> QED
  BY <1>1, <1>2, <1>3, UpNest

LEMMA s1421Good == Good(s1421)
<1> DEFINE body == [i \in Int |-> <<Set(b(i), {b(LEN_1D \div 2 + i), a(i)})>>]
<1>1. \A i \in Int : Len(body[i]) = 1
  OBVIOUS
<1>2. ASSUME NEW i \in Int, NEW j \in Int, 0 <= i, i < j, j < LEN_1D \div 2
      PROVE  ~Flow(body[i][1], body[j][1])
  BY <1>2, Numbers DEF Flow, Set, a, b
<1>3. ASSUME LengthsFit("s1421"), NEW i \in Int, 0 <= i, i < LEN_1D \div 2
      PROVE  Inside(body[i][1])
  BY <1>3, Numbers, CellsDeclared DEF Inside, Touched, Set
<1>4. s1421 = K("s1421", AnyWidth, Loop(Up(0, LEN_1D \div 2), body))
  BY DEF s1421
<1>5. 0 \in Int /\ LEN_1D \div 2 \in Int
  BY Numbers
<1> HIDE DEF body
<1> QED
  BY <1>1, <1>2, <1>3, <1>4, <1>5, OneStatement

LEMMA s151Good == Good(s151)
<1> DEFINE body == [i \in Int |-> <<Set(a(i), {a(i + 1), b(i)})>>]
<1>1. \A i \in Int : Len(body[i]) = 1
  OBVIOUS
<1>2. ASSUME NEW i \in Int, NEW j \in Int, 0 <= i, i < j, j < LEN_1D - 1
      PROVE  ~Flow(body[i][1], body[j][1])
  BY <1>2 DEF Flow, Set, a, b
<1>3. ASSUME LengthsFit("s151"), NEW i \in Int, 0 <= i, i < LEN_1D - 1
      PROVE  Inside(body[i][1])
  BY <1>3, Numbers, CellsDeclared DEF Inside, Touched, Set
<1>4. s151 = K("s151", AnyWidth, Loop(Up(0, LEN_1D - 1), body))
  BY DEF s151
<1>5. 0 \in Int /\ LEN_1D - 1 \in Int
  BY Numbers
<1> HIDE DEF body
<1> QED
  BY <1>1, <1>2, <1>3, <1>4, <1>5, OneStatement

LEMMA s152Good == Good(s152)
<1> DEFINE body == [i \in Int |-> <<Set(b(i), {d(i), e(i)}), Set(a(i), {a(i), b(i), c(i)})>>]
<1>1. \A i \in Int : body[i] \in Seq(Elements(i))
  BY DEF Set, Elements, Own
<1>2. s152 = K("s152", AnyWidth, Loop(Up(0, LEN_1D), body))
  BY DEF s152
<1>3. LEN_1D \in Int /\ LEN_1D <= LEN_1D
  BY Numbers
<1> HIDE DEF body
<1> QED
  BY <1>1, <1>2, <1>3, OwnElements

LEMMA s161Good == ASSUME NEW m PROVE Good(s161(m))
<1> DEFINE A(i) == Test({b(i)})
           B(i) == Set(a(i), {c(i), d(i), e(i)})
           C(i) == Set(c(i + 1), {a(i), d(i)})
           body == [i \in Int |-> <<A(i)>> \o If(~m[i], <<B(i)>>) \o If(m[i], <<C(i)>>)]
           order == <<1, 3, 2>>
           at == <<1, 3, 2>>
<1>1. ASSUME NEW i \in Int
      PROVE  /\ Len(body[i]) = 3 /\ body[i][1] = A(i)
             /\ body[i][2] = Maybe(~m[i], B(i)) /\ body[i][3] = Maybe(m[i], C(i))
  <2> DEFINE p == m[i]
  <2>1. body[i] = <<A(i)>> \o If(~p, <<B(i)>>) \o If(p, <<C(i)>>)
    OBVIOUS
  <2> DEFINE P == Maybe(~p, B(i))  Q == Maybe(p, C(i))
  <2>2. If(~p, <<B(i)>>) = <<P>> /\ If(p, <<C(i)>>) = <<Q>>
    BY DEF If, Maybe
  <2> HIDE DEF p, A, B, C, P, Q, body
  <2>3. LET J == <<A(i)>> \o <<P>> \o <<Q>> IN Len(J) = 3 /\ J[1] = A(i) /\ J[2] = P /\ J[3] = Q
    BY InARow
  <2> QED
    BY <2>1, <2>2, <2>3 DEF P, Q, p
<1>2. s161(m) = Kernel("s161", AnyWidth, <<Loop(Up(0, LEN_1D - 1), body)>>, order, {}, FALSE)
  BY DEF s161, Reordered
<1>3. DOMAIN at = 1..3 /\ OrderIs(order, at, 3)
  BY DEF OrderIs
<1> HIDE DEF body
<1>4. ASSUME NEW i \in Int PROVE Ordered(at, body[i])
  <2>1. ~Conflict(body[i][2], body[i][3])
    <3>1. ~Conflict(Test({}), C(i)) /\ ~Conflict(B(i), Test({}))
      BY DEF Conflict, Touched, Test, Set
    <3> HIDE DEF A, B, C
    <3>2. CASE m[i]
      BY <1>1, <3>1, <3>2 DEF Maybe
    <3>3. CASE ~m[i]
      BY <1>1, <3>1, <3>3 DEF Maybe
    <3> QED
      BY <3>2, <3>3
  <2> QED
    BY <1>3, <2>1 DEF Ordered
<1>5. ASSUME NEW i \in Int, NEW j \in Int, 0 <= i, i < j, j < LEN_1D - 1
      PROVE  Together(at, body[i], body[j])
  <2>1. ~Flow(A(i), A(j)) /\ ~Flow(B(i), B(j)) /\ ~Flow(C(i), C(j))
    BY <1>5, CellIs DEF Flow, Test, Set
  <2>2. ~Conflict(B(i), A(j)) /\ ~Conflict(B(i), C(j)) /\ ~Conflict(C(i), A(j))
    BY <1>5, CellIs DEF Conflict, Touched, Test, Set
  <2> HIDE DEF A, B, C
  <2>3. /\ ~Flow(body[i][1], body[j][1]) /\ ~Flow(body[i][2], body[j][2]) /\ ~Flow(body[i][3], body[j][3])
        /\ ~Conflict(body[i][2], body[j][1]) /\ ~Conflict(body[i][2], body[j][3]) /\ ~Conflict(body[i][3], body[j][1])
    BY <1>1, <2>1, <2>2, MaybeLess
  <2> QED
    BY <1>3, <2>3 DEF Together
<1>6. ASSUME LengthsFit("s161"), NEW i \in Int, 0 <= i, i < LEN_1D - 1
      PROVE  \A p \in 1..3 : Inside(body[i][p])
  <2>1. Inside(A(i)) /\ Inside(B(i)) /\ Inside(C(i))
    BY <1>6, Numbers, CellsDeclared DEF Inside, Touched, Set, Test
  <2> HIDE DEF A, B, C
  <2>2. Inside(body[i][1]) /\ Inside(body[i][2]) /\ Inside(body[i][3])
    BY <1>1, <2>1, MaybeLess
  <2> QED
    BY <2>2
<1>7. LEN_1D - 1 \in Int /\ AnyWidth \in Int
  BY Numbers DEF AnyWidth
<1>8. \A i \in Int : Len(body[i]) = 3
  BY <1>1
<1> HIDE DEF A, B, C, at
<1>9. Reorders("s161", 0, LEN_1D - 1, body, order, at, 3)
  BY <1>3, <1>4, <1>5, <1>6, <1>7, <1>8 DEF Reorders
<1> HIDE DEF order
<1> QED
  BY <1>2, <1>9, ReorderedUp

LEMMA s162Good == Good(s162)
<1> DEFINE body == [i \in Int |-> <<Set(a(i), {a(i + 1), b(i), c(i)})>>]
<1>1. \A i \in Int : Len(body[i]) = 1
  OBVIOUS
<1>2. ASSUME NEW i \in Int, NEW j \in Int, 0 <= i, i < j, j < LEN_1D - 1
      PROVE  ~Flow(body[i][1], body[j][1])
  BY <1>2 DEF Flow, Set, a, b, c
<1>3. ASSUME LengthsFit("s162"), NEW i \in Int, 0 <= i, i < LEN_1D - 1
      PROVE  Inside(body[i][1])
  BY <1>3, Numbers, CellsDeclared DEF Inside, Touched, Set
<1>4. s162 = K("s162", AnyWidth, Loop(Up(0, LEN_1D - 1), body))
  BY DEF s162
<1>5. 0 \in Int /\ LEN_1D - 1 \in Int
  BY Numbers
<1> HIDE DEF body
<1> QED
  BY <1>1, <1>2, <1>3, <1>4, <1>5, OneStatement

LEMMA s171Good == Good(s171)
<1> DEFINE body == [i \in Int |-> <<Set(a(i), {a(i), b(i)})>>]
<1>1. \A i \in Int : body[i] \in Seq(Elements(i))
  BY DEF Set, Elements, Own
<1>2. s171 = K("s171", AnyWidth, Loop(Up(0, LEN_1D), body))
  BY DEF s171
<1>3. LEN_1D \in Int /\ LEN_1D <= LEN_1D
  BY Numbers
<1> HIDE DEF body
<1> QED
  BY <1>1, <1>2, <1>3, OwnElements

LEMMA s172Good == Good(s172)
<1> DEFINE body == [i \in Int |-> <<Set(a(i), {a(i), b(i)})>>]
<1>1. \A i \in Int : body[i] \in Seq(Elements(i))
  BY DEF Set, Elements, Own
<1>2. s172 = K("s172", AnyWidth, Loop(Up(0, LEN_1D), body))
  BY DEF s172
<1>3. LEN_1D \in Int /\ LEN_1D <= LEN_1D
  BY Numbers
<1> HIDE DEF body
<1> QED
  BY <1>1, <1>2, <1>3, OwnElements

LEMMA s173Good == Good(s173)
<1> DEFINE body == [i \in Int |-> <<Set(a(i + LEN_1D \div 2), {a(i), b(i)})>>]
<1>1. \A i \in Int : Len(body[i]) = 1
  OBVIOUS
<1>2. ASSUME NEW i \in Int, NEW j \in Int, 0 <= i, i < j, j < LEN_1D \div 2
      PROVE  ~Flow(body[i][1], body[j][1])
  BY <1>2, Numbers DEF Flow, Set, a, b
<1>3. ASSUME LengthsFit("s173"), NEW i \in Int, 0 <= i, i < LEN_1D \div 2
      PROVE  Inside(body[i][1])
  BY <1>3, Numbers, CellsDeclared DEF Inside, Touched, Set
<1>4. s173 = K("s173", AnyWidth, Loop(Up(0, LEN_1D \div 2), body))
  BY DEF s173
<1>5. 0 \in Int /\ LEN_1D \div 2 \in Int
  BY Numbers
<1> HIDE DEF body
<1> QED
  BY <1>1, <1>2, <1>3, <1>4, <1>5, OneStatement

LEMMA s174Good == Good(s174)
<1> DEFINE body == [i \in Int |-> <<Set(a(i + LEN_1D \div 2), {a(i), b(i)})>>]
<1>1. \A i \in Int : Len(body[i]) = 1
  OBVIOUS
<1>2. ASSUME NEW i \in Int, NEW j \in Int, 0 <= i, i < j, j < LEN_1D \div 2
      PROVE  ~Flow(body[i][1], body[j][1])
  BY <1>2, Numbers DEF Flow, Set, a, b
<1>3. ASSUME LengthsFit("s174"), NEW i \in Int, 0 <= i, i < LEN_1D \div 2
      PROVE  Inside(body[i][1])
  BY <1>3, Numbers, CellsDeclared DEF Inside, Touched, Set
<1>4. s174 = K("s174", AnyWidth, Loop(Up(0, LEN_1D \div 2), body))
  BY DEF s174
<1>5. 0 \in Int /\ LEN_1D \div 2 \in Int
  BY Numbers
<1> HIDE DEF body
<1> QED
  BY <1>1, <1>2, <1>3, <1>4, <1>5, OneStatement

LEMMA s175Good == Good(s175)
<1> DEFINE body == [i \in Int |-> <<Set(a(i), {a(i + 1), b(i)})>>]
<1>1. \A i \in Int : Len(body[i]) = 1
  OBVIOUS
<1>2. ASSUME NEW i \in Int, NEW j \in Int, 0 <= i, i < j, j < LEN_1D - 1
      PROVE  ~Flow(body[i][1], body[j][1])
  BY <1>2 DEF Flow, Set, a, b
<1>3. ASSUME LengthsFit("s175"), NEW i \in Int, 0 <= i, i < LEN_1D - 1
      PROVE  Inside(body[i][1])
  BY <1>3, Numbers, CellsDeclared DEF Inside, Touched, Set
<1>4. s175 = K("s175", AnyWidth, Loop(Up(0, LEN_1D - 1), body))
  BY DEF s175
<1>5. 0 \in Int /\ LEN_1D - 1 \in Int
  BY Numbers
<1> HIDE DEF body
<1> QED
  BY <1>1, <1>2, <1>3, <1>4, <1>5, OneStatement

LEMMA s176Good == Good(s176)
<1> DEFINE rows == [j \in Int |-> Loop(Up(0, LEN_1D \div 2), [i \in Int |-> <<Set(a(i), {a(i), b(i + LEN_1D \div 2 - j - 1), c(j)})>>])]
<1>1. ASSUME NEW j \in Int, 0 <= j, j < LEN_1D \div 2
      PROVE  SideBySide(rows[j]) /\ (LengthsFit("s176") => Lies(rows[j]))
  <2> DEFINE body == [i \in Int |-> <<Set(a(i), {a(i), b(i + LEN_1D \div 2 - j - 1), c(j)})>>]
  <2>1. \A i \in Int : Len(body[i]) = 1
    OBVIOUS
  <2>2. ASSUME NEW i \in Int, NEW k \in Int, 0 <= i, i < k, k < LEN_1D \div 2
        PROVE  ~Flow(body[i][1], body[k][1])
    BY <1>1, <2>2, CellIs, Numbers DEF Flow, Set
  <2>3. ASSUME LengthsFit("s176"), NEW i \in Int, 0 <= i, i < LEN_1D \div 2
        PROVE  Inside(body[i][1])
    BY <1>1, <2>3, Numbers, CellsDeclared DEF LengthsFit, Long, Room, Inside, Touched, Set
  <2>4. 0 \in Int /\ LEN_1D \div 2 \in Int
    BY <1>1, Numbers
  <2>5. rows[j] = Loop(Up(0, LEN_1D \div 2), body)
    BY <1>1
  <2> HIDE DEF body, rows
  <2>6. SideBySide(rows[j])
    BY <2>1, <2>2, <2>3, <2>4, <2>5, OneSide
  <2>7. LengthsFit("s176") => Lies(rows[j])
    BY <2>1, <2>2, <2>3, <2>4, <2>5, OneLies
  <2> QED
    BY <2>6, <2>7
<1>2. s176 = K2("s176", AnyWidth, Loop(Up(0, LEN_1D \div 2), rows))
  BY DEF s176
<1>3. 0 \in Int /\ LEN_1D \div 2 \in Int
  BY Numbers
<1> HIDE DEF rows
<1> QED
  BY <1>1, <1>2, <1>3, UpNest

LEMMA s2101Good == Good(s2101)
<1> DEFINE body == [i \in Int |-> <<Set(aa(i, i), {aa(i, i), bb(i, i), cc(i, i)})>>]
<1>1. \A i \in Int : Len(body[i]) = 1
  OBVIOUS
<1>2. ASSUME NEW i \in Int, NEW j \in Int, 0 <= i, i < j, j < LEN_2D
      PROVE  ~Flow(body[i][1], body[j][1])
  BY <1>2 DEF Flow, Set, aa, bb, cc
<1>3. ASSUME LengthsFit("s2101"), NEW i \in Int, 0 <= i, i < LEN_2D
      PROVE  Inside(body[i][1])
  BY <1>3, Numbers, CellsDeclared DEF Inside, Touched, Set
<1>4. s2101 = K("s2101", AnyWidth, Loop(Up(0, LEN_2D), body))
  BY DEF s2101
<1>5. 0 \in Int /\ LEN_2D \in Int
  BY Numbers
<1> HIDE DEF body
<1> QED
  BY <1>1, <1>2, <1>3, <1>4, <1>5, OneStatement

LEMMA s421Good == Good(s421)
<1> DEFINE body == [i \in Int |-> <<Set(c(i), {c(i + 1), a(i)})>>]
<1>1. \A i \in Int : Len(body[i]) = 1
  OBVIOUS
<1>2. ASSUME NEW i \in Int, NEW j \in Int, 0 <= i, i < j, j < LEN_1D - 1
      PROVE  ~Flow(body[i][1], body[j][1])
  BY <1>2 DEF Flow, Set, a, c
<1>3. ASSUME LengthsFit("s421"), NEW i \in Int, 0 <= i, i < LEN_1D - 1
      PROVE  Inside(body[i][1])
  BY <1>3, Numbers, CellsDeclared DEF Inside, Touched, Set
<1>4. s421 = K("s421", AnyWidth, Loop(Up(0, LEN_1D - 1), body))
  BY DEF s421
<1>5. 0 \in Int /\ LEN_1D - 1 \in Int
  BY Numbers
<1> HIDE DEF body
<1> QED
  BY <1>1, <1>2, <1>3, <1>4, <1>5, OneStatement

LEMMA s422Good == Good(s422)
<1> DEFINE body == [i \in Int |-> <<Set(flat(i + 4), {flat(i + 8), a(i)})>>]
<1>1. \A i \in Int : Len(body[i]) = 1
  OBVIOUS
<1>2. ASSUME NEW i \in Int, NEW j \in Int, 0 <= i, i < j, j < LEN_1D
      PROVE  ~Flow(body[i][1], body[j][1])
  BY <1>2 DEF Flow, Set, a, flat
<1>3. ASSUME LengthsFit("s422"), NEW i \in Int, 0 <= i, i < LEN_1D
      PROVE  Inside(body[i][1])
  BY <1>3, Numbers, CellsDeclared DEF LengthsFit, Long, Room, Inside, Touched, Set
<1>4. s422 = K("s422", AnyWidth, Loop(Up(0, LEN_1D), body))
  BY DEF s422
<1>5. 0 \in Int /\ LEN_1D \in Int
  BY Numbers
<1> HIDE DEF body
<1> QED
  BY <1>1, <1>2, <1>3, <1>4, <1>5, OneStatement

LEMMA s423Good == Good(s423)
<1> DEFINE body == [i \in Int |-> <<Set(flat(i + 1), {flat(i + Strip), a(i)})>>]
<1>1. \A i \in Int : Len(body[i]) = 1
  OBVIOUS
<1>2. ASSUME NEW i \in Int, NEW j \in Int, 0 <= i, i < j, j < LEN_1D - 1
      PROVE  ~Flow(body[i][1], body[j][1])
  BY <1>2, Numbers DEF Flow, Set, a, flat
<1>3. ASSUME LengthsFit("s423"), NEW i \in Int, 0 <= i, i < LEN_1D - 1
      PROVE  Inside(body[i][1])
  BY <1>3, Numbers, CellsDeclared DEF LengthsFit, Long, Room, Inside, Touched, Set
<1>4. s423 = K("s423", AnyWidth, Loop(Up(0, LEN_1D - 1), body))
  BY DEF s423
<1>5. 0 \in Int /\ LEN_1D - 1 \in Int
  BY Numbers
<1> HIDE DEF body
<1> QED
  BY <1>1, <1>2, <1>3, <1>4, <1>5, OneStatement

LEMMA s424Good == Good(s424)
<1> DEFINE body == [i \in Int |-> <<Set(flat(i + (Strip - 1) + 1), {flat(i), a(i)})>>]
           at == Straight(1)
<1>1. DOMAIN at = 1..1 /\ OrderIs(<<>>, at, 1)
  BY DEF OrderIs, Straight
<1>2. \A i \in Int : Len(body[i]) = 1
  OBVIOUS
<1>4. ASSUME NEW i \in Int PROVE Ordered(at, body[i])
  BY <1>1 DEF Ordered, Straight
<1>5. ASSUME NEW i \in Int, NEW j \in Int, 0 <= i, i < j, j < LEN_1D - 1, j - i < Strip
      PROVE  /\ ~Flow(body[i][1], body[j][1])
  BY CellIs, <1>5, Numbers DEF Conflict, Flow, Touched, Set
<1>6. ASSUME NEW i \in Int, NEW j \in Int, 0 <= i, i < j, j < LEN_1D - 1, j - i < Strip
      PROVE  Together(at, body[i], body[j])
  <2> HIDE DEF body
  <2> QED
    BY <1>1, <1>5, <1>6 DEF Together, Straight
<1>7. ASSUME LengthsFit("s424"), NEW i \in Int, 0 <= i, i < LEN_1D - 1
      PROVE  \A p \in 1..1 : Inside(body[i][p])
  <2>1. Inside(body[i][1])
    BY <1>2, <1>7, Numbers, CellsDeclared DEF LengthsFit, Long, Room, Inside, Touched, Set
  <2> QED
    BY <2>1
<1>8. s424 = Kernel("s424", Strip, <<Loop(Up(0, LEN_1D - 1), body)>>, <<>>, {}, FALSE)
  BY DEF s424, K, K2, body
<1>9. 0 \in Int /\ LEN_1D - 1 \in Int /\ Strip \in Int
  BY Numbers DEF AnyWidth
<1>10. ASSUME NEW i \in Int, NEW j \in Int, 0 <= i, i < j, j < LEN_1D - 1
      PROVE  \/ j - i >= Strip
             \/ \E cut \in {} : i < 0 + cut /\ 0 + cut <= j
             \/ Together(at, body[i], body[j])
  <2> HIDE DEF at, body
  <2> QED
    BY <1>6, <1>10, Numbers
<1> HIDE DEF at
<1> QED
  BY <1>1, <1>2, <1>4, <1>10, <1>7, <1>8, <1>9, OrderedUp

LEMMA s431Good == Good(s431)
<1> DEFINE body == [i \in Int |-> <<Set(a(i), {a(i), b(i)})>>]
<1>1. \A i \in Int : body[i] \in Seq(Elements(i))
  BY DEF Set, Elements, Own
<1>2. s431 = K("s431", AnyWidth, Loop(Up(0, LEN_1D), body))
  BY DEF s431
<1>3. LEN_1D \in Int /\ LEN_1D <= LEN_1D
  BY Numbers
<1> HIDE DEF body
<1> QED
  BY <1>1, <1>2, <1>3, OwnElements

LEMMA DependenceGood == \A k \in Dependence : Good(k)
BY s000Good, s111Good, s1111Good, s1112Good, s1113Good, s1115Good, s1119Good, s112Good, s113Good,
   s114Good, s115Good, s116Good, s118Good, s119Good, s121Good, s122Good, s1221Good, s125Good,
   s126Good, s127Good, s128Good, s131Good, s132Good, s1351Good, s141Good, s1421Good, s151Good,
   s152Good, s162Good, s171Good, s172Good, s173Good, s174Good, s175Good, s176Good, s2101Good,
   s421Good, s422Good, s423Good, s424Good, s431Good
   DEF Dependence

LEMMA DependenceIfGood == ASSUME NEW m PROVE \A k \in DependenceIf(m) : Good(k)
BY s123Good, s124Good, s161Good, s1161Good
   DEF DependenceIf

-----------------------------------------------------------------------------
(* The kernels of TsvcTransform. *)

LEMMA s1213Good == Good(s1213)
<1> DEFINE body == [i \in Int |-> <<Set(a(i), {b(i - 1), c(i)}),
                                 Set(t(i), {a(i + 1)}),
                                 Set(b(i), {t(i), d(i)})>>]
           at == <<3, 1, 2>>
<1>1. DOMAIN at = 1..3 /\ OrderIs(<<2, 3, 1>>, at, 3)
  BY DEF OrderIs
<1>2. \A i \in Int : Len(body[i]) = 3
  OBVIOUS
<1>3. ASSUME NEW i \in Int
      PROVE  /\ ~Conflict(body[i][1], body[i][2])
             /\ ~Conflict(body[i][1], body[i][3])
  BY CellIs DEF Conflict, Flow, Touched, Set
<1>4. ASSUME NEW i \in Int PROVE Ordered(at, body[i])
  <2> HIDE DEF body
  <2> QED
    BY <1>1, <1>3 DEF Ordered
<1>5. ASSUME NEW i \in Int, NEW j \in Int, 1 <= i, i < j, j < LEN_1D - 1
      PROVE  /\ ~Flow(body[i][1], body[j][1])
             /\ ~Flow(body[i][2], body[j][2])
             /\ ~Flow(body[i][3], body[j][3])
             /\ ~Conflict(body[i][1], body[j][2])
             /\ ~Conflict(body[i][1], body[j][3])
             /\ ~Conflict(body[i][3], body[j][2])
  BY CellIs, <1>5 DEF Conflict, Flow, Touched, Set
<1>6. ASSUME NEW i \in Int, NEW j \in Int, 1 <= i, i < j, j < LEN_1D - 1
      PROVE  Together(at, body[i], body[j])
  <2> HIDE DEF body
  <2> QED
    BY <1>1, <1>5, <1>6 DEF Together
<1>7. ASSUME LengthsFit("s1213"), NEW i \in Int, 1 <= i, i < LEN_1D - 1
      PROVE  \A p \in 1..3 : Inside(body[i][p])
  <2>1. Inside(body[i][1]) /\ Inside(body[i][2]) /\ Inside(body[i][3])
    BY <1>2, <1>7, Numbers, CellsDeclared DEF LengthsFit, Long, Room, Inside, Touched, Set
  <2> QED
    BY <2>1
<1>8. s1213 = Kernel("s1213", AnyWidth, <<Loop(Up(1, LEN_1D - 1), body)>>, <<2, 3, 1>>, {}, FALSE)
  BY DEF s1213, Reordered, body
<1>9. 1 \in Int /\ LEN_1D - 1 \in Int /\ AnyWidth \in Int
  BY Numbers DEF AnyWidth
<1> HIDE DEF at
<1> QED
  BY <1>1, <1>2, <1>4, <1>6, <1>7, <1>8, <1>9, OrderedUp

LEMMA s1232Good == Good(s1232)
<1> DEFINE rows == [j \in Int |-> Loop(Up(j, LEN_2D), [i \in Int |-> <<Set(aa(i, j), {bb(i, j), cc(i, j)})>>])]
<1>1. ASSUME NEW j \in Int, 0 <= j, j < LEN_2D
      PROVE  SideBySide(rows[j]) /\ (LengthsFit("s1232") => Lies(rows[j]))
  <2> DEFINE body == [i \in Int |-> <<Set(aa(i, j), {bb(i, j), cc(i, j)})>>]
  <2>1. \A i \in Int : Len(body[i]) = 1
    OBVIOUS
  <2>2. ASSUME NEW i \in Int, NEW k \in Int, j <= i, i < k, k < LEN_2D
        PROVE  ~Flow(body[i][1], body[k][1])
    BY <1>1, <2>2, CellIs DEF Flow, Set
  <2>3. ASSUME LengthsFit("s1232"), NEW i \in Int, j <= i, i < LEN_2D
        PROVE  Inside(body[i][1])
    BY <1>1, <2>3, Numbers, CellsDeclared DEF LengthsFit, Long, Room, Inside, Touched, Set
  <2>4. j \in Int /\ LEN_2D \in Int
    BY <1>1, Numbers
  <2>5. rows[j] = Loop(Up(j, LEN_2D), body)
    BY <1>1
  <2> HIDE DEF body, rows
  <2>6. SideBySide(rows[j])
    BY <2>1, <2>2, <2>3, <2>4, <2>5, OneSide
  <2>7. LengthsFit("s1232") => Lies(rows[j])
    BY <2>1, <2>2, <2>3, <2>4, <2>5, OneLies
  <2> QED
    BY <2>6, <2>7
<1>2. s1232 = K2("s1232", AnyWidth, Loop(Up(0, LEN_2D), rows))
  BY DEF s1232
<1>3. 0 \in Int /\ LEN_2D \in Int
  BY Numbers
<1> HIDE DEF rows
<1> QED
  BY <1>1, <1>2, <1>3, UpNest

LEMMA s1244Good == Good(s1244)
<1> DEFINE body == [i \in Int |-> <<Set(a(i), {b(i), c(i)}),
                                 Set(t(i), {a(i + 1)}),
                                 Set(d(i), {a(i), t(i)})>>]
           at == <<2, 1, 3>>
<1>1. DOMAIN at = 1..3 /\ OrderIs(<<2, 1, 3>>, at, 3)
  BY DEF OrderIs
<1>2. \A i \in Int : Len(body[i]) = 3
  OBVIOUS
<1>3. ASSUME NEW i \in Int
      PROVE  /\ ~Conflict(body[i][1], body[i][2])
  BY CellIs DEF Conflict, Flow, Touched, Set
<1>4. ASSUME NEW i \in Int PROVE Ordered(at, body[i])
  <2> HIDE DEF body
  <2> QED
    BY <1>1, <1>3 DEF Ordered
<1>5. ASSUME NEW i \in Int, NEW j \in Int, 0 <= i, i < j, j < LEN_1D - 1
      PROVE  /\ ~Flow(body[i][1], body[j][1])
             /\ ~Flow(body[i][2], body[j][2])
             /\ ~Flow(body[i][3], body[j][3])
             /\ ~Conflict(body[i][1], body[j][2])
             /\ ~Conflict(body[i][3], body[j][1])
             /\ ~Conflict(body[i][3], body[j][2])
  BY CellIs, <1>5 DEF Conflict, Flow, Touched, Set
<1>6. ASSUME NEW i \in Int, NEW j \in Int, 0 <= i, i < j, j < LEN_1D - 1
      PROVE  Together(at, body[i], body[j])
  <2> HIDE DEF body
  <2> QED
    BY <1>1, <1>5, <1>6 DEF Together
<1>7. ASSUME LengthsFit("s1244"), NEW i \in Int, 0 <= i, i < LEN_1D - 1
      PROVE  \A p \in 1..3 : Inside(body[i][p])
  <2>1. Inside(body[i][1]) /\ Inside(body[i][2]) /\ Inside(body[i][3])
    BY <1>2, <1>7, Numbers, CellsDeclared DEF LengthsFit, Long, Room, Inside, Touched, Set
  <2> QED
    BY <2>1
<1>8. s1244 = Kernel("s1244", AnyWidth, <<Loop(Up(0, LEN_1D - 1), body)>>, <<2, 1, 3>>, {}, FALSE)
  BY DEF s1244, Reordered, body
<1>9. 0 \in Int /\ LEN_1D - 1 \in Int /\ AnyWidth \in Int
  BY Numbers DEF AnyWidth
<1> HIDE DEF at
<1> QED
  BY <1>1, <1>2, <1>4, <1>6, <1>7, <1>8, <1>9, OrderedUp

LEMMA s1251Good == Good(s1251)
<1> DEFINE body == [i \in Int |-> <<Set(s(i), {b(i), c(i)}), Set(b(i), {a(i), d(i)}), Set(a(i), {s(i), e(i)})>>]
<1>1. \A i \in Int : body[i] \in Seq(Elements(i))
  BY DEF Set, Elements, Own
<1>2. s1251 = K("s1251", AnyWidth, Loop(Up(0, LEN_1D), body))
  BY DEF s1251
<1>3. LEN_1D \in Int /\ LEN_1D <= LEN_1D
  BY Numbers
<1> HIDE DEF body
<1> QED
  BY <1>1, <1>2, <1>3, OwnElements

LEMMA s2102Good == Good(s2102)
<1> DEFINE column(i) == Loop(Up(0, LEN_2D), [j \in Int |-> <<Set(aa(j, i), {})>>])
           one(i) == <<<<Set(aa(i, i), {})>>>>
           nest == [n \in 1..(2 * LEN_2D) |->
                      IF n % 2 = 1 THEN column((n - 1) \div 2) ELSE one((n - 1) \div 2)]
<1>1. ASSUME NEW i \in Int, 0 <= i, i < LEN_2D
      PROVE  SideBySide(column(i)) /\ Lies(column(i))
  <2> DEFINE body == [j \in Int |-> <<Set(aa(j, i), {})>>]
  <2>1. \A j \in Int : Len(body[j]) = 1
    OBVIOUS
  <2>2. ASSUME NEW j \in Int, NEW k \in Int PROVE ~Flow(body[j][1], body[k][1])
    BY <2>2 DEF Flow, Set
  <2>3. ASSUME NEW j \in Int, 0 <= j, j < LEN_2D PROVE Inside(body[j][1])
    BY <1>1, <2>3, CellsDeclared DEF Inside, Touched, Set
  <2>4. 0 \in Int /\ LEN_2D \in Int
    BY Numbers
  <2> HIDE DEF body
  <2>5. SideBySide(Loop(Up(0, LEN_2D), body)) /\ Lies(Loop(Up(0, LEN_2D), body))
    BY <2>1, <2>2, <2>3, <2>4, OneSide, OneLies
  <2> QED
    BY <2>5 DEF body
<1>2. ASSUME NEW i \in Int, 0 <= i, i < LEN_2D
      PROVE  SideBySide(one(i)) /\ Lies(one(i))
  <2>1. Inside(Set(aa(i, i), {}))
    BY <1>2, CellsDeclared DEF Inside, Touched, Set
  <2> QED
    BY <2>1, Once
<1>3. s2102 = K2("s2102", AnyWidth, nest)
  BY DEF s2102
<1> HIDE DEF column, one
<1>4. ASSUME NEW n \in 1..(2 * LEN_2D)
      PROVE  SideBySide(nest[n]) /\ Lies(nest[n])
  <2> DEFINE i == (n - 1) \div 2
  <2>1. i \in Int /\ 0 <= i /\ i < LEN_2D
    BY Pairs, Numbers
  <2>2. nest[n] = column(i) \/ nest[n] = one(i)
    OBVIOUS
  <2> HIDE DEF i, nest
  <2> QED
    BY <1>1, <1>2, <2>1, <2>2
<1>5. 2 * LEN_2D \in Nat /\ nest = [n \in 1..(2 * LEN_2D) |-> nest[n]]
  BY Numbers
<1> HIDE DEF nest
<1>6. Len(nest) = 2 * LEN_2D
  BY <1>5, TurnsOf
<1> QED
  BY <1>3, <1>4, <1>5, <1>6, StraightNest

LEMMA s211Good == Good(s211)
<1> DEFINE body == [i \in Int |-> <<Set(a(i), {b(i - 1), c(i), d(i)}),
                                 Set(b(i), {b(i + 1), e(i), d(i)})>>]
           at == <<2, 1>>
<1>1. DOMAIN at = 1..2 /\ OrderIs(<<2, 1>>, at, 2)
  BY DEF OrderIs
<1>2. \A i \in Int : Len(body[i]) = 2
  OBVIOUS
<1>3. ASSUME NEW i \in Int
      PROVE  /\ ~Conflict(body[i][1], body[i][2])
  BY CellIs DEF Conflict, Flow, Touched, Set
<1>4. ASSUME NEW i \in Int PROVE Ordered(at, body[i])
  <2> HIDE DEF body
  <2> QED
    BY <1>1, <1>3 DEF Ordered
<1>5. ASSUME NEW i \in Int, NEW j \in Int, 1 <= i, i < j, j < LEN_1D - 1
      PROVE  /\ ~Flow(body[i][1], body[j][1])
             /\ ~Flow(body[i][2], body[j][2])
             /\ ~Conflict(body[i][1], body[j][2])
  BY CellIs, <1>5 DEF Conflict, Flow, Touched, Set
<1>6. ASSUME NEW i \in Int, NEW j \in Int, 1 <= i, i < j, j < LEN_1D - 1
      PROVE  Together(at, body[i], body[j])
  <2> HIDE DEF body
  <2> QED
    BY <1>1, <1>5, <1>6 DEF Together
<1>7. ASSUME LengthsFit("s211"), NEW i \in Int, 1 <= i, i < LEN_1D - 1
      PROVE  \A p \in 1..2 : Inside(body[i][p])
  <2>1. Inside(body[i][1]) /\ Inside(body[i][2])
    BY <1>2, <1>7, Numbers, CellsDeclared DEF LengthsFit, Long, Room, Inside, Touched, Set
  <2> QED
    BY <2>1
<1>8. s211 = Kernel("s211", AnyWidth, <<Loop(Up(1, LEN_1D - 1), body)>>, <<2, 1>>, {}, FALSE)
  BY DEF s211, Reordered, body
<1>9. 1 \in Int /\ LEN_1D - 1 \in Int /\ AnyWidth \in Int
  BY Numbers DEF AnyWidth
<1> HIDE DEF at
<1> QED
  BY <1>1, <1>2, <1>4, <1>6, <1>7, <1>8, <1>9, OrderedUp

LEMMA s2111Good == Good(s2111)
<1> DEFINE rows == [j \in Int |-> Loop(Up(1, LEN_2D), [i \in Int |-> <<Set(aa(j, i), {aa(j, i - 1), aa(j - 1, i)})>>])]
<1>1. ASSUME NEW j \in Int, 1 <= j, j < LEN_2D
      PROVE  /\ Len(rows[j]) \in Nat /\ \A n \in 1..Len(rows[j]) : Len(rows[j][n]) \in Nat
             /\ LengthsFit("s2111") => Lies(rows[j])
  <2> DEFINE body == [i \in Int |-> <<Set(aa(j, i), {aa(j, i - 1), aa(j - 1, i)})>>]
  <2>1. \A i \in Int : Len(body[i]) = 1
    OBVIOUS
  <2>2. ASSUME LengthsFit("s2111"), NEW i \in Int, 1 <= i, i < LEN_2D
        PROVE  \A p \in 1..Len(body[i]) : Inside(body[i][p])
    <3>1. Inside(body[i][1])
      BY <1>1, <2>2, Numbers, CellsDeclared DEF LengthsFit, Long, Room, Inside, Touched, Set
    <3> QED
      BY <2>1, <3>1
  <2>3. 1 \in Int /\ LEN_2D \in Int
    BY <1>1, Numbers
  <2>4. rows[j] = Loop(Up(1, LEN_2D), body)
    BY <1>1
  <2> HIDE DEF body, rows
  <2>5. LengthsFit("s2111") => Lies(rows[j])
    BY <2>1, <2>2, <2>3, <2>4, UpLies
  <2> QED
    BY <2>1, <2>3, <2>4, <2>5, UpLoop
<1>2. s2111 = K2("s2111", None, Loop(Up(1, LEN_2D), rows))
  BY DEF s2111
<1>3. 1 \in Int /\ LEN_2D \in Int
  BY Numbers
<1> HIDE DEF rows
<1> QED
  BY <1>1, <1>2, <1>3, OneLaneNest

LEMMA s212Good == Good(s212)
<1> DEFINE body == [i \in Int |-> <<Set(a(i), {a(i), c(i)}),
                                 Set(t(i), {a(i + 1)}),
                                 Set(b(i), {b(i), t(i), d(i)})>>]
           at == <<2, 1, 3>>
<1>1. DOMAIN at = 1..3 /\ OrderIs(<<2, 1, 3>>, at, 3)
  BY DEF OrderIs
<1>2. \A i \in Int : Len(body[i]) = 3
  OBVIOUS
<1>3. ASSUME NEW i \in Int
      PROVE  /\ ~Conflict(body[i][1], body[i][2])
  BY CellIs DEF Conflict, Flow, Touched, Set
<1>4. ASSUME NEW i \in Int PROVE Ordered(at, body[i])
  <2> HIDE DEF body
  <2> QED
    BY <1>1, <1>3 DEF Ordered
<1>5. ASSUME NEW i \in Int, NEW j \in Int, 0 <= i, i < j, j < LEN_1D - 1
      PROVE  /\ ~Flow(body[i][1], body[j][1])
             /\ ~Flow(body[i][2], body[j][2])
             /\ ~Flow(body[i][3], body[j][3])
             /\ ~Conflict(body[i][1], body[j][2])
             /\ ~Conflict(body[i][3], body[j][1])
             /\ ~Conflict(body[i][3], body[j][2])
  BY CellIs, <1>5 DEF Conflict, Flow, Touched, Set
<1>6. ASSUME NEW i \in Int, NEW j \in Int, 0 <= i, i < j, j < LEN_1D - 1
      PROVE  Together(at, body[i], body[j])
  <2> HIDE DEF body
  <2> QED
    BY <1>1, <1>5, <1>6 DEF Together
<1>7. ASSUME LengthsFit("s212"), NEW i \in Int, 0 <= i, i < LEN_1D - 1
      PROVE  \A p \in 1..3 : Inside(body[i][p])
  <2>1. Inside(body[i][1]) /\ Inside(body[i][2]) /\ Inside(body[i][3])
    BY <1>2, <1>7, Numbers, CellsDeclared DEF LengthsFit, Long, Room, Inside, Touched, Set
  <2> QED
    BY <2>1
<1>8. s212 = Kernel("s212", AnyWidth, <<Loop(Up(0, LEN_1D - 1), body)>>, <<2, 1, 3>>, {}, FALSE)
  BY DEF s212, Reordered, body
<1>9. 0 \in Int /\ LEN_1D - 1 \in Int /\ AnyWidth \in Int
  BY Numbers DEF AnyWidth
<1> HIDE DEF at
<1> QED
  BY <1>1, <1>2, <1>4, <1>6, <1>7, <1>8, <1>9, OrderedUp

LEMMA s221Good == Good(s221)
<1> DEFINE body == [i \in Int |-> <<Set(a(i), {a(i), c(i), d(i)}),
                                 Set(b(i), {b(i - 1), a(i), d(i)})>>]
<1>1. \A i \in Int : Len(body[i]) = 2
  OBVIOUS
<1>2. ASSUME LengthsFit("s221"), NEW i \in Int, 1 <= i, i < LEN_1D
      PROVE  \A p \in 1..Len(body[i]) : Inside(body[i][p])
  <2>1. Inside(body[i][1]) /\ Inside(body[i][2])
    BY <1>2, Numbers, CellsDeclared DEF LengthsFit, Long, Room, Inside, Touched, Set
  <2> QED
    BY <1>1, <2>1
<1>3. s221 = K("s221", None, Loop(Up(1, LEN_1D), body))
  BY DEF s221
<1>4. 1 \in Int /\ LEN_1D \in Int
  BY Numbers
<1> HIDE DEF body
<1> QED
  BY <1>1, <1>2, <1>3, <1>4, OneLaneUp

LEMMA s222Good == Good(s222)
<1> DEFINE body == [i \in Int |-> <<Set(a(i), {a(i), b(i), c(i)}),
                                 Set(e(i), {e(i - 1)}),
                                 Set(a(i), {a(i), b(i), c(i)})>>]
<1>1. \A i \in Int : Len(body[i]) = 3
  OBVIOUS
<1>2. ASSUME LengthsFit("s222"), NEW i \in Int, 1 <= i, i < LEN_1D
      PROVE  \A p \in 1..Len(body[i]) : Inside(body[i][p])
  <2>1. Inside(body[i][1]) /\ Inside(body[i][2]) /\ Inside(body[i][3])
    BY <1>2, Numbers, CellsDeclared DEF LengthsFit, Long, Room, Inside, Touched, Set
  <2> QED
    BY <1>1, <2>1
<1>3. s222 = K("s222", None, Loop(Up(1, LEN_1D), body))
  BY DEF s222
<1>4. 1 \in Int /\ LEN_1D \in Int
  BY Numbers
<1> HIDE DEF body
<1> QED
  BY <1>1, <1>2, <1>3, <1>4, OneLaneUp

LEMMA s2233Good == Good(s2233)
<1> DEFINE row(n, i) == [j \in Int |-> IF n % 2 = 1 THEN <<Set(aa(j, i), {aa(j - 1, i), cc(j, i)})>>
                                                   ELSE <<Set(bb(i, j), {bb(i - 1, j), cc(i, j)})>>]
           nest == [n \in 1..(2 * (LEN_2D - 1)) |-> Loop(Up(1, LEN_2D), row(n, (n + 1) \div 2))]
<1>1. ASSUME NEW n, NEW i \in Int, 1 <= i, i < LEN_2D
      PROVE  /\ Len(Loop(Up(1, LEN_2D), row(n, i))) \in Nat
             /\ \A r \in 1..Len(Loop(Up(1, LEN_2D), row(n, i))) : Len(Loop(Up(1, LEN_2D), row(n, i))[r]) \in Nat
             /\ Lies(Loop(Up(1, LEN_2D), row(n, i)))
  <2> DEFINE body == row(n, i)
  <2>1. \A j \in Int : Len(body[j]) = 1
    OBVIOUS
  <2>2. ASSUME NEW j \in Int, 1 <= j, j < LEN_2D PROVE Inside(body[j][1])
    <3>1. CASE n % 2 = 1
      BY <1>1, <2>2, <3>1, Numbers, CellsDeclared DEF Inside, Touched, Set
    <3>2. CASE n % 2 # 1
      BY <1>1, <2>2, <3>2, Numbers, CellsDeclared DEF Inside, Touched, Set
    <3> QED
      BY <3>1, <3>2
  <2>3. 1 \in Int /\ LEN_2D \in Int
    BY Numbers
  <2> HIDE DEF body
  <2>4. Lies(Loop(Up(1, LEN_2D), body))
    BY <2>1, <2>2, <2>3, OneLies
  <2>5. /\ Len(Loop(Up(1, LEN_2D), body)) \in Nat
        /\ \A r \in 1..Len(Loop(Up(1, LEN_2D), body)) : Len(Loop(Up(1, LEN_2D), body)[r]) \in Nat
    BY <2>1, <2>3, UpLoop
  <2> QED
    BY <2>4, <2>5 DEF body
<1>2. s2233 = K2("s2233", None, nest)
  BY DEF s2233
<1> HIDE DEF row
<1>3. ASSUME NEW n \in 1..(2 * (LEN_2D - 1))
      PROVE  /\ Len(nest[n]) \in Nat /\ \A r \in 1..Len(nest[n]) : Len(nest[n][r]) \in Nat
             /\ Lies(nest[n])
  <2> DEFINE i == (n + 1) \div 2  N == LEN_2D - 1
  <2>1. N \in Nat
    BY Numbers
  <2>2. i \in Int /\ 1 <= i /\ i <= N
    BY <2>1, Pairs
  <2>3. nest[n] = Loop(Up(1, LEN_2D), row(n, i))
    OBVIOUS
  <2>4. i < LEN_2D
    BY <2>2, Numbers
  <2> HIDE DEF i, nest
  <2> QED
    BY <1>1, <2>2, <2>3, <2>4
<1>4. 2 * (LEN_2D - 1) \in Nat /\ nest = [n \in 1..(2 * (LEN_2D - 1)) |-> nest[n]]
  BY Numbers
<1> HIDE DEF nest
<1>5. Len(nest) = 2 * (LEN_2D - 1)
  BY <1>4, TurnsOf
<1> QED
  BY <1>2, <1>3, <1>4, <1>5, OneLane

LEMMA s2244Good == Good(s2244)
<1> DEFINE body == [i \in Int |-> <<Set(a(i + 1), {b(i), e(i)}),
                                 Set(a(i), {b(i), c(i)})>>]
           at == Straight(2)
<1>1. DOMAIN at = 1..2 /\ OrderIs(<<>>, at, 2)
  BY DEF OrderIs, Straight
<1>2. \A i \in Int : Len(body[i]) = 2
  OBVIOUS
<1>4. ASSUME NEW i \in Int PROVE Ordered(at, body[i])
  BY <1>1 DEF Ordered, Straight
<1>5. ASSUME NEW i \in Int, NEW j \in Int, 0 <= i, i < j, j < LEN_1D - 1
      PROVE  /\ ~Flow(body[i][1], body[j][1])
             /\ ~Flow(body[i][2], body[j][2])
             /\ ~Conflict(body[i][2], body[j][1])
  BY CellIs, <1>5 DEF Conflict, Flow, Touched, Set
<1>6. ASSUME NEW i \in Int, NEW j \in Int, 0 <= i, i < j, j < LEN_1D - 1
      PROVE  Together(at, body[i], body[j])
  <2> HIDE DEF body
  <2> QED
    BY <1>1, <1>5, <1>6 DEF Together, Straight
<1>7. ASSUME LengthsFit("s2244"), NEW i \in Int, 0 <= i, i < LEN_1D - 1
      PROVE  \A p \in 1..2 : Inside(body[i][p])
  <2>1. Inside(body[i][1]) /\ Inside(body[i][2])
    BY <1>2, <1>7, Numbers, CellsDeclared DEF LengthsFit, Long, Room, Inside, Touched, Set
  <2> QED
    BY <2>1
<1>8. s2244 = Kernel("s2244", AnyWidth, <<Loop(Up(0, LEN_1D - 1), body)>>, <<>>, {}, FALSE)
  BY DEF s2244, K, K2, body
<1>9. 0 \in Int /\ LEN_1D - 1 \in Int /\ AnyWidth \in Int
  BY Numbers DEF AnyWidth
<1> HIDE DEF at
<1> QED
  BY <1>1, <1>2, <1>4, <1>6, <1>7, <1>8, <1>9, OrderedUp

LEMMA s2251Good == Good(s2251)
<1> DEFINE body == [i \in Int |-> <<Set(a(i), {s(i - 1), e(i)}),
                                 Set(s(i), {b(i), c(i)}),
                                 Set(b(i), {a(i), d(i)})>>]
           at == <<2, 1, 3>>
<1>1. DOMAIN at = 1..3 /\ OrderIs(<<2, 1, 3>>, at, 3)
  BY DEF OrderIs
<1>2. \A i \in Int : Len(body[i]) = 3
  OBVIOUS
<1>3. ASSUME NEW i \in Int
      PROVE  /\ ~Conflict(body[i][1], body[i][2])
  BY CellIs DEF Conflict, Flow, Touched, Set
<1>4. ASSUME NEW i \in Int PROVE Ordered(at, body[i])
  <2> HIDE DEF body
  <2> QED
    BY <1>1, <1>3 DEF Ordered
<1>5. ASSUME NEW i \in Int, NEW j \in Int, 0 <= i, i < j, j < LEN_1D
      PROVE  /\ ~Flow(body[i][1], body[j][1])
             /\ ~Flow(body[i][2], body[j][2])
             /\ ~Flow(body[i][3], body[j][3])
             /\ ~Conflict(body[i][1], body[j][2])
             /\ ~Conflict(body[i][3], body[j][1])
             /\ ~Conflict(body[i][3], body[j][2])
  BY CellIs, <1>5 DEF Conflict, Flow, Touched, Set
<1>6. ASSUME NEW i \in Int, NEW j \in Int, 0 <= i, i < j, j < LEN_1D
      PROVE  Together(at, body[i], body[j])
  <2> HIDE DEF body
  <2> QED
    BY <1>1, <1>5, <1>6 DEF Together
<1>7. ASSUME LengthsFit("s2251"), NEW i \in Int, 0 <= i, i < LEN_1D
      PROVE  \A p \in 1..3 : Inside(body[i][p])
  <2>1. Inside(body[i][1]) /\ Inside(body[i][2]) /\ Inside(body[i][3])
    BY <1>2, <1>7, Numbers, CellsDeclared DEF LengthsFit, Long, Room, Inside, Touched, Set
  <2> QED
    BY <2>1
<1>8. s2251 = Kernel("s2251", AnyWidth, <<Loop(Up(0, LEN_1D), body)>>, <<2, 1, 3>>, {}, FALSE)
  BY DEF s2251, Reordered, body
<1>9. 0 \in Int /\ LEN_1D \in Int /\ AnyWidth \in Int
  BY Numbers DEF AnyWidth
<1> HIDE DEF at
<1> QED
  BY <1>1, <1>2, <1>4, <1>6, <1>7, <1>8, <1>9, OrderedUp

LEMMA s2275Good == Good(s2275)
<1> DEFINE column(i) == Loop(Up(0, LEN_2D), [j \in Int |-> <<Set(aa(j, i), {aa(j, i), bb(j, i), cc(j, i)})>>])
           one(i) == <<<<Set(a(i), {b(i), c(i), d(i)})>>>>
           nest == [n \in 1..(2 * LEN_2D) |->
                      IF n % 2 = 1 THEN column((n - 1) \div 2) ELSE one((n - 1) \div 2)]
<1>1. ASSUME NEW i \in Int, 0 <= i, i < LEN_2D
      PROVE  SideBySide(column(i)) /\ Lies(column(i))
  <2> DEFINE body == [j \in Int |-> <<Set(aa(j, i), {aa(j, i), bb(j, i), cc(j, i)})>>]
  <2>1. \A j \in Int : Len(body[j]) = 1
    OBVIOUS
  <2>2. ASSUME NEW j \in Int, NEW k \in Int, j < k PROVE ~Flow(body[j][1], body[k][1])
    BY <1>1, <2>2, CellIs DEF Flow, Set
  <2>3. ASSUME NEW j \in Int, 0 <= j, j < LEN_2D PROVE Inside(body[j][1])
    BY <1>1, <2>3, CellsDeclared DEF Inside, Touched, Set
  <2>4. 0 \in Int /\ LEN_2D \in Int
    BY Numbers
  <2> HIDE DEF body
  <2>5. SideBySide(Loop(Up(0, LEN_2D), body)) /\ Lies(Loop(Up(0, LEN_2D), body))
    BY <2>1, <2>2, <2>3, <2>4, OneSide, OneLies
  <2> QED
    BY <2>5 DEF body
<1>2. ASSUME LengthsFit("s2275"), NEW i \in Int, 0 <= i, i < LEN_2D
      PROVE  Lies(one(i))
  <2>1. i < LEN_1D
    BY <1>2, Numbers DEF LengthsFit, Long, Room
  <2>2. Inside(Set(a(i), {b(i), c(i), d(i)}))
    BY <1>2, <2>1, CellsDeclared DEF Inside, Touched, Set
  <2> QED
    BY <2>2, Once
<1>3. \A i \in Int : SideBySide(one(i))
  BY Once
<1>4. s2275 = K2("s2275", AnyWidth, nest)
  BY DEF s2275
<1> HIDE DEF column, one
<1>5. ASSUME NEW n \in 1..(2 * LEN_2D)
      PROVE  SideBySide(nest[n]) /\ (LengthsFit("s2275") => Lies(nest[n]))
  <2> DEFINE i == (n - 1) \div 2
  <2>1. i \in Int /\ 0 <= i /\ i < LEN_2D
    BY Pairs, Numbers
  <2>2. nest[n] = column(i) \/ nest[n] = one(i)
    OBVIOUS
  <2> HIDE DEF i, nest
  <2> QED
    BY <1>1, <1>2, <1>3, <2>1, <2>2
<1>6. 2 * LEN_2D \in Nat /\ nest = [n \in 1..(2 * LEN_2D) |-> nest[n]]
  BY Numbers
<1> HIDE DEF nest
<1>7. Len(nest) = 2 * LEN_2D
  BY <1>6, TurnsOf
<1> QED
  BY <1>4, <1>5, <1>6, <1>7, StraightNest

LEMMA s231Good == Good(s231)
<1> DEFINE rows == [i \in Int |-> Loop(Up(1, LEN_2D), [j \in Int |-> <<Set(aa(j, i), {aa(j - 1, i), bb(j, i)})>>])]
           body == [i \in Int |-> [j \in Int |-> <<Set(aa(j, i), {aa(j - 1, i), bb(j, i)})>>]]
<1>1. ASSUME NEW i \in Int, 0 <= i, i < LEN_2D
      PROVE  /\ Len(rows[i]) \in Nat /\ 1..Len(rows[i]) = 1..(LEN_2D - 1)
             /\ \A n \in 1..(LEN_2D - 1) : rows[i][n] = body[i][1 + n - 1]
             /\ LengthsFit("s231") => Lies(rows[i])
  <2> DEFINE row == [j \in Int |-> <<Set(aa(j, i), {aa(j - 1, i), bb(j, i)})>>]
  <2>1. \A j \in Int : Len(row[j]) = 1
    OBVIOUS
  <2>2. ASSUME LengthsFit("s231"), NEW j \in Int, 1 <= j, j < LEN_2D
        PROVE  Inside(row[j][1])
    BY <1>1, <2>2, Numbers, CellsDeclared DEF LengthsFit, Long, Room, Inside, Touched, Set
  <2>3. 1 \in Int /\ LEN_2D \in Int
    BY <1>1, Numbers
  <2>4. rows[i] = Loop(Up(1, LEN_2D), row) /\ body[i] = row
    BY <1>1
  <2> HIDE DEF row, rows, body
  <2>5. LengthsFit("s231") => Lies(rows[i])
    BY <2>1, <2>2, <2>3, <2>4, OneLies
  <2> QED
    BY <2>3, <2>4, <2>5, UpLoop
<1>2. \A i, j \in Int : Len(body[i][j]) = 1
  OBVIOUS
<1>3. ASSUME NEW i \in Int, NEW r \in Int, 0 <= i, i < r, r < LEN_2D,
             NEW m \in Int, NEW n \in Int, 1 <= m, 1 <= n
      PROVE  ~Conflict(body[i][m][1], body[r][n][1])
  BY <1>3, CellIs DEF Conflict, Touched, Set
<1>4. s231 = Swapped("s231", AnyWidth, Loop(Up(0, LEN_2D), rows))
  BY DEF s231
<1>5. 0 \in Int /\ LEN_2D \in Int
  BY Numbers
<1> HIDE DEF rows, body
<1>6. ASSUME NEW i \in Int, 0 <= i, i < LEN_2D
      PROVE  \A n \in 1..Len(rows[i]) : Len(rows[i][n]) = 1
  <2>1. \A n \in 1..Len(rows[i]) : rows[i][n] = body[i][1 + n - 1]
    BY <1>1, <1>6
  <2>2. \A n \in 1..Len(rows[i]) : 1 + n - 1 \in Int
    BY <1>6, Numbers
  <2> QED
    BY <1>2, <1>6, <2>1, <2>2
<1>7. ASSUME NEW i \in Int, NEW r \in Int, 0 <= i, i < r, r < LEN_2D,
             NEW m \in 1..Len(rows[i]), NEW n \in 1..Len(rows[r])
      PROVE  ~Conflict(rows[i][m][1], rows[r][n][1])
  <2>1. 0 <= r /\ i < LEN_2D
    BY <1>5, <1>7
  <2>2. rows[i][m] = body[i][1 + m - 1] /\ rows[r][n] = body[r][1 + n - 1]
    BY <1>1, <1>7, <2>1
  <2>3. /\ 1 + m - 1 \in Int /\ 1 + n - 1 \in Int
        /\ 1 <= 1 + m - 1 /\ 1 <= 1 + n - 1
    BY <1>1, <1>7, <2>1
  <2> QED
    BY <1>3, <1>7, <2>2, <2>3
<1>8. ASSUME NEW i \in Int, NEW r \in Int, 0 <= i, i < r, r < LEN_2D
      PROVE  \A m \in 1..Len(rows[i]) : \A n \in 1..Len(rows[r]) :
                \A p \in 1..Len(rows[i][m]) : \A q \in 1..Len(rows[r][n]) : ~Conflict(rows[i][m][p], rows[r][n][q])
  <2>1. 0 <= r /\ i < LEN_2D
    BY <1>5, <1>8
  <2>2. /\ \A m \in 1..Len(rows[i]) : Len(rows[i][m]) = 1
        /\ \A n \in 1..Len(rows[r]) : Len(rows[r][n]) = 1
    BY <1>6, <1>8, <2>1
  <2>3. \A m \in 1..Len(rows[i]) : \A n \in 1..Len(rows[r]) : ~Conflict(rows[i][m][1], rows[r][n][1])
    BY <1>7, <1>8
  <2> QED
    BY <2>2, <2>3
<1>9. ASSUME NEW i \in Int, 0 <= i, i < LEN_2D
      PROVE  Len(rows[i]) \in Nat /\ \A n \in 1..Len(rows[i]) : Len(rows[i][n]) \in Nat
  BY <1>1, <1>6, <1>9
<1> QED
  BY <1>1, <1>4, <1>5, <1>8, <1>9, SwappedNest

LEMMA s232Good == Good(s232)
<1> DEFINE rows == [j \in Int |-> Loop(Up(1, j + 1), [i \in Int |-> <<Set(aa(j, i), {aa(j, i - 1), bb(j, i)})>>])]
           body == [j \in Int |-> [i \in Int |-> <<Set(aa(j, i), {aa(j, i - 1), bb(j, i)})>>]]
<1>1. ASSUME NEW j \in Int, 1 <= j, j < LEN_2D
      PROVE  /\ Len(rows[j]) \in Nat /\ 1..Len(rows[j]) = 1..(j + 1 - 1)
             /\ \A n \in 1..(j + 1 - 1) : rows[j][n] = body[j][1 + n - 1]
             /\ LengthsFit("s232") => Lies(rows[j])
  <2> DEFINE row == [i \in Int |-> <<Set(aa(j, i), {aa(j, i - 1), bb(j, i)})>>]
  <2>1. \A i \in Int : Len(row[i]) = 1
    OBVIOUS
  <2>2. ASSUME LengthsFit("s232"), NEW i \in Int, 1 <= i, i < j + 1
        PROVE  Inside(row[i][1])
    BY <1>1, <2>2, Numbers, CellsDeclared DEF LengthsFit, Long, Room, Inside, Touched, Set
  <2>3. 1 \in Int /\ j + 1 \in Int
    BY <1>1, Numbers
  <2>4. rows[j] = Loop(Up(1, j + 1), row) /\ body[j] = row
    BY <1>1
  <2> HIDE DEF row, rows, body
  <2>5. LengthsFit("s232") => Lies(rows[j])
    BY <2>1, <2>2, <2>3, <2>4, OneLies
  <2> QED
    BY <2>3, <2>4, <2>5, UpLoop
<1>2. \A i, j \in Int : Len(body[i][j]) = 1
  OBVIOUS
<1>3. ASSUME NEW j \in Int, NEW r \in Int, 1 <= j, j < r, r < LEN_2D,
             NEW m \in Int, NEW n \in Int, 1 <= m, 1 <= n
      PROVE  ~Conflict(body[j][m][1], body[r][n][1])
  BY <1>3, CellIs DEF Conflict, Touched, Set
<1>4. s232 = Swapped("s232", AnyWidth, Loop(Up(1, LEN_2D), rows))
  BY DEF s232
<1>5. 1 \in Int /\ LEN_2D \in Int
  BY Numbers
<1> HIDE DEF rows, body
<1>6. ASSUME NEW j \in Int, 1 <= j, j < LEN_2D
      PROVE  \A n \in 1..Len(rows[j]) : Len(rows[j][n]) = 1
  <2>1. \A n \in 1..Len(rows[j]) : rows[j][n] = body[j][1 + n - 1]
    BY <1>1, <1>6
  <2>2. \A n \in 1..Len(rows[j]) : 1 + n - 1 \in Int
    BY <1>6, Numbers
  <2> QED
    BY <1>2, <1>6, <2>1, <2>2
<1>7. ASSUME NEW j \in Int, NEW r \in Int, 1 <= j, j < r, r < LEN_2D,
             NEW m \in 1..Len(rows[j]), NEW n \in 1..Len(rows[r])
      PROVE  ~Conflict(rows[j][m][1], rows[r][n][1])
  <2>1. 1 <= r /\ j < LEN_2D
    BY <1>5, <1>7
  <2>2. rows[j][m] = body[j][1 + m - 1] /\ rows[r][n] = body[r][1 + n - 1]
    BY <1>1, <1>7, <2>1
  <2>3. /\ 1 + m - 1 \in Int /\ 1 + n - 1 \in Int
        /\ 1 <= 1 + m - 1 /\ 1 <= 1 + n - 1
    BY <1>1, <1>7, <2>1
  <2> QED
    BY <1>3, <1>7, <2>2, <2>3
<1>8. ASSUME NEW j \in Int, NEW r \in Int, 1 <= j, j < r, r < LEN_2D
      PROVE  \A m \in 1..Len(rows[j]) : \A n \in 1..Len(rows[r]) :
                \A p \in 1..Len(rows[j][m]) : \A q \in 1..Len(rows[r][n]) : ~Conflict(rows[j][m][p], rows[r][n][q])
  <2>1. 1 <= r /\ j < LEN_2D
    BY <1>5, <1>8
  <2>2. /\ \A m \in 1..Len(rows[j]) : Len(rows[j][m]) = 1
        /\ \A n \in 1..Len(rows[r]) : Len(rows[r][n]) = 1
    BY <1>6, <1>8, <2>1
  <2>3. \A m \in 1..Len(rows[j]) : \A n \in 1..Len(rows[r]) : ~Conflict(rows[j][m][1], rows[r][n][1])
    BY <1>7, <1>8
  <2> QED
    BY <2>2, <2>3
<1>9. ASSUME NEW j \in Int, 1 <= j, j < LEN_2D
      PROVE  Len(rows[j]) \in Nat /\ \A n \in 1..Len(rows[j]) : Len(rows[j][n]) \in Nat
  BY <1>1, <1>6, <1>9
<1> QED
  BY <1>1, <1>4, <1>5, <1>8, <1>9, SwappedNest

LEMMA s233Good == Good(s233)
<1> DEFINE row(n, i) == [j \in Int |-> IF n % 2 = 1 THEN <<Set(aa(j, i), {aa(j - 1, i), cc(j, i)})>>
                                                   ELSE <<Set(bb(j, i), {bb(j, i - 1), cc(j, i)})>>]
           nest == [n \in 1..(2 * (LEN_2D - 1)) |-> Loop(Up(1, LEN_2D), row(n, (n + 1) \div 2))]
<1>1. ASSUME NEW n, NEW i \in Int, 1 <= i, i < LEN_2D
      PROVE  /\ Len(Loop(Up(1, LEN_2D), row(n, i))) \in Nat
             /\ \A r \in 1..Len(Loop(Up(1, LEN_2D), row(n, i))) : Len(Loop(Up(1, LEN_2D), row(n, i))[r]) \in Nat
             /\ Lies(Loop(Up(1, LEN_2D), row(n, i)))
  <2> DEFINE body == row(n, i)
  <2>1. \A j \in Int : Len(body[j]) = 1
    OBVIOUS
  <2>2. ASSUME NEW j \in Int, 1 <= j, j < LEN_2D PROVE Inside(body[j][1])
    <3>1. CASE n % 2 = 1
      BY <1>1, <2>2, <3>1, Numbers, CellsDeclared DEF Inside, Touched, Set
    <3>2. CASE n % 2 # 1
      BY <1>1, <2>2, <3>2, Numbers, CellsDeclared DEF Inside, Touched, Set
    <3> QED
      BY <3>1, <3>2
  <2>3. 1 \in Int /\ LEN_2D \in Int
    BY Numbers
  <2> HIDE DEF body
  <2>4. Lies(Loop(Up(1, LEN_2D), body))
    BY <2>1, <2>2, <2>3, OneLies
  <2>5. /\ Len(Loop(Up(1, LEN_2D), body)) \in Nat
        /\ \A r \in 1..Len(Loop(Up(1, LEN_2D), body)) : Len(Loop(Up(1, LEN_2D), body)[r]) \in Nat
    BY <2>1, <2>3, UpLoop
  <2> QED
    BY <2>4, <2>5 DEF body
<1>2. s233 = K2("s233", None, nest)
  BY DEF s233
<1> HIDE DEF row
<1>3. ASSUME NEW n \in 1..(2 * (LEN_2D - 1))
      PROVE  /\ Len(nest[n]) \in Nat /\ \A r \in 1..Len(nest[n]) : Len(nest[n][r]) \in Nat
             /\ Lies(nest[n])
  <2> DEFINE i == (n + 1) \div 2  N == LEN_2D - 1
  <2>1. N \in Nat
    BY Numbers
  <2>2. i \in Int /\ 1 <= i /\ i <= N
    BY <2>1, Pairs
  <2>3. nest[n] = Loop(Up(1, LEN_2D), row(n, i))
    OBVIOUS
  <2>4. i < LEN_2D
    BY <2>2, Numbers
  <2> HIDE DEF i, nest
  <2> QED
    BY <1>1, <2>2, <2>3, <2>4
<1>4. 2 * (LEN_2D - 1) \in Nat /\ nest = [n \in 1..(2 * (LEN_2D - 1)) |-> nest[n]]
  BY Numbers
<1> HIDE DEF nest
<1>5. Len(nest) = 2 * (LEN_2D - 1)
  BY <1>4, TurnsOf
<1> QED
  BY <1>2, <1>3, <1>4, <1>5, OneLane

LEMMA s235Good == Good(s235)
<1> DEFINE column(i) == Loop(Up(1, LEN_2D), [j \in Int |-> <<Set(aa(j, i), {aa(j - 1, i), bb(j, i), a(i)})>>])
           one(i) == <<<<Set(a(i), {a(i), b(i), c(i)})>>>>
           nest == [n \in 1..(2 * LEN_2D) |->
                      IF n % 2 = 1 THEN one((n - 1) \div 2) ELSE column((n - 1) \div 2)]
<1>1. ASSUME NEW i \in Int, 0 <= i, i < LEN_2D
      PROVE  /\ Len(column(i)) \in Nat /\ \A n \in 1..Len(column(i)) : Len(column(i)[n]) \in Nat
             /\ LengthsFit("s235") => Lies(column(i))
  <2> DEFINE body == [j \in Int |-> <<Set(aa(j, i), {aa(j - 1, i), bb(j, i), a(i)})>>]
  <2>1. \A j \in Int : Len(body[j]) = 1
    OBVIOUS
  <2>2. ASSUME LengthsFit("s235"), NEW j \in Int, 1 <= j, j < LEN_2D PROVE Inside(body[j][1])
    BY <1>1, <2>2, Numbers, CellsDeclared DEF LengthsFit, Long, Room, Inside, Touched, Set
  <2>3. 1 \in Int /\ LEN_2D \in Int
    BY Numbers
  <2> HIDE DEF body
  <2>4. LengthsFit("s235") => Lies(Loop(Up(1, LEN_2D), body))
    BY <2>1, <2>2, <2>3, OneLies
  <2>5. /\ Len(Loop(Up(1, LEN_2D), body)) \in Nat
        /\ \A n \in 1..Len(Loop(Up(1, LEN_2D), body)) : Len(Loop(Up(1, LEN_2D), body)[n]) \in Nat
    BY <2>1, <2>3, UpLoop
  <2> QED
    BY <2>4, <2>5 DEF body
<1>2. ASSUME LengthsFit("s235"), NEW i \in Int, 0 <= i, i < LEN_2D
      PROVE  Lies(one(i))
  <2>1. i < LEN_1D
    BY <1>2, Numbers DEF LengthsFit, Long, Room
  <2>2. Inside(Set(a(i), {a(i), b(i), c(i)}))
    BY <1>2, <2>1, CellsDeclared DEF Inside, Touched, Set
  <2> QED
    BY <2>2, Once
<1>3. \A i \in Int : Len(one(i)) \in Nat /\ \A n \in 1..Len(one(i)) : Len(one(i)[n]) \in Nat
  BY Once
<1>4. s235 = K2("s235", None, nest)
  BY DEF s235
<1> HIDE DEF column, one
<1>5. ASSUME NEW n \in 1..(2 * LEN_2D)
      PROVE  /\ Len(nest[n]) \in Nat /\ \A r \in 1..Len(nest[n]) : Len(nest[n][r]) \in Nat
             /\ LengthsFit("s235") => Lies(nest[n])
  <2> DEFINE i == (n - 1) \div 2
  <2>1. i \in Int /\ 0 <= i /\ i < LEN_2D
    BY Pairs, Numbers
  <2>2. nest[n] = column(i) \/ nest[n] = one(i)
    OBVIOUS
  <2> HIDE DEF i, nest
  <2> QED
    BY <1>1, <1>2, <1>3, <2>1, <2>2
<1>6. 2 * LEN_2D \in Nat /\ nest = [n \in 1..(2 * LEN_2D) |-> nest[n]]
  BY Numbers
<1> HIDE DEF nest
<1>7. Len(nest) = 2 * LEN_2D
  BY <1>6, TurnsOf
<1> QED
  BY <1>4, <1>5, <1>6, <1>7, OneLane

LEMMA s241Good == Good(s241)
<1> DEFINE body == [i \in Int |-> <<Set(a(i), {b(i), c(i), d(i)}),
                                 Set(t(i), {a(i + 1)}),
                                 Set(b(i), {a(i), t(i), d(i)})>>]
           at == <<2, 1, 3>>
<1>1. DOMAIN at = 1..3 /\ OrderIs(<<2, 1, 3>>, at, 3)
  BY DEF OrderIs
<1>2. \A i \in Int : Len(body[i]) = 3
  OBVIOUS
<1>3. ASSUME NEW i \in Int
      PROVE  /\ ~Conflict(body[i][1], body[i][2])
  BY CellIs DEF Conflict, Flow, Touched, Set
<1>4. ASSUME NEW i \in Int PROVE Ordered(at, body[i])
  <2> HIDE DEF body
  <2> QED
    BY <1>1, <1>3 DEF Ordered
<1>5. ASSUME NEW i \in Int, NEW j \in Int, 0 <= i, i < j, j < LEN_1D - 1
      PROVE  /\ ~Flow(body[i][1], body[j][1])
             /\ ~Flow(body[i][2], body[j][2])
             /\ ~Flow(body[i][3], body[j][3])
             /\ ~Conflict(body[i][1], body[j][2])
             /\ ~Conflict(body[i][3], body[j][1])
             /\ ~Conflict(body[i][3], body[j][2])
  BY CellIs, <1>5 DEF Conflict, Flow, Touched, Set
<1>6. ASSUME NEW i \in Int, NEW j \in Int, 0 <= i, i < j, j < LEN_1D - 1
      PROVE  Together(at, body[i], body[j])
  <2> HIDE DEF body
  <2> QED
    BY <1>1, <1>5, <1>6 DEF Together
<1>7. ASSUME LengthsFit("s241"), NEW i \in Int, 0 <= i, i < LEN_1D - 1
      PROVE  \A p \in 1..3 : Inside(body[i][p])
  <2>1. Inside(body[i][1]) /\ Inside(body[i][2]) /\ Inside(body[i][3])
    BY <1>2, <1>7, Numbers, CellsDeclared DEF LengthsFit, Long, Room, Inside, Touched, Set
  <2> QED
    BY <2>1
<1>8. s241 = Kernel("s241", AnyWidth, <<Loop(Up(0, LEN_1D - 1), body)>>, <<2, 1, 3>>, {}, FALSE)
  BY DEF s241, Reordered, body
<1>9. 0 \in Int /\ LEN_1D - 1 \in Int /\ AnyWidth \in Int
  BY Numbers DEF AnyWidth
<1> HIDE DEF at
<1> QED
  BY <1>1, <1>2, <1>4, <1>6, <1>7, <1>8, <1>9, OrderedUp

LEMMA s242Good == Good(s242)
<1> DEFINE body == [i \in Int |-> <<Set(a(i), {a(i - 1), b(i), c(i), d(i)})>>]
<1>1. \A i \in Int : Len(body[i]) = 1
  OBVIOUS
<1>2. ASSUME LengthsFit("s242"), NEW i \in Int, 1 <= i, i < LEN_1D
      PROVE  \A p \in 1..Len(body[i]) : Inside(body[i][p])
  <2>1. Inside(body[i][1])
    BY <1>2, Numbers, CellsDeclared DEF LengthsFit, Long, Room, Inside, Touched, Set
  <2> QED
    BY <1>1, <2>1
<1>3. s242 = K("s242", None, Loop(Up(1, LEN_1D), body))
  BY DEF s242
<1>4. 1 \in Int /\ LEN_1D \in Int
  BY Numbers
<1> HIDE DEF body
<1> QED
  BY <1>1, <1>2, <1>3, <1>4, OneLaneUp

LEMMA s243Good == Good(s243)
<1> DEFINE body == [i \in Int |-> <<Set(a(i), {b(i), c(i), d(i)}),
                                 Set(b(i), {a(i), d(i), e(i)}),
                                 Set(t(i), {a(i + 1)}),
                                 Set(a(i), {b(i), t(i), d(i)})>>]
           at == <<2, 3, 1, 4>>
<1>1. DOMAIN at = 1..4 /\ OrderIs(<<3, 1, 2, 4>>, at, 4)
  BY DEF OrderIs
<1>2. \A i \in Int : Len(body[i]) = 4
  OBVIOUS
<1>3. ASSUME NEW i \in Int
      PROVE  /\ ~Conflict(body[i][1], body[i][3])
             /\ ~Conflict(body[i][2], body[i][3])
  BY CellIs DEF Conflict, Flow, Touched, Set
<1>4. ASSUME NEW i \in Int PROVE Ordered(at, body[i])
  <2> HIDE DEF body
  <2> QED
    BY <1>1, <1>3 DEF Ordered
<1>5. ASSUME NEW i \in Int, NEW j \in Int, 0 <= i, i < j, j < LEN_1D - 1
      PROVE  /\ ~Flow(body[i][1], body[j][1])
             /\ ~Flow(body[i][2], body[j][2])
             /\ ~Flow(body[i][3], body[j][3])
             /\ ~Flow(body[i][4], body[j][4])
             /\ ~Conflict(body[i][1], body[j][3])
             /\ ~Conflict(body[i][2], body[j][1])
             /\ ~Conflict(body[i][2], body[j][3])
             /\ ~Conflict(body[i][4], body[j][1])
             /\ ~Conflict(body[i][4], body[j][2])
             /\ ~Conflict(body[i][4], body[j][3])
  <2>1. ~Flow(body[i][1], body[j][1]) /\ ~Flow(body[i][2], body[j][2]) /\ ~Flow(body[i][3], body[j][3])
    BY CellIs, <1>5 DEF Conflict, Flow, Touched, Set
  <2>2. ~Flow(body[i][4], body[j][4]) /\ ~Conflict(body[i][1], body[j][3]) /\ ~Conflict(body[i][2], body[j][1])
    BY CellIs, <1>5 DEF Conflict, Flow, Touched, Set
  <2>3. ~Conflict(body[i][2], body[j][3]) /\ ~Conflict(body[i][4], body[j][1]) /\ ~Conflict(body[i][4], body[j][2])
    BY CellIs, <1>5 DEF Conflict, Flow, Touched, Set
  <2>4. ~Conflict(body[i][4], body[j][3])
    BY CellIs, <1>5 DEF Conflict, Flow, Touched, Set
  <2> QED
    BY <2>1, <2>2, <2>3, <2>4
<1>6. ASSUME NEW i \in Int, NEW j \in Int, 0 <= i, i < j, j < LEN_1D - 1
      PROVE  Together(at, body[i], body[j])
  <2> HIDE DEF body
  <2> QED
    BY <1>1, <1>5, <1>6 DEF Together
<1>7. ASSUME LengthsFit("s243"), NEW i \in Int, 0 <= i, i < LEN_1D - 1
      PROVE  \A p \in 1..4 : Inside(body[i][p])
  <2>1. Inside(body[i][1]) /\ Inside(body[i][2]) /\ Inside(body[i][3]) /\ Inside(body[i][4])
    BY <1>2, <1>7, Numbers, CellsDeclared DEF LengthsFit, Long, Room, Inside, Touched, Set
  <2> QED
    BY <2>1
<1>8. s243 = Kernel("s243", AnyWidth, <<Loop(Up(0, LEN_1D - 1), body)>>, <<3, 1, 2, 4>>, {}, FALSE)
  BY DEF s243, Reordered, body
<1>9. 0 \in Int /\ LEN_1D - 1 \in Int /\ AnyWidth \in Int
  BY Numbers DEF AnyWidth
<1> HIDE DEF at
<1> QED
  BY <1>1, <1>2, <1>4, <1>6, <1>7, <1>8, <1>9, OrderedUp

LEMMA s244Good == Good(s244)
<1> DEFINE body == [i \in Int |-> <<Set(s(i), {b(i), c(i), d(i)}),
                                 Set(a(i), {s(i)}),
                                 Set(b(i), {c(i), b(i)}),
                                 Set(t(i), {a(i + 1)}),
                                 Set(a(i + 1), {b(i), t(i), d(i)})>>]
           at == <<1, 5, 3, 2, 4>>
<1>1. DOMAIN at = 1..5 /\ OrderIs(<<1, 4, 3, 5, 2>>, at, 5)
  BY DEF OrderIs
<1>2. \A i \in Int : Len(body[i]) = 5
  OBVIOUS
<1>3. ASSUME NEW i \in Int
      PROVE  /\ ~Conflict(body[i][2], body[i][3])
             /\ ~Conflict(body[i][2], body[i][4])
             /\ ~Conflict(body[i][2], body[i][5])
             /\ ~Conflict(body[i][3], body[i][4])
  BY CellIs DEF Conflict, Flow, Touched, Set
<1>4. ASSUME NEW i \in Int PROVE Ordered(at, body[i])
  <2> HIDE DEF body
  <2> QED
    BY <1>1, <1>3 DEF Ordered
<1>5. ASSUME NEW i \in Int, NEW j \in Int, 0 <= i, i < j, j < LEN_1D - 1
      PROVE  /\ ~Flow(body[i][1], body[j][1])
             /\ ~Flow(body[i][2], body[j][2])
             /\ ~Flow(body[i][3], body[j][3])
             /\ ~Flow(body[i][4], body[j][4])
             /\ ~Flow(body[i][5], body[j][5])
             /\ ~Conflict(body[i][2], body[j][1])
             /\ ~Conflict(body[i][2], body[j][3])
             /\ ~Conflict(body[i][2], body[j][4])
             /\ ~Conflict(body[i][2], body[j][5])
             /\ ~Conflict(body[i][3], body[j][1])
             /\ ~Conflict(body[i][3], body[j][4])
             /\ ~Conflict(body[i][4], body[j][1])
             /\ ~Conflict(body[i][5], body[j][1])
             /\ ~Conflict(body[i][5], body[j][3])
             /\ ~Conflict(body[i][5], body[j][4])
  <2>1. ~Flow(body[i][1], body[j][1]) /\ ~Flow(body[i][2], body[j][2]) /\ ~Flow(body[i][3], body[j][3])
    BY CellIs, <1>5 DEF Conflict, Flow, Touched, Set
  <2>2. ~Flow(body[i][4], body[j][4]) /\ ~Flow(body[i][5], body[j][5]) /\ ~Conflict(body[i][2], body[j][1])
    BY CellIs, <1>5 DEF Conflict, Flow, Touched, Set
  <2>3. ~Conflict(body[i][2], body[j][3]) /\ ~Conflict(body[i][2], body[j][4]) /\ ~Conflict(body[i][2], body[j][5])
    BY CellIs, <1>5 DEF Conflict, Flow, Touched, Set
  <2>4. ~Conflict(body[i][3], body[j][1]) /\ ~Conflict(body[i][3], body[j][4]) /\ ~Conflict(body[i][4], body[j][1])
    BY CellIs, <1>5 DEF Conflict, Flow, Touched, Set
  <2>5. ~Conflict(body[i][5], body[j][1]) /\ ~Conflict(body[i][5], body[j][3]) /\ ~Conflict(body[i][5], body[j][4])
    BY CellIs, <1>5 DEF Conflict, Flow, Touched, Set
  <2> QED
    BY <2>1, <2>2, <2>3, <2>4, <2>5
<1>6. ASSUME NEW i \in Int, NEW j \in Int, 0 <= i, i < j, j < LEN_1D - 1
      PROVE  Together(at, body[i], body[j])
  <2> HIDE DEF body
  <2> QED
    BY <1>1, <1>5, <1>6 DEF Together
<1>7. ASSUME LengthsFit("s244"), NEW i \in Int, 0 <= i, i < LEN_1D - 1
      PROVE  \A p \in 1..5 : Inside(body[i][p])
  <2>1. Inside(body[i][1]) /\ Inside(body[i][2]) /\ Inside(body[i][3]) /\ Inside(body[i][4]) /\ Inside(body[i][5])
    BY <1>2, <1>7, Numbers, CellsDeclared DEF LengthsFit, Long, Room, Inside, Touched, Set
  <2> QED
    BY <2>1
<1>8. s244 = Kernel("s244", AnyWidth, <<Loop(Up(0, LEN_1D - 1), body)>>, <<1, 4, 3, 5, 2>>, {}, FALSE)
  BY DEF s244, Reordered, body
<1>9. 0 \in Int /\ LEN_1D - 1 \in Int /\ AnyWidth \in Int
  BY Numbers DEF AnyWidth
<1> HIDE DEF at
<1> QED
  BY <1>1, <1>2, <1>4, <1>6, <1>7, <1>8, <1>9, OrderedUp

LEMMA s251Good == Good(s251)
<1> DEFINE body == [i \in Int |-> <<Set(s(i), {b(i), c(i), d(i)}), Set(a(i), {s(i)})>>]
<1>1. \A i \in Int : body[i] \in Seq(Elements(i))
  BY DEF Set, Elements, Own
<1>2. s251 = K("s251", AnyWidth, Loop(Up(0, LEN_1D), body))
  BY DEF s251
<1>3. LEN_1D \in Int /\ LEN_1D <= LEN_1D
  BY Numbers
<1> HIDE DEF body
<1> QED
  BY <1>1, <1>2, <1>3, OwnElements

LEMMA s252Good == Good(s252)
<1> DEFINE body == [i \in Int |-> <<Set(s(i), {b(i), c(i)}),
                                 Set(a(i), {s(i), t(i - 1)}),
                                 Set(t(i), {s(i)})>>]
           at == <<1, 3, 2>>
<1>1. DOMAIN at = 1..3 /\ OrderIs(<<1, 3, 2>>, at, 3)
  BY DEF OrderIs
<1>2. \A i \in Int : Len(body[i]) = 3
  OBVIOUS
<1>3. ASSUME NEW i \in Int
      PROVE  /\ ~Conflict(body[i][2], body[i][3])
  BY CellIs DEF Conflict, Flow, Touched, Set
<1>4. ASSUME NEW i \in Int PROVE Ordered(at, body[i])
  <2> HIDE DEF body
  <2> QED
    BY <1>1, <1>3 DEF Ordered
<1>5. ASSUME NEW i \in Int, NEW j \in Int, 0 <= i, i < j, j < LEN_1D
      PROVE  /\ ~Flow(body[i][1], body[j][1])
             /\ ~Flow(body[i][2], body[j][2])
             /\ ~Flow(body[i][3], body[j][3])
             /\ ~Conflict(body[i][2], body[j][1])
             /\ ~Conflict(body[i][2], body[j][3])
             /\ ~Conflict(body[i][3], body[j][1])
  BY CellIs, <1>5 DEF Conflict, Flow, Touched, Set
<1>6. ASSUME NEW i \in Int, NEW j \in Int, 0 <= i, i < j, j < LEN_1D
      PROVE  Together(at, body[i], body[j])
  <2> HIDE DEF body
  <2> QED
    BY <1>1, <1>5, <1>6 DEF Together
<1>7. ASSUME LengthsFit("s252"), NEW i \in Int, 0 <= i, i < LEN_1D
      PROVE  \A p \in 1..3 : Inside(body[i][p])
  <2>1. Inside(body[i][1]) /\ Inside(body[i][2]) /\ Inside(body[i][3])
    BY <1>2, <1>7, Numbers, CellsDeclared DEF LengthsFit, Long, Room, Inside, Touched, Set
  <2> QED
    BY <2>1
<1>8. s252 = Kernel("s252", AnyWidth, <<Loop(Up(0, LEN_1D), body)>>, <<1, 3, 2>>, {}, FALSE)
  BY DEF s252, Reordered, body
<1>9. 0 \in Int /\ LEN_1D \in Int /\ AnyWidth \in Int
  BY Numbers DEF AnyWidth
<1> HIDE DEF at
<1> QED
  BY <1>1, <1>2, <1>4, <1>6, <1>7, <1>8, <1>9, OrderedUp

LEMMA s253Good == ASSUME NEW m PROVE Good(s253(m))
<1> DEFINE body == [i \in Int |-> <<Test({a(i), b(i)})>>
                             \o If(m[i], <<Set(s(i), {a(i), b(i), d(i)}), Set(c(i), {c(i), s(i)}), Set(a(i), {s(i)})>>)]
<1>1. ASSUME NEW i \in Int PROVE body[i] \in Seq(Elements(i))
  <2>1. <<Test({a(i), b(i)})>> \in Seq(Elements(i))
    BY DEF Test, Elements, Own
  <2>2. <<Set(s(i), {a(i), b(i), d(i)}), Set(c(i), {c(i), s(i)}), Set(a(i), {s(i)})>> \in Seq(Elements(i))
    BY DEF Set, Elements, Own
  <2>3. If(m[i], <<Set(s(i), {a(i), b(i), d(i)}), Set(c(i), {c(i), s(i)}), Set(a(i), {s(i)})>>) \in Seq(Elements(i))
    BY <2>2, IfIs
  <2> QED
    BY <2>1, <2>3
<1>2. s253(m) = K("s253", AnyWidth, Loop(Up(0, LEN_1D), body))
  BY DEF s253
<1>3. LEN_1D \in Int /\ LEN_1D <= LEN_1D
  BY Numbers
<1> HIDE DEF body
<1> QED
  BY <1>1, <1>2, <1>3, OwnElements

LEMMA s254Good == Good(s254)
<1> DEFINE body == [i \in Int |-> <<Set(a(i), {b(i), s(i - 1)}),
                                 Set(s(i), {b(i)})>>]
           at == <<2, 1>>
<1>1. DOMAIN at = 1..2 /\ OrderIs(<<2, 1>>, at, 2)
  BY DEF OrderIs
<1>2. \A i \in Int : Len(body[i]) = 2
  OBVIOUS
<1>3. ASSUME NEW i \in Int
      PROVE  /\ ~Conflict(body[i][1], body[i][2])
  BY CellIs DEF Conflict, Flow, Touched, Set
<1>4. ASSUME NEW i \in Int PROVE Ordered(at, body[i])
  <2> HIDE DEF body
  <2> QED
    BY <1>1, <1>3 DEF Ordered
<1>5. ASSUME NEW i \in Int, NEW j \in Int, 0 <= i, i < j, j < LEN_1D
      PROVE  /\ ~Flow(body[i][1], body[j][1])
             /\ ~Flow(body[i][2], body[j][2])
             /\ ~Conflict(body[i][1], body[j][2])
  BY CellIs, <1>5 DEF Conflict, Flow, Touched, Set
<1>6. ASSUME NEW i \in Int, NEW j \in Int, 0 <= i, i < j, j < LEN_1D
      PROVE  Together(at, body[i], body[j])
  <2> HIDE DEF body
  <2> QED
    BY <1>1, <1>5, <1>6 DEF Together
<1>7. ASSUME LengthsFit("s254"), NEW i \in Int, 0 <= i, i < LEN_1D
      PROVE  \A p \in 1..2 : Inside(body[i][p])
  <2>1. Inside(body[i][1]) /\ Inside(body[i][2])
    BY <1>2, <1>7, Numbers, CellsDeclared DEF LengthsFit, Long, Room, Inside, Touched, Set
  <2> QED
    BY <2>1
<1>8. s254 = Kernel("s254", AnyWidth, <<Loop(Up(0, LEN_1D), body)>>, <<2, 1>>, {}, FALSE)
  BY DEF s254, Reordered, body
<1>9. 0 \in Int /\ LEN_1D \in Int /\ AnyWidth \in Int
  BY Numbers DEF AnyWidth
<1> HIDE DEF at
<1> QED
  BY <1>1, <1>2, <1>4, <1>6, <1>7, <1>8, <1>9, OrderedUp

LEMMA s255Good == Good(s255)
<1> DEFINE body == [i \in Int |-> <<Set(a(i), {b(i), s(i - 1), t(i - 1)}),
                                 Set(t(i), {s(i - 1)}),
                                 Set(s(i), {b(i)})>>]
           at == <<3, 2, 1>>
<1>1. DOMAIN at = 1..3 /\ OrderIs(<<3, 2, 1>>, at, 3)
  BY DEF OrderIs
<1>2. \A i \in Int : Len(body[i]) = 3
  OBVIOUS
<1>3. ASSUME NEW i \in Int
      PROVE  /\ ~Conflict(body[i][1], body[i][2])
             /\ ~Conflict(body[i][1], body[i][3])
             /\ ~Conflict(body[i][2], body[i][3])
  BY CellIs DEF Conflict, Flow, Touched, Set
<1>4. ASSUME NEW i \in Int PROVE Ordered(at, body[i])
  <2> HIDE DEF body
  <2> QED
    BY <1>1, <1>3 DEF Ordered
<1>5. ASSUME NEW i \in Int, NEW j \in Int, 0 <= i, i < j, j < LEN_1D
      PROVE  /\ ~Flow(body[i][1], body[j][1])
             /\ ~Flow(body[i][2], body[j][2])
             /\ ~Flow(body[i][3], body[j][3])
             /\ ~Conflict(body[i][1], body[j][2])
             /\ ~Conflict(body[i][1], body[j][3])
             /\ ~Conflict(body[i][2], body[j][3])
  BY CellIs, <1>5 DEF Conflict, Flow, Touched, Set
<1>6. ASSUME NEW i \in Int, NEW j \in Int, 0 <= i, i < j, j < LEN_1D
      PROVE  Together(at, body[i], body[j])
  <2> HIDE DEF body
  <2> QED
    BY <1>1, <1>5, <1>6 DEF Together
<1>7. ASSUME LengthsFit("s255"), NEW i \in Int, 0 <= i, i < LEN_1D
      PROVE  \A p \in 1..3 : Inside(body[i][p])
  <2>1. Inside(body[i][1]) /\ Inside(body[i][2]) /\ Inside(body[i][3])
    BY <1>2, <1>7, Numbers, CellsDeclared DEF LengthsFit, Long, Room, Inside, Touched, Set
  <2> QED
    BY <2>1
<1>8. s255 = Kernel("s255", AnyWidth, <<Loop(Up(0, LEN_1D), body)>>, <<3, 2, 1>>, {}, FALSE)
  BY DEF s255, Reordered, body
<1>9. 0 \in Int /\ LEN_1D \in Int /\ AnyWidth \in Int
  BY Numbers DEF AnyWidth
<1> HIDE DEF at
<1> QED
  BY <1>1, <1>2, <1>4, <1>6, <1>7, <1>8, <1>9, OrderedUp

LEMMA s256Good == Good(s256)
<1> DEFINE rows == [i \in Int |-> Loop(Up(1, LEN_2D), [j \in Int |-> <<Set(a(j), {a(j - 1)}), Set(aa(j, i), {a(j), bb(j, i), d(j)})>>])]
<1>1. ASSUME NEW i \in Int, 0 <= i, i < LEN_2D
      PROVE  /\ Len(rows[i]) \in Nat /\ \A n \in 1..Len(rows[i]) : Len(rows[i][n]) \in Nat
             /\ LengthsFit("s256") => Lies(rows[i])
  <2> DEFINE body == [j \in Int |-> <<Set(a(j), {a(j - 1)}), Set(aa(j, i), {a(j), bb(j, i), d(j)})>>]
  <2>1. \A j \in Int : Len(body[j]) = 2
    OBVIOUS
  <2>2. ASSUME LengthsFit("s256"), NEW j \in Int, 1 <= j, j < LEN_2D
        PROVE  \A p \in 1..Len(body[j]) : Inside(body[j][p])
    <3>1. Inside(body[j][1]) /\ Inside(body[j][2])
      BY <1>1, <2>2, Numbers, CellsDeclared DEF LengthsFit, Long, Room, Inside, Touched, Set
    <3> QED
      BY <2>1, <3>1
  <2>3. 1 \in Int /\ LEN_2D \in Int
    BY <1>1, Numbers
  <2>4. rows[i] = Loop(Up(1, LEN_2D), body)
    BY <1>1
  <2> HIDE DEF body, rows
  <2>5. LengthsFit("s256") => Lies(rows[i])
    BY <2>1, <2>2, <2>3, <2>4, UpLies
  <2> QED
    BY <2>1, <2>3, <2>4, <2>5, UpLoop
<1>2. s256 = K2("s256", None, Loop(Up(0, LEN_2D), rows))
  BY DEF s256
<1>3. 0 \in Int /\ LEN_2D \in Int
  BY Numbers
<1> HIDE DEF rows
<1> QED
  BY <1>1, <1>2, <1>3, OneLaneNest

LEMMA s257Good == Good(s257)
<1> DEFINE rows == [i \in Int |-> Loop(Up(0, LEN_2D), [j \in Int |-> <<Set(s(j), {aa(j, i), a(i - 1)}), Set(a(i), {s(j)}), Set(aa(j, i), {s(j), bb(j, i)})>>])]
<1>1. ASSUME NEW i \in Int, 1 <= i, i < LEN_2D
      PROVE  SideBySide(rows[i]) /\ (LengthsFit("s257") => Lies(rows[i]))
  <2> DEFINE body == [j \in Int |-> <<Set(s(j), {aa(j, i), a(i - 1)}), Set(a(i), {s(j)}), Set(aa(j, i), {s(j), bb(j, i)})>>]
  <2>1. \A j \in Int : Len(body[j]) = 3
    OBVIOUS
  <2>2. ASSUME NEW j \in Int, NEW k \in Int, 0 <= j, j < k, k < LEN_2D
        PROVE  Side(body[j], body[k])
    <3>1. /\ ~Flow(body[j][1], body[k][1])
          /\ ~Flow(body[j][2], body[k][2])
          /\ ~Flow(body[j][3], body[k][3])
          /\ ~Conflict(body[j][2], body[k][1])
          /\ ~Conflict(body[j][3], body[k][1])
          /\ ~Conflict(body[j][3], body[k][2])
      BY <1>1, <2>2, CellIs DEF Conflict, Flow, Touched, Set
    <3> HIDE DEF body
    <3> QED
      BY <2>1, <3>1 DEF Side
  <2>3. ASSUME LengthsFit("s257"), NEW j \in Int, 0 <= j, j < LEN_2D
        PROVE  \A p \in 1..Len(body[j]) : Inside(body[j][p])
    <3>1. Inside(body[j][1]) /\ Inside(body[j][2]) /\ Inside(body[j][3])
      BY <1>1, <2>3, Numbers, CellsDeclared DEF LengthsFit, Long, Room, Inside, Touched, Set
    <3> QED
      BY <2>1, <3>1
  <2>4. 0 \in Int /\ LEN_2D \in Int
    BY <1>1, Numbers
  <2>5. rows[i] = Loop(Up(0, LEN_2D), body)
    BY <1>1
  <2> HIDE DEF body, rows
  <2>8. \A j \in Int : Len(body[j]) \in Nat
    BY <2>1
  <2>9. SideBySide(Loop(Up(0, LEN_2D), body))
    BY <2>2, <2>4, <2>8, UpSideBySide
  <2>6. SideBySide(rows[i])
    BY <2>5, <2>9
  <2>7. LengthsFit("s257") => Lies(rows[i])
    BY <2>1, <2>2, <2>3, <2>4, <2>5, UpLies
  <2> QED
    BY <2>6, <2>7
<1>2. s257 = K2("s257", AnyWidth, Loop(Up(1, LEN_2D), rows))
  BY DEF s257
<1>3. 1 \in Int /\ LEN_2D \in Int
  BY Numbers
<1> HIDE DEF rows
<1> QED
  BY <1>1, <1>2, <1>3, UpNest

LEMMA s258Good == ASSUME NEW m PROVE Good(s258(m))
<1> DEFINE body == [i \in Int |-> <<Test({a(i)}),
                                 Set(s(i), IF m[i] THEN {d(i)} ELSE {s(i - 1)}),
                                 Set(b(i), {s(i), c(i), d(i)}),
                                 Set(e(i), {s(i), aa(0, i)})>>]
<1>1. \A i \in Int : Len(body[i]) = 4
  OBVIOUS
<1>2. ASSUME LengthsFit("s258"), NEW i \in Int, 0 <= i, i < LEN_2D
      PROVE  \A p \in 1..Len(body[i]) : Inside(body[i][p])
  <2>1. Inside(body[i][1]) /\ Inside(body[i][2]) /\ Inside(body[i][3]) /\ Inside(body[i][4])
    BY <1>2, Numbers, CellsDeclared DEF LengthsFit, Long, Room, Inside, Touched, Set, Test
  <2> QED
    BY <1>1, <2>1
<1>3. s258(m) = K("s258", Sometimes, Loop(Up(0, LEN_2D), body))
  BY DEF s258
<1>4. 0 \in Int /\ LEN_2D \in Int
  BY Numbers
<1> HIDE DEF body
<1> QED
  BY <1>1, <1>2, <1>3, <1>4, OneLaneUp

LEMMA s261Good == Good(s261)
<1> DEFINE body == [i \in Int |-> <<Set(s(i), {a(i), b(i)}),
                                 Set(a(i), {s(i), c(i - 1)}),
                                 Set(t(i), {c(i), d(i)}),
                                 Set(c(i), {t(i)})>>]
           at == <<1, 4, 2, 3>>
<1>1. DOMAIN at = 1..4 /\ OrderIs(<<1, 3, 4, 2>>, at, 4)
  BY DEF OrderIs
<1>2. \A i \in Int : Len(body[i]) = 4
  OBVIOUS
<1>3. ASSUME NEW i \in Int
      PROVE  /\ ~Conflict(body[i][2], body[i][3])
             /\ ~Conflict(body[i][2], body[i][4])
  BY CellIs DEF Conflict, Flow, Touched, Set
<1>4. ASSUME NEW i \in Int PROVE Ordered(at, body[i])
  <2> HIDE DEF body
  <2> QED
    BY <1>1, <1>3 DEF Ordered
<1>5. ASSUME NEW i \in Int, NEW j \in Int, 1 <= i, i < j, j < LEN_1D
      PROVE  /\ ~Flow(body[i][1], body[j][1])
             /\ ~Flow(body[i][2], body[j][2])
             /\ ~Flow(body[i][3], body[j][3])
             /\ ~Flow(body[i][4], body[j][4])
             /\ ~Conflict(body[i][2], body[j][1])
             /\ ~Conflict(body[i][2], body[j][3])
             /\ ~Conflict(body[i][2], body[j][4])
             /\ ~Conflict(body[i][3], body[j][1])
             /\ ~Conflict(body[i][4], body[j][1])
             /\ ~Conflict(body[i][4], body[j][3])
  <2>1. ~Flow(body[i][1], body[j][1]) /\ ~Flow(body[i][2], body[j][2]) /\ ~Flow(body[i][3], body[j][3])
    BY CellIs, <1>5 DEF Conflict, Flow, Touched, Set
  <2>2. ~Flow(body[i][4], body[j][4]) /\ ~Conflict(body[i][2], body[j][1]) /\ ~Conflict(body[i][2], body[j][3])
    BY CellIs, <1>5 DEF Conflict, Flow, Touched, Set
  <2>3. ~Conflict(body[i][2], body[j][4]) /\ ~Conflict(body[i][3], body[j][1]) /\ ~Conflict(body[i][4], body[j][1])
    BY CellIs, <1>5 DEF Conflict, Flow, Touched, Set
  <2>4. ~Conflict(body[i][4], body[j][3])
    BY CellIs, <1>5 DEF Conflict, Flow, Touched, Set
  <2> QED
    BY <2>1, <2>2, <2>3, <2>4
<1>6. ASSUME NEW i \in Int, NEW j \in Int, 1 <= i, i < j, j < LEN_1D
      PROVE  Together(at, body[i], body[j])
  <2> HIDE DEF body
  <2> QED
    BY <1>1, <1>5, <1>6 DEF Together
<1>7. ASSUME LengthsFit("s261"), NEW i \in Int, 1 <= i, i < LEN_1D
      PROVE  \A p \in 1..4 : Inside(body[i][p])
  <2>1. Inside(body[i][1]) /\ Inside(body[i][2]) /\ Inside(body[i][3]) /\ Inside(body[i][4])
    BY <1>2, <1>7, Numbers, CellsDeclared DEF LengthsFit, Long, Room, Inside, Touched, Set
  <2> QED
    BY <2>1
<1>8. s261 = Kernel("s261", AnyWidth, <<Loop(Up(1, LEN_1D), body)>>, <<1, 3, 4, 2>>, {}, FALSE)
  BY DEF s261, Reordered, body
<1>9. 1 \in Int /\ LEN_1D \in Int /\ AnyWidth \in Int
  BY Numbers DEF AnyWidth
<1> HIDE DEF at
<1> QED
  BY <1>1, <1>2, <1>4, <1>6, <1>7, <1>8, <1>9, OrderedUp

LEMMA s3251Good == Good(s3251)
<1> DEFINE body == [i \in Int |-> <<Set(a(i + 1), {b(i), c(i)}),
                                 Set(b(i), {c(i), e(i)}),
                                 Set(d(i), {a(i), e(i)})>>]
           at == Straight(3)
<1>1. DOMAIN at = 1..3 /\ OrderIs(<<>>, at, 3)
  BY DEF OrderIs, Straight
<1>2. \A i \in Int : Len(body[i]) = 3
  OBVIOUS
<1>4. ASSUME NEW i \in Int PROVE Ordered(at, body[i])
  BY <1>1 DEF Ordered, Straight
<1>5. ASSUME NEW i \in Int, NEW j \in Int, 0 <= i, i < j, j < LEN_1D - 1
      PROVE  /\ ~Flow(body[i][1], body[j][1])
             /\ ~Flow(body[i][2], body[j][2])
             /\ ~Flow(body[i][3], body[j][3])
             /\ ~Conflict(body[i][2], body[j][1])
             /\ ~Conflict(body[i][3], body[j][1])
             /\ ~Conflict(body[i][3], body[j][2])
  BY CellIs, <1>5 DEF Conflict, Flow, Touched, Set
<1>6. ASSUME NEW i \in Int, NEW j \in Int, 0 <= i, i < j, j < LEN_1D - 1
      PROVE  Together(at, body[i], body[j])
  <2> HIDE DEF body
  <2> QED
    BY <1>1, <1>5, <1>6 DEF Together, Straight
<1>7. ASSUME LengthsFit("s3251"), NEW i \in Int, 0 <= i, i < LEN_1D - 1
      PROVE  \A p \in 1..3 : Inside(body[i][p])
  <2>1. Inside(body[i][1]) /\ Inside(body[i][2]) /\ Inside(body[i][3])
    BY <1>2, <1>7, Numbers, CellsDeclared DEF LengthsFit, Long, Room, Inside, Touched, Set
  <2> QED
    BY <2>1
<1>8. s3251 = Kernel("s3251", AnyWidth, <<Loop(Up(0, LEN_1D - 1), body)>>, <<>>, {}, FALSE)
  BY DEF s3251, K, K2, body
<1>9. 0 \in Int /\ LEN_1D - 1 \in Int /\ AnyWidth \in Int
  BY Numbers DEF AnyWidth
<1> HIDE DEF at
<1> QED
  BY <1>1, <1>2, <1>4, <1>6, <1>7, <1>8, <1>9, OrderedUp

LEMMA TransformGood == \A k \in Transform : Good(k)
BY s2102Good, s211Good, s2111Good, s212Good, s1213Good, s221Good, s222Good, s2233Good, s2244Good,
   s1244Good, s2251Good, s1251Good, s2275Good, s231Good, s232Good, s1232Good, s233Good, s235Good,
   s241Good, s242Good, s243Good, s244Good, s251Good, s252Good, s254Good, s255Good, s256Good,
   s257Good, s261Good, s3251Good
   DEF Transform

LEMMA TransformIfGood == ASSUME NEW m PROVE \A k \in TransformIf(m) : Good(k)
BY s253Good, s258Good
   DEF TransformIf

-----------------------------------------------------------------------------
(* The kernels of TsvcControl. *)

LEMMA s1279Good == ASSUME NEW m PROVE Good(s1279(m))
<1> DEFINE body == [i \in Int |-> <<Test({a(i), b(i)})>> \o If(m[i], <<Set(c(i), {c(i), d(i), e(i)})>>)]
<1>1. ASSUME NEW i \in Int PROVE body[i] \in Seq(Elements(i))
  <2>1. <<Test({a(i), b(i)})>> \in Seq(Elements(i))
    BY DEF Test, Elements, Own
  <2>2. <<Set(c(i), {c(i), d(i), e(i)})>> \in Seq(Elements(i))
    BY DEF Set, Elements, Own
  <2>3. If(m[i], <<Set(c(i), {c(i), d(i), e(i)})>>) \in Seq(Elements(i))
    BY <2>2, IfIs
  <2> QED
    BY <2>1, <2>3
<1>2. s1279(m) = K("s1279", AnyWidth, Loop(Up(0, LEN_1D), body))
  BY DEF s1279
<1>3. LEN_1D \in Int /\ LEN_1D <= LEN_1D
  BY Numbers
<1> HIDE DEF body
<1> QED
  BY <1>1, <1>2, <1>3, OwnElements

LEMMA s1281Good == Good(s1281)
<1> DEFINE body == [i \in Int |-> <<Set(s(i), {b(i), c(i), a(i), d(i), e(i)}), Set(a(i), {s(i)}), Set(b(i), {s(i)})>>]
<1>1. \A i \in Int : body[i] \in Seq(Elements(i))
  BY DEF Set, Elements, Own
<1>2. s1281 = K("s1281", AnyWidth, Loop(Up(0, LEN_1D), body))
  BY DEF s1281
<1>3. LEN_1D \in Int /\ LEN_1D <= LEN_1D
  BY Numbers
<1> HIDE DEF body
<1> QED
  BY <1>1, <1>2, <1>3, OwnElements

LEMMA s271Good == ASSUME NEW m PROVE Good(s271(m))
<1> DEFINE body == [i \in Int |-> <<Test({b(i)})>> \o If(m[i], <<Set(a(i), {a(i), b(i), c(i)})>>)]
<1>1. ASSUME NEW i \in Int PROVE body[i] \in Seq(Elements(i))
  <2>1. <<Test({b(i)})>> \in Seq(Elements(i))
    BY DEF Test, Elements, Own
  <2>2. <<Set(a(i), {a(i), b(i), c(i)})>> \in Seq(Elements(i))
    BY DEF Set, Elements, Own
  <2>3. If(m[i], <<Set(a(i), {a(i), b(i), c(i)})>>) \in Seq(Elements(i))
    BY <2>2, IfIs
  <2> QED
    BY <2>1, <2>3
<1>2. s271(m) = K("s271", AnyWidth, Loop(Up(0, LEN_1D), body))
  BY DEF s271
<1>3. LEN_1D \in Int /\ LEN_1D <= LEN_1D
  BY Numbers
<1> HIDE DEF body
<1> QED
  BY <1>1, <1>2, <1>3, OwnElements

LEMMA s2710Good == ASSUME NEW m PROVE Good(s2710(m))
<1> DEFINE body == [i \in Int |-> <<Test({a(i), b(i)})>>
                             \o If(m[i], <<Set(a(i), {a(i), b(i), d(i)}), Set(c(i), IF LEN_1D > 10 THEN {c(i), d(i)} ELSE {d(i), e(i)})>>)
                             \o If(~m[i], <<Set(b(i), {a(i), e(i)}), Set(c(i), {a(i), d(i)})>>)]
<1>1. ASSUME NEW i \in Int PROVE body[i] \in Seq(Elements(i))
  <2>1. <<Test({a(i), b(i)})>> \in Seq(Elements(i))
    BY DEF Test, Elements, Own
  <2>2. <<Set(a(i), {a(i), b(i), d(i)}), Set(c(i), IF LEN_1D > 10 THEN {c(i), d(i)} ELSE {d(i), e(i)})>> \in Seq(Elements(i))
    BY DEF Set, Elements, Own
  <2>3. If(m[i], <<Set(a(i), {a(i), b(i), d(i)}), Set(c(i), IF LEN_1D > 10 THEN {c(i), d(i)} ELSE {d(i), e(i)})>>) \in Seq(Elements(i))
    BY <2>2, IfIs
  <2>4. <<Set(b(i), {a(i), e(i)}), Set(c(i), {a(i), d(i)})>> \in Seq(Elements(i))
    BY DEF Set, Elements, Own
  <2>5. If(~m[i], <<Set(b(i), {a(i), e(i)}), Set(c(i), {a(i), d(i)})>>) \in Seq(Elements(i))
    BY <2>4, IfIs
  <2> QED
    BY <2>1, <2>3, <2>5
<1>2. s2710(m) = K("s2710", AnyWidth, Loop(Up(0, LEN_1D), body))
  BY DEF s2710
<1>3. LEN_1D \in Int /\ LEN_1D <= LEN_1D
  BY Numbers
<1> HIDE DEF body
<1> QED
  BY <1>1, <1>2, <1>3, OwnElements

LEMMA s2711Good == ASSUME NEW m PROVE Good(s2711(m))
<1> DEFINE body == [i \in Int |-> <<Test({b(i)})>> \o If(m[i], <<Set(a(i), {a(i), b(i), c(i)})>>)]
<1>1. ASSUME NEW i \in Int PROVE body[i] \in Seq(Elements(i))
  <2>1. <<Test({b(i)})>> \in Seq(Elements(i))
    BY DEF Test, Elements, Own
  <2>2. <<Set(a(i), {a(i), b(i), c(i)})>> \in Seq(Elements(i))
    BY DEF Set, Elements, Own
  <2>3. If(m[i], <<Set(a(i), {a(i), b(i), c(i)})>>) \in Seq(Elements(i))
    BY <2>2, IfIs
  <2> QED
    BY <2>1, <2>3
<1>2. s2711(m) = K("s2711", AnyWidth, Loop(Up(0, LEN_1D), body))
  BY DEF s2711
<1>3. LEN_1D \in Int /\ LEN_1D <= LEN_1D
  BY Numbers
<1> HIDE DEF body
<1> QED
  BY <1>1, <1>2, <1>3, OwnElements

LEMMA s2712Good == ASSUME NEW m PROVE Good(s2712(m))
<1> DEFINE body == [i \in Int |-> <<Test({a(i), b(i)})>> \o If(m[i], <<Set(a(i), {a(i), b(i), c(i)})>>)]
<1>1. ASSUME NEW i \in Int PROVE body[i] \in Seq(Elements(i))
  <2>1. <<Test({a(i), b(i)})>> \in Seq(Elements(i))
    BY DEF Test, Elements, Own
  <2>2. <<Set(a(i), {a(i), b(i), c(i)})>> \in Seq(Elements(i))
    BY DEF Set, Elements, Own
  <2>3. If(m[i], <<Set(a(i), {a(i), b(i), c(i)})>>) \in Seq(Elements(i))
    BY <2>2, IfIs
  <2> QED
    BY <2>1, <2>3
<1>2. s2712(m) = K("s2712", AnyWidth, Loop(Up(0, LEN_1D), body))
  BY DEF s2712
<1>3. LEN_1D \in Int /\ LEN_1D <= LEN_1D
  BY Numbers
<1> HIDE DEF body
<1> QED
  BY <1>1, <1>2, <1>3, OwnElements

LEMMA s272Good == ASSUME NEW m PROVE Good(s272(m))
<1> DEFINE body == [i \in Int |-> <<Test({e(i)})>>
                             \o If(m[i], <<Set(a(i), {a(i), c(i), d(i)}), Set(b(i), {b(i), c(i)})>>)]
<1>1. ASSUME NEW i \in Int PROVE body[i] \in Seq(Elements(i))
  <2>1. <<Test({e(i)})>> \in Seq(Elements(i))
    BY DEF Test, Elements, Own
  <2>2. <<Set(a(i), {a(i), c(i), d(i)}), Set(b(i), {b(i), c(i)})>> \in Seq(Elements(i))
    BY DEF Set, Elements, Own
  <2>3. If(m[i], <<Set(a(i), {a(i), c(i), d(i)}), Set(b(i), {b(i), c(i)})>>) \in Seq(Elements(i))
    BY <2>2, IfIs
  <2> QED
    BY <2>1, <2>3
<1>2. s272(m) = K("s272", AnyWidth, Loop(Up(0, LEN_1D), body))
  BY DEF s272
<1>3. LEN_1D \in Int /\ LEN_1D <= LEN_1D
  BY Numbers
<1> HIDE DEF body
<1> QED
  BY <1>1, <1>2, <1>3, OwnElements

LEMMA s273Good == ASSUME NEW m PROVE Good(s273(m))
<1> DEFINE body == [i \in Int |-> <<Set(a(i), {a(i), d(i), e(i)}), Test({a(i)})>>
                             \o If(m[i], <<Set(b(i), {b(i), d(i), e(i)})>>)
                             \o <<Set(c(i), {c(i), a(i), d(i)})>>]
<1>1. ASSUME NEW i \in Int PROVE body[i] \in Seq(Elements(i))
  <2>1. <<Set(a(i), {a(i), d(i), e(i)}), Test({a(i)})>> \in Seq(Elements(i))
    BY DEF Set, Test, Elements, Own
  <2>2. <<Set(b(i), {b(i), d(i), e(i)})>> \in Seq(Elements(i))
    BY DEF Set, Elements, Own
  <2>3. If(m[i], <<Set(b(i), {b(i), d(i), e(i)})>>) \in Seq(Elements(i))
    BY <2>2, IfIs
  <2>4. <<Set(c(i), {c(i), a(i), d(i)})>> \in Seq(Elements(i))
    BY DEF Set, Elements, Own
  <2> QED
    BY <2>1, <2>3, <2>4
<1>2. s273(m) = K("s273", AnyWidth, Loop(Up(0, LEN_1D), body))
  BY DEF s273
<1>3. LEN_1D \in Int /\ LEN_1D <= LEN_1D
  BY Numbers
<1> HIDE DEF body
<1> QED
  BY <1>1, <1>2, <1>3, OwnElements

LEMMA s274Good == ASSUME NEW m PROVE Good(s274(m))
<1> DEFINE body == [i \in Int |-> <<Set(a(i), {c(i), e(i), d(i)}), Test({a(i)})>>
                             \o If(m[i], <<Set(b(i), {a(i), b(i)})>>)
                             \o If(~m[i], <<Set(a(i), {d(i), e(i)})>>)]
<1>1. ASSUME NEW i \in Int PROVE body[i] \in Seq(Elements(i))
  <2>1. <<Set(a(i), {c(i), e(i), d(i)}), Test({a(i)})>> \in Seq(Elements(i))
    BY DEF Set, Test, Elements, Own
  <2>2. <<Set(b(i), {a(i), b(i)})>> \in Seq(Elements(i))
    BY DEF Set, Elements, Own
  <2>3. If(m[i], <<Set(b(i), {a(i), b(i)})>>) \in Seq(Elements(i))
    BY <2>2, IfIs
  <2>4. <<Set(a(i), {d(i), e(i)})>> \in Seq(Elements(i))
    BY DEF Set, Elements, Own
  <2>5. If(~m[i], <<Set(a(i), {d(i), e(i)})>>) \in Seq(Elements(i))
    BY <2>4, IfIs
  <2> QED
    BY <2>1, <2>3, <2>5
<1>2. s274(m) = K("s274", AnyWidth, Loop(Up(0, LEN_1D), body))
  BY DEF s274
<1>3. LEN_1D \in Int /\ LEN_1D <= LEN_1D
  BY Numbers
<1> HIDE DEF body
<1> QED
  BY <1>1, <1>2, <1>3, OwnElements

LEMMA s275Good == ASSUME NEW mask PROVE Good(s275(mask))
<1> DEFINE A(i) == Test({aa(0, i)})
           B(j, i) == Set(aa(j, i), {aa(j - 1, i), bb(j, i), cc(j, i)})
           body == [i \in Int |-> [j \in Int |-> <<A(i)>> \o If(mask[i], <<B(j, i)>>)]]
           rows == [i \in Int |-> Loop(Up(1, LEN_2D), body[i])]
<1>1. ASSUME NEW i \in Int, NEW j \in Int
      PROVE  Len(body[i][j]) = 2 /\ body[i][j][1] = A(i) /\ body[i][j][2] = Maybe(mask[i], B(j, i))
  <2> DEFINE p == mask[i]
  <2>1. body[i][j] = <<A(i)>> \o If(p, <<B(j, i)>>)
    OBVIOUS
  <2> HIDE DEF p, A, B, body
  <2> QED
    BY <2>1, TestThenOne DEF p
<1>2. s275(mask) = Swapped("s275", AnyWidth, Loop(Up(0, LEN_2D), rows))
  BY DEF s275
<1>3. 0 \in Int /\ 1 \in Int /\ LEN_2D \in Int
  BY Numbers
<1> HIDE DEF body
<1>4. ASSUME NEW i \in Int, 0 <= i, i < LEN_2D, NEW j \in Int, 1 <= j, j < LEN_2D
      PROVE  \A p \in 1..Len(body[i][j]) : Inside(body[i][j][p])
  <2>1. Inside(A(i)) /\ Inside(B(j, i))
    BY <1>4, CellsDeclared, Numbers DEF Inside, Touched, Set, Test
  <2> HIDE DEF A, B
  <2>2. Inside(body[i][j][1]) /\ Inside(body[i][j][2]) /\ Len(body[i][j]) = 2
    BY <1>1, <2>1, MaybeLess
  <2> QED
    BY <2>2
<1>5. ASSUME NEW i \in Int, NEW r \in Int, i < r, NEW m \in Int, NEW n \in Int, 1 <= m, 1 <= n
      PROVE  \A p \in 1..Len(body[i][m]) : \A q \in 1..Len(body[r][n]) : ~Conflict(body[i][m][p], body[r][n][q])
  <2>1. /\ ~Conflict(A(i), A(r)) /\ ~Conflict(A(i), B(n, r))
        /\ ~Conflict(B(m, i), A(r)) /\ ~Conflict(B(m, i), B(n, r))
    BY <1>5, CellIs DEF Conflict, Touched, Set, Test
  <2> HIDE DEF A, B
  <2>3. /\ Len(body[i][m]) = 2 /\ body[i][m][1] = A(i) /\ body[i][m][2] = Maybe(mask[i], B(m, i))
        /\ Len(body[r][n]) = 2 /\ body[r][n][1] = A(r) /\ body[r][n][2] = Maybe(mask[r], B(n, r))
    BY <1>1
  <2>4. /\ ~Conflict(A(i), Maybe(mask[r], B(n, r))) /\ ~Conflict(Maybe(mask[i], B(m, i)), A(r))
        /\ ~Conflict(Maybe(mask[i], B(m, i)), Maybe(mask[r], B(n, r)))
    BY <2>1, MaybeLess
  <2>2. /\ ~Conflict(body[i][m][1], body[r][n][1]) /\ ~Conflict(body[i][m][1], body[r][n][2])
        /\ ~Conflict(body[i][m][2], body[r][n][1]) /\ ~Conflict(body[i][m][2], body[r][n][2])
    BY <2>1, <2>3, <2>4
  <2> QED
    BY <2>2, <2>3
<1> HIDE DEF A, B
<1>6. ASSUME NEW i \in Int, 0 <= i, i < LEN_2D
      PROVE  /\ Len(rows[i]) \in Nat /\ 1..Len(rows[i]) = 1..(LEN_2D - 1) /\ Lies(rows[i])
             /\ \A n \in 1..(LEN_2D - 1) : rows[i][n] = body[i][1 + n - 1]
  <2> DEFINE row == body[i]
  <2>1. rows[i] = Loop(Up(1, LEN_2D), row)
    OBVIOUS
  <2>2. \A j \in Int : 1 <= j /\ j < LEN_2D => \A p \in 1..Len(row[j]) : Inside(row[j][p])
    BY <1>4, <1>6
  <2> HIDE DEF row
  <2>3. Lies(Loop(Up(1, LEN_2D), row))
    BY <1>3, <2>2, UpLies
  <2> HIDE DEF rows
  <2> QED
    BY <1>3, <2>1, <2>3, UpLoop DEF row
<1> HIDE DEF rows
<1>7. ASSUME NEW i \in Int, 0 <= i, i < LEN_2D, NEW n \in 1..Len(rows[i])
      PROVE  Len(rows[i][n]) \in Nat
  <2>1. n \in 1..(LEN_2D - 1) /\ n \in Int /\ \A y \in 1..(LEN_2D - 1) : rows[i][y] = body[i][1 + y - 1]
    BY <1>3, <1>6, <1>7
  <2>2. rows[i][n] = body[i][1 + n - 1] /\ 1 + n - 1 \in Int
    BY <2>1
  <2> QED
    BY <1>1, <2>2
<1>8. ASSUME NEW i \in Int, NEW r \in Int, 0 <= i, i < r, r < LEN_2D,
             NEW m \in 1..Len(rows[i]), NEW n \in 1..Len(rows[r])
      PROVE  \A p \in 1..Len(rows[i][m]) : \A q \in 1..Len(rows[r][n]) : ~Conflict(rows[i][m][p], rows[r][n][q])
  <2>1. 0 <= r /\ i < LEN_2D
    BY <1>3, <1>8
  <2>2. rows[i][m] = body[i][1 + m - 1] /\ rows[r][n] = body[r][1 + n - 1]
    BY <1>6, <1>8, <2>1
  <2>3. /\ 1 + m - 1 \in Int /\ 1 + n - 1 \in Int
        /\ 1 <= 1 + m - 1 /\ 1 <= 1 + n - 1
    BY <1>6, <1>8, <2>1
  <2> QED
    BY <1>5, <1>8, <2>2, <2>3
<1>9. ASSUME NEW i \in Int, 0 <= i, i < LEN_2D
      PROVE  Len(rows[i]) \in Nat /\ \A n \in 1..Len(rows[i]) : Len(rows[i][n]) \in Nat
  BY <1>6, <1>7, <1>9
<1>10. ASSUME NEW i \in Int, NEW r \in Int, 0 <= i, i < r, r < LEN_2D
       PROVE  \A m \in 1..Len(rows[i]) : \A n \in 1..Len(rows[r]) :
                 \A p \in 1..Len(rows[i][m]) : \A q \in 1..Len(rows[r][n]) : ~Conflict(rows[i][m][p], rows[r][n][q])
  BY <1>8, <1>10
<1>11. LengthsFit("s275") => \A i \in Int : 0 <= i /\ i < LEN_2D => Lies(rows[i])
  BY <1>6
<1>12. Good(Swapped("s275", AnyWidth, Loop(Up(0, LEN_2D), rows)))
  BY <1>3, <1>9, <1>10, <1>11, SwappedNest
<1> QED
  BY <1>2, <1>12

LEMMA s276Good == Good(s276)
<1> DEFINE body == [i \in Int |-> If(i + 1 < LEN_1D \div 2, <<Set(a(i), {a(i), b(i), c(i)})>>)
                             \o If(i + 1 >= LEN_1D \div 2, <<Set(a(i), {a(i), b(i), d(i)})>>)]
<1>1. ASSUME NEW i \in Int PROVE body[i] \in Seq(Elements(i))
  <2>1. <<Set(a(i), {a(i), b(i), c(i)})>> \in Seq(Elements(i))
    BY DEF Set, Elements, Own
  <2>2. If(i + 1 < LEN_1D \div 2, <<Set(a(i), {a(i), b(i), c(i)})>>) \in Seq(Elements(i))
    BY <2>1, IfIs
  <2>3. <<Set(a(i), {a(i), b(i), d(i)})>> \in Seq(Elements(i))
    BY DEF Set, Elements, Own
  <2>4. If(i + 1 >= LEN_1D \div 2, <<Set(a(i), {a(i), b(i), d(i)})>>) \in Seq(Elements(i))
    BY <2>3, IfIs
  <2> QED
    BY <2>2, <2>4
<1>2. s276 = K("s276", AnyWidth, Loop(Up(0, LEN_1D), body))
  BY DEF s276
<1>3. LEN_1D \in Int /\ LEN_1D <= LEN_1D
  BY Numbers
<1> HIDE DEF body
<1> QED
  BY <1>1, <1>2, <1>3, OwnElements

LEMMA s277Good == ASSUME NEW m PROVE Good(s277(m))
<1> DEFINE A(i) == Test({a(i)})
           B(i) == Test({b(i)})
           C(i) == Set(a(i), {a(i), c(i), d(i)})
           D(i) == Set(b(i + 1), {c(i), d(i), e(i)})
           body == [i \in Int |-> <<A(i)>> \o If(m[i], <<B(i), C(i), D(i)>>)]
           order == <<1, 4, 2, 3>>
           at == <<1, 3, 4, 2>>
<1>1. ASSUME NEW i \in Int
      PROVE  /\ Len(body[i]) = 4 /\ body[i][1] = A(i)
             /\ body[i][2] = Maybe(m[i], B(i)) /\ body[i][3] = Maybe(m[i], C(i)) /\ body[i][4] = Maybe(m[i], D(i))
  <2> DEFINE p == m[i]
  <2>1. body[i] = <<A(i)>> \o If(p, <<B(i), C(i), D(i)>>)
    OBVIOUS
  <2> HIDE DEF p, A, B, C, D, body
  <2> QED
    BY <2>1, TestThenThree DEF p
<1>2. s277(m) = Kernel("s277", AnyWidth, <<Loop(Up(0, LEN_1D - 1), body)>>, order, {}, FALSE)
  BY DEF s277, Reordered
<1>3. DOMAIN at = 1..4 /\ OrderIs(order, at, 4)
  BY DEF OrderIs
<1> HIDE DEF body
<1>4. ASSUME NEW i \in Int PROVE Ordered(at, body[i])
  <2>1. ~Conflict(B(i), D(i)) /\ ~Conflict(C(i), D(i))
    BY CellIs DEF Conflict, Touched, Test, Set
  <2> HIDE DEF A, B, C, D
  <2>2. ~Conflict(body[i][2], body[i][4]) /\ ~Conflict(body[i][3], body[i][4])
    BY <1>1, <2>1, MaybeLess
  <2> QED
    BY <1>3, <2>2 DEF Ordered
<1>5. ASSUME NEW i \in Int, NEW j \in Int, 0 <= i, i < j, j < LEN_1D - 1
      PROVE  Together(at, body[i], body[j])
  <2>1. ~Flow(A(i), A(j)) /\ ~Flow(B(i), B(j)) /\ ~Flow(C(i), C(j)) /\ ~Flow(D(i), D(j))
    BY <1>5, CellIs DEF Flow, Test, Set
  <2>2. ~Conflict(B(i), A(j)) /\ ~Conflict(C(i), A(j)) /\ ~Conflict(D(i), A(j))
    BY <1>5, CellIs DEF Conflict, Touched, Test, Set
  <2>3. ~Conflict(C(i), B(j)) /\ ~Conflict(B(i), D(j)) /\ ~Conflict(C(i), D(j))
    BY <1>5, CellIs DEF Conflict, Touched, Test, Set
  <2> HIDE DEF A, B, C, D
  <2>4. /\ ~Flow(body[i][1], body[j][1]) /\ ~Flow(body[i][2], body[j][2])
        /\ ~Flow(body[i][3], body[j][3]) /\ ~Flow(body[i][4], body[j][4])
    BY <1>1, <2>1, MaybeLess
  <2>5. /\ ~Conflict(body[i][2], body[j][1]) /\ ~Conflict(body[i][3], body[j][1]) /\ ~Conflict(body[i][4], body[j][1])
        /\ ~Conflict(body[i][3], body[j][2]) /\ ~Conflict(body[i][2], body[j][4]) /\ ~Conflict(body[i][3], body[j][4])
    BY <1>1, <2>2, <2>3, MaybeLess
  <2> QED
    BY <1>3, <2>4, <2>5 DEF Together
<1>6. ASSUME LengthsFit("s277"), NEW i \in Int, 0 <= i, i < LEN_1D - 1
      PROVE  \A p \in 1..4 : Inside(body[i][p])
  <2>1. Inside(A(i)) /\ Inside(B(i)) /\ Inside(C(i)) /\ Inside(D(i))
    BY <1>6, Numbers, CellsDeclared DEF Inside, Touched, Set, Test
  <2> HIDE DEF A, B, C, D
  <2>2. Inside(body[i][1]) /\ Inside(body[i][2]) /\ Inside(body[i][3]) /\ Inside(body[i][4])
    BY <1>1, <2>1, MaybeLess
  <2> QED
    BY <2>2
<1>7. LEN_1D - 1 \in Int /\ AnyWidth \in Int
  BY Numbers DEF AnyWidth
<1>8. \A i \in Int : Len(body[i]) = 4
  BY <1>1
<1> HIDE DEF A, B, C, D, at
<1>9. Reorders("s277", 0, LEN_1D - 1, body, order, at, 4)
  BY <1>3, <1>4, <1>5, <1>6, <1>7, <1>8 DEF Reorders
<1> HIDE DEF order
<1> QED
  BY <1>2, <1>9, ReorderedUp

LEMMA s278Good == ASSUME NEW m PROVE Good(s278(m))
<1> DEFINE body == [i \in Int |-> <<Test({a(i)})>>
                             \o If(~m[i], <<Set(b(i), {b(i), d(i), e(i)})>>)
                             \o If(m[i], <<Set(c(i), {c(i), d(i), e(i)})>>)
                             \o <<Set(a(i), {b(i), c(i), d(i)})>>]
<1>1. ASSUME NEW i \in Int PROVE body[i] \in Seq(Elements(i))
  <2>1. <<Test({a(i)})>> \in Seq(Elements(i))
    BY DEF Test, Elements, Own
  <2>2. <<Set(b(i), {b(i), d(i), e(i)})>> \in Seq(Elements(i))
    BY DEF Set, Elements, Own
  <2>3. If(~m[i], <<Set(b(i), {b(i), d(i), e(i)})>>) \in Seq(Elements(i))
    BY <2>2, IfIs
  <2>4. <<Set(c(i), {c(i), d(i), e(i)})>> \in Seq(Elements(i))
    BY DEF Set, Elements, Own
  <2>5. If(m[i], <<Set(c(i), {c(i), d(i), e(i)})>>) \in Seq(Elements(i))
    BY <2>4, IfIs
  <2>6. <<Set(a(i), {b(i), c(i), d(i)})>> \in Seq(Elements(i))
    BY DEF Set, Elements, Own
  <2> QED
    BY <2>1, <2>3, <2>5, <2>6
<1>2. s278(m) = K("s278", AnyWidth, Loop(Up(0, LEN_1D), body))
  BY DEF s278
<1>3. LEN_1D \in Int /\ LEN_1D <= LEN_1D
  BY Numbers
<1> HIDE DEF body
<1> QED
  BY <1>1, <1>2, <1>3, OwnElements

LEMMA s279Good == ASSUME NEW m PROVE Good(s279(m))
<1> DEFINE body == [i \in Int |-> <<Test({a(i)})>>
                             \o If(~m[i], <<Set(b(i), {b(i), d(i)}), Test({b(i), a(i)}), Set(c(i), {c(i), d(i), e(i)})>>)
                             \o If(m[i], <<Set(c(i), {c(i), e(i)})>>)
                             \o <<Set(a(i), {b(i), c(i), d(i)})>>]
<1>1. ASSUME NEW i \in Int PROVE body[i] \in Seq(Elements(i))
  <2>1. <<Test({a(i)})>> \in Seq(Elements(i))
    BY DEF Test, Elements, Own
  <2>2. <<Set(b(i), {b(i), d(i)}), Test({b(i), a(i)}), Set(c(i), {c(i), d(i), e(i)})>> \in Seq(Elements(i))
    BY DEF Set, Test, Elements, Own
  <2>3. If(~m[i], <<Set(b(i), {b(i), d(i)}), Test({b(i), a(i)}), Set(c(i), {c(i), d(i), e(i)})>>) \in Seq(Elements(i))
    BY <2>2, IfIs
  <2>4. <<Set(c(i), {c(i), e(i)})>> \in Seq(Elements(i))
    BY DEF Set, Elements, Own
  <2>5. If(m[i], <<Set(c(i), {c(i), e(i)})>>) \in Seq(Elements(i))
    BY <2>4, IfIs
  <2>6. <<Set(a(i), {b(i), c(i), d(i)})>> \in Seq(Elements(i))
    BY DEF Set, Elements, Own
  <2> QED
    BY <2>1, <2>3, <2>5, <2>6
<1>2. s279(m) = K("s279", AnyWidth, Loop(Up(0, LEN_1D), body))
  BY DEF s279
<1>3. LEN_1D \in Int /\ LEN_1D <= LEN_1D
  BY Numbers
<1> HIDE DEF body
<1> QED
  BY <1>1, <1>2, <1>3, OwnElements

LEMMA s281Good == Good(s281)
<1> DEFINE body == [i \in Int |-> <<Set(s(i), {a(LEN_1D - i - 1), b(i), c(i)}),
                                 Set(a(i), {s(i)}),
                                 Set(b(i), {s(i)})>>]
           at == Straight(3)
<1>1. DOMAIN at = 1..3 /\ OrderIs(<<>>, at, 3)
  BY DEF OrderIs, Straight
<1>2. \A i \in Int : Len(body[i]) = 3
  OBVIOUS
<1>4. ASSUME NEW i \in Int PROVE Ordered(at, body[i])
  BY <1>1 DEF Ordered, Straight
<1>5. ASSUME NEW i \in Int, NEW j \in Int, 0 <= i, i < j, j < LEN_1D, ~(i < (LEN_1D + 1) \div 2 /\ (LEN_1D + 1) \div 2 <= j)
      PROVE  /\ ~Flow(body[i][1], body[j][1])
             /\ ~Flow(body[i][2], body[j][2])
             /\ ~Flow(body[i][3], body[j][3])
             /\ ~Conflict(body[i][2], body[j][1])
             /\ ~Conflict(body[i][3], body[j][1])
             /\ ~Conflict(body[i][3], body[j][2])
  BY CellIs, <1>5, Numbers DEF Conflict, Flow, Touched, Set
<1>6. ASSUME NEW i \in Int, NEW j \in Int, 0 <= i, i < j, j < LEN_1D, ~(i < (LEN_1D + 1) \div 2 /\ (LEN_1D + 1) \div 2 <= j)
      PROVE  Together(at, body[i], body[j])
  <2> HIDE DEF body
  <2> QED
    BY <1>1, <1>5, <1>6 DEF Together, Straight
<1>7. ASSUME LengthsFit("s281"), NEW i \in Int, 0 <= i, i < LEN_1D
      PROVE  \A p \in 1..3 : Inside(body[i][p])
  <2>1. Inside(body[i][1]) /\ Inside(body[i][2]) /\ Inside(body[i][3])
    BY <1>2, <1>7, Numbers, CellsDeclared DEF LengthsFit, Long, Room, Inside, Touched, Set
  <2> QED
    BY <2>1
<1>8. s281 = Kernel("s281", AnyWidth, <<Loop(Up(0, LEN_1D), body)>>, <<>>, {(LEN_1D + 1) \div 2}, FALSE)
  BY DEF s281, Cut, body
<1>9. 0 \in Int /\ LEN_1D \in Int /\ AnyWidth \in Int /\ {(LEN_1D + 1) \div 2} \subseteq Int
  BY Numbers DEF AnyWidth
<1>10. ASSUME NEW i \in Int, NEW j \in Int, 0 <= i, i < j, j < LEN_1D
      PROVE  \/ j - i >= AnyWidth
             \/ \E cut \in {(LEN_1D + 1) \div 2} : i < 0 + cut /\ 0 + cut <= j
             \/ Together(at, body[i], body[j])
  <2> HIDE DEF at, body
  <2> QED
    BY <1>6, <1>10, Numbers
<1> HIDE DEF at
<1> QED
  BY <1>1, <1>2, <1>4, <1>10, <1>7, <1>8, <1>9, OrderedUp

LEMMA s291Good == Good(s291)
<1> DEFINE body == [i \in Int |-> <<Set(a(i), {b(i), b(IF i = 0 THEN LEN_1D - 1 ELSE i - 1)})>>]
<1>1. \A i \in Int : Len(body[i]) = 1
  OBVIOUS
<1>2. ASSUME NEW i \in Int, NEW j \in Int, 0 <= i, i < j, j < LEN_1D
      PROVE  ~Flow(body[i][1], body[j][1])
  BY <1>2 DEF Flow, Set, a, b
<1>3. ASSUME LengthsFit("s291"), NEW i \in Int, 0 <= i, i < LEN_1D
      PROVE  Inside(body[i][1])
  BY <1>3, Numbers, CellsDeclared DEF Inside, Touched, Set
<1>4. s291 = K("s291", AnyWidth, Loop(Up(0, LEN_1D), body))
  BY DEF s291
<1>5. 0 \in Int /\ LEN_1D \in Int
  BY Numbers
<1> HIDE DEF body
<1> QED
  BY <1>1, <1>2, <1>3, <1>4, <1>5, OneStatement

LEMMA s292Good == Good(s292)
<1> DEFINE body == [i \in Int |-> <<Set(a(i), {b(i), b(IF i = 0 THEN LEN_1D - 1 ELSE i - 1), b(IF i < 2 THEN LEN_1D - 2 + i ELSE i - 2)})>>]
<1>1. \A i \in Int : Len(body[i]) = 1
  OBVIOUS
<1>2. ASSUME NEW i \in Int, NEW j \in Int, 0 <= i, i < j, j < LEN_1D
      PROVE  ~Flow(body[i][1], body[j][1])
  BY <1>2 DEF Flow, Set, a, b
<1>3. ASSUME LengthsFit("s292"), NEW i \in Int, 0 <= i, i < LEN_1D
      PROVE  Inside(body[i][1])
  BY <1>3, Numbers, CellsDeclared DEF LengthsFit, Long, Room, Inside, Touched, Set
<1>4. s292 = K("s292", AnyWidth, Loop(Up(0, LEN_1D), body))
  BY DEF s292
<1>5. 0 \in Int /\ LEN_1D \in Int
  BY Numbers
<1> HIDE DEF body
<1> QED
  BY <1>1, <1>2, <1>3, <1>4, <1>5, OneStatement

LEMMA s293Good == Good(s293)
<1> DEFINE body == [i \in Int |-> <<Set(a(i), {a(0)})>>]
           at == Straight(1)
<1>1. DOMAIN at = 1..1 /\ OrderIs(<<>>, at, 1)
  BY DEF OrderIs, Straight
<1>2. \A i \in Int : Len(body[i]) = 1
  OBVIOUS
<1>4. ASSUME NEW i \in Int PROVE Ordered(at, body[i])
  BY <1>1 DEF Ordered, Straight
<1>5. ASSUME NEW i \in Int, NEW j \in Int, 0 <= i, i < j, j < LEN_1D, 1 <= i
      PROVE  /\ ~Flow(body[i][1], body[j][1])
  BY CellIs, <1>5, Numbers DEF Conflict, Flow, Touched, Set
<1>6. ASSUME NEW i \in Int, NEW j \in Int, 0 <= i, i < j, j < LEN_1D, 1 <= i
      PROVE  Together(at, body[i], body[j])
  <2> HIDE DEF body
  <2> QED
    BY <1>1, <1>5, <1>6 DEF Together, Straight
<1>7. ASSUME LengthsFit("s293"), NEW i \in Int, 0 <= i, i < LEN_1D
      PROVE  \A p \in 1..1 : Inside(body[i][p])
  <2>1. Inside(body[i][1])
    BY <1>2, <1>7, Numbers, CellsDeclared DEF LengthsFit, Long, Room, Inside, Touched, Set
  <2> QED
    BY <2>1
<1>8. s293 = Kernel("s293", AnyWidth, <<Loop(Up(0, LEN_1D), body)>>, <<>>, {1}, FALSE)
  BY DEF s293, Cut, body
<1>9. 0 \in Int /\ LEN_1D \in Int /\ AnyWidth \in Int /\ {1} \subseteq Int
  BY Numbers DEF AnyWidth
<1>10. ASSUME NEW i \in Int, NEW j \in Int, 0 <= i, i < j, j < LEN_1D
      PROVE  \/ j - i >= AnyWidth
             \/ \E cut \in {1} : i < 0 + cut /\ 0 + cut <= j
             \/ Together(at, body[i], body[j])
  <2> HIDE DEF at, body
  <2> QED
    BY <1>6, <1>10, Numbers
<1> HIDE DEF at
<1> QED
  BY <1>1, <1>2, <1>4, <1>10, <1>7, <1>8, <1>9, OrderedUp

LEMMA s331Good == ASSUME NEW m PROVE Good(s331(m))
<1> DEFINE body == [i \in Int |-> <<Test({a(i)})>> \o If(m[i], <<Acc(acc, {a(i)})>>)]
<1>1. ASSUME NEW i \in Int PROVE body[i] \in Seq(Elements(i))
  <2>1. <<Test({a(i)})>> \in Seq(Elements(i))
    BY DEF Test, Elements, Own
  <2>2. <<Acc(acc, {a(i)})>> \in Seq(Elements(i))
    BY DEF Acc, Elements, Own
  <2>3. If(m[i], <<Acc(acc, {a(i)})>>) \in Seq(Elements(i))
    BY <2>2, IfIs
  <2> QED
    BY <2>1, <2>3
<1>2. s331(m) = K("s331", AnyWidth, Loop(Up(0, LEN_1D), body))
  BY DEF s331
<1>3. LEN_1D \in Int /\ LEN_1D <= LEN_1D
  BY Numbers
<1> HIDE DEF body
<1> QED
  BY <1>1, <1>2, <1>3, OwnElements

LEMMA s332Good == ASSUME NEW m PROVE Good(s332(m))
<1> DEFINE A(i) == Test({a(i)})
           B(i) == Set(out("index"), {})
           C(i) == Set(out("value"), {a(i)})
           body == [i \in Int |-> <<A(i)>> \o If(m[i], <<B(i), C(i)>>)]
<1>1. ASSUME NEW i \in Int
      PROVE  /\ Len(body[i]) = 3 /\ body[i][1] = A(i)
             /\ body[i][2] = Maybe(m[i], B(i)) /\ body[i][3] = Maybe(m[i], C(i))
  <2> DEFINE p == m[i]
  <2>1. body[i] = <<A(i)>> \o If(p, <<B(i), C(i)>>)
    OBVIOUS
  <2> HIDE DEF p, A, B, C, body
  <2> QED
    BY <2>1, TestThenTwo DEF p
<1>2. s332(m) = K("s332", AnyWidth, Loop(Up(0, Until(m)), body))
  BY DEF s332
<1> HIDE DEF body
<1>3. ASSUME NEW i \in Int, NEW j \in Int, 0 <= i, i < j, j < Until(m)
      PROVE  Side(body[i], body[j])
  <2>1. ~Flow(A(i), A(j)) /\ ~Flow(B(i), B(j)) /\ ~Flow(C(i), C(j))
    BY <1>3, CellIs DEF Flow, Test, Set
  <2>2. ~Conflict(B(i), A(j)) /\ ~Conflict(C(i), A(j)) /\ ~Conflict(C(i), B(j))
    BY <1>3, CellIs DEF Conflict, Touched, Test, Set
  <2> HIDE DEF A, B, C
  <2>3. /\ ~Flow(body[i][1], body[j][1]) /\ ~Flow(body[i][2], body[j][2]) /\ ~Flow(body[i][3], body[j][3])
        /\ ~Conflict(body[i][2], body[j][1]) /\ ~Conflict(body[i][3], body[j][1]) /\ ~Conflict(body[i][3], body[j][2])
    BY <1>1, <2>1, <2>2, MaybeLess
  <2>4. Len(body[i]) = 3 /\ Len(body[j]) = 3
    BY <1>1
  <2> QED
    BY <2>3, <2>4 DEF Side
<1>4. ASSUME LengthsFit("s332"), NEW i \in Int, 0 <= i, i < Until(m)
      PROVE  \A p \in 1..Len(body[i]) : Inside(body[i][p])
  <2>1. i < LEN_1D
    BY <1>4, UntilIs, Numbers
  <2>2. Inside(A(i)) /\ Inside(B(i)) /\ Inside(C(i))
    BY <1>4, <2>1, Numbers, CellsDeclared DEF Inside, Touched, Set, Test
  <2> HIDE DEF A, B, C
  <2>3. Inside(body[i][1]) /\ Inside(body[i][2]) /\ Inside(body[i][3])
    BY <1>1, <2>2, MaybeLess
  <2>4. Len(body[i]) = 3
    BY <1>1
  <2> QED
    BY <2>3, <2>4
<1>5. \A i \in Int : Len(body[i]) \in Nat
  BY <1>1
<1> DEFINE L == Loop(Up(0, Until(m)), body)
<1>6. SideBySide(L)
  BY <1>3, <1>5, UntilIs, UpSideBySide
<1>7. LengthsFit("s332") => Lies(L)
  BY <1>4, UntilIs, UpLies
<1> HIDE DEF L
<1> QED
  BY <1>2, <1>6, <1>7, StraightLoop DEF L

LEMMA s341Good == ASSUME NEW m PROVE Good(s341(m))
<1> DEFINE A(i) == Set(out("j"), {out("j")})
           B(i) == Set(a(Packed(m, i)), {out("j"), b(i)})
           body == [i \in Int |-> <<Test({b(i)})>> \o If(m[i], <<A(i), B(i)>>)]
<1>1. ASSUME NEW i \in Int
      PROVE  /\ Len(body[i]) = 3 /\ body[i][1] = Test({b(i)})
             /\ body[i][2] = Maybe(m[i], A(i)) /\ body[i][3] = Maybe(m[i], B(i))
  BY TestThenTwo
<1>2. s341(m) = K("s341", Packing(m), Loop(Up(0, LEN_1D), body))
  BY DEF s341
<1> HIDE DEF body
<1>3. ASSUME LengthsFit("s341"), NEW i \in Int, 0 <= i, i < LEN_1D
      PROVE  \A p \in 1..Len(body[i]) : Inside(body[i][p])
  <2>1. Inside(Test({b(i)})) /\ Inside(A(i)) /\ Inside(B(i))
    <3>1. Packed(m, i) \in Nat /\ Packed(m, i) <= i
      BY <1>3, PackedIs
    <3>2. Packed(m, i) \in Int /\ 0 <= Packed(m, i) /\ Packed(m, i) < LEN_1D
      BY <1>3, <3>1, Numbers
    <3> QED
      BY <1>3, <3>2, Numbers, CellsDeclared DEF Inside, Touched, Set, Test
  <2> HIDE DEF A, B
  <2>2. Inside(Maybe(m[i], A(i))) /\ Inside(Maybe(m[i], B(i)))
    BY <2>1, MaybeLess
  <2> QED
    BY <1>1, <2>1, <2>2
<1>4. \A i \in Int : Len(body[i]) = 3
  BY <1>1
<1>5. LEN_1D \in Int
  BY Numbers
<1> HIDE DEF A, B
<1> QED
  BY <1>2, <1>3, <1>4, <1>5, PackingIs, OneLaneUp

LEMMA s342Good == ASSUME NEW m PROVE Good(s342(m))
<1> DEFINE A(i) == Set(out("j"), {out("j")})
           B(i) == Set(a(i), {out("j"), b(Packed(m, i))})
           body == [i \in Int |-> <<Test({a(i)})>> \o If(m[i], <<A(i), B(i)>>)]
<1>1. ASSUME NEW i \in Int
      PROVE  /\ Len(body[i]) = 3 /\ body[i][1] = Test({a(i)})
             /\ body[i][2] = Maybe(m[i], A(i)) /\ body[i][3] = Maybe(m[i], B(i))
  BY TestThenTwo
<1>2. s342(m) = K("s342", Packing(m), Loop(Up(0, LEN_1D), body))
  BY DEF s342
<1> HIDE DEF body
<1>3. ASSUME LengthsFit("s342"), NEW i \in Int, 0 <= i, i < LEN_1D
      PROVE  \A p \in 1..Len(body[i]) : Inside(body[i][p])
  <2>1. Inside(Test({a(i)})) /\ Inside(A(i)) /\ Inside(B(i))
    <3>1. Packed(m, i) \in Nat /\ Packed(m, i) <= i
      BY <1>3, PackedIs
    <3>2. Packed(m, i) \in Int /\ 0 <= Packed(m, i) /\ Packed(m, i) < LEN_1D
      BY <1>3, <3>1, Numbers
    <3> QED
      BY <1>3, <3>2, Numbers, CellsDeclared DEF Inside, Touched, Set, Test
  <2> HIDE DEF A, B
  <2>2. Inside(Maybe(m[i], A(i))) /\ Inside(Maybe(m[i], B(i)))
    BY <2>1, MaybeLess
  <2> QED
    BY <1>1, <2>1, <2>2
<1>4. \A i \in Int : Len(body[i]) = 3
  BY <1>1
<1>5. LEN_1D \in Int
  BY Numbers
<1> HIDE DEF A, B
<1> QED
  BY <1>2, <1>3, <1>4, <1>5, PackingIs, OneLaneUp

LEMMA s343Good == ASSUME NEW m PROVE Good(s343(m))
<1> DEFINE A == Set(out("k"), {out("k")})
           B(i, j) == Set(flat(i * Packed(m, LEN_2D) + Packed(m, j)), {out("k"), aa(j, i)})
           rows == [i \in Int |-> Loop(Up(0, LEN_2D), [j \in Int |-> <<Test({bb(j, i)})>> \o If(m[j], <<A, B(i, j)>>)])]
<1>1. ASSUME NEW i \in Int, 0 <= i, i < LEN_2D
      PROVE  /\ Len(rows[i]) \in Nat /\ \A n \in 1..Len(rows[i]) : Len(rows[i][n]) \in Nat
             /\ LengthsFit("s343") => Lies(rows[i])
  <2> DEFINE body == [j \in Int |-> <<Test({bb(j, i)})>> \o If(m[j], <<A, B(i, j)>>)]
  <2>1. ASSUME NEW j \in Int
        PROVE  /\ Len(body[j]) = 3 /\ body[j][1] = Test({bb(j, i)})
               /\ body[j][2] = Maybe(m[j], A) /\ body[j][3] = Maybe(m[j], B(i, j))
    BY TestThenTwo
  <2>2. rows[i] = Loop(Up(0, LEN_2D), body)
    BY <1>1
  <2> HIDE DEF body, rows
  <2>3. ASSUME LengthsFit("s343"), NEW j \in Int, 0 <= j, j < LEN_2D
        PROVE  \A p \in 1..Len(body[j]) : Inside(body[j][p])
    <3>1. Inside(Test({bb(j, i)})) /\ Inside(A) /\ Inside(B(i, j))
      BY <1>1, <2>3, Numbers, RowsPacked, CellsDeclared DEF Inside, Touched, Set, Test
    <3> HIDE DEF A, B
    <3>2. Inside(Maybe(m[j], A)) /\ Inside(Maybe(m[j], B(i, j)))
      BY <3>1, MaybeLess
    <3> QED
      BY <2>1, <3>1, <3>2
  <2>4. \A j \in Int : Len(body[j]) = 3
    BY <2>1
  <2>5. LEN_2D \in Int
    BY Numbers
  <2> HIDE DEF A, B
  <2>6. LengthsFit("s343") => Lies(rows[i])
    <3>1. 0 \in Int /\ LEN_2D \in Int
      BY <2>5
    <3>2. LengthsFit("s343") => Lies(Loop(Up(0, LEN_2D), body))
      BY <2>3, <3>1, UpLies
    <3> QED
      BY <2>2, <3>2
  <2> QED
    BY <2>2, <2>4, <2>5, <2>6, UpLoop
<1>2. s343(m) = K2("s343", Packing(m), Loop(Up(0, LEN_2D), rows))
  BY DEF s343
<1> HIDE DEF rows, A, B
<1>3. LEN_2D \in Int
  BY Numbers
<1> QED
  BY <1>1, <1>2, <1>3, PackingIs, OneLaneNest

LEMMA s441Good == ASSUME NEW m PROVE Good(s441(m))
<1> DEFINE body == [i \in Int |-> <<Test({d(i)})>>
                             \o If(m[i], <<Set(a(i), {a(i), b(i), c(i)})>>)
                             \o If(~m[i], <<Test({d(i)}), Set(a(i), {a(i), IF i % 2 = 0 THEN b(i) ELSE c(i)})>>)]
<1>1. ASSUME NEW i \in Int PROVE body[i] \in Seq(Elements(i))
  <2>1. <<Test({d(i)})>> \in Seq(Elements(i))
    BY DEF Test, Elements, Own
  <2>2. <<Set(a(i), {a(i), b(i), c(i)})>> \in Seq(Elements(i))
    BY DEF Set, Elements, Own
  <2>3. If(m[i], <<Set(a(i), {a(i), b(i), c(i)})>>) \in Seq(Elements(i))
    BY <2>2, IfIs
  <2>4. <<Test({d(i)}), Set(a(i), {a(i), IF i % 2 = 0 THEN b(i) ELSE c(i)})>> \in Seq(Elements(i))
    BY DEF Set, Test, Elements, Own
  <2>5. If(~m[i], <<Test({d(i)}), Set(a(i), {a(i), IF i % 2 = 0 THEN b(i) ELSE c(i)})>>) \in Seq(Elements(i))
    BY <2>4, IfIs
  <2> QED
    BY <2>1, <2>3, <2>5
<1>2. s441(m) = K("s441", AnyWidth, Loop(Up(0, LEN_1D), body))
  BY DEF s441
<1>3. LEN_1D \in Int /\ LEN_1D <= LEN_1D
  BY Numbers
<1> HIDE DEF body
<1> QED
  BY <1>1, <1>2, <1>3, OwnElements

LEMMA s442Good == ASSUME NEW m PROVE Good(s442(m))
<1> DEFINE body == [i \in Int |-> If(m[i] /\ i % 2 = 0, <<Set(a(i), {a(i), b(i)})>>)
                             \o If(m[i] /\ i % 2 = 1, <<Set(a(i), {a(i), c(i)})>>)
                             \o If(~m[i] /\ i % 2 = 0, <<Set(a(i), {a(i), d(i)})>>)
                             \o If(~m[i] /\ i % 2 = 1, <<Set(a(i), {a(i), e(i)})>>)]
<1>1. ASSUME NEW i \in Int PROVE body[i] \in Seq(Elements(i))
  <2>1. <<Set(a(i), {a(i), b(i)})>> \in Seq(Elements(i))
    BY DEF Set, Elements, Own
  <2>2. If(m[i] /\ i % 2 = 0, <<Set(a(i), {a(i), b(i)})>>) \in Seq(Elements(i))
    BY <2>1, IfIs
  <2>3. <<Set(a(i), {a(i), c(i)})>> \in Seq(Elements(i))
    BY DEF Set, Elements, Own
  <2>4. If(m[i] /\ i % 2 = 1, <<Set(a(i), {a(i), c(i)})>>) \in Seq(Elements(i))
    BY <2>3, IfIs
  <2>5. <<Set(a(i), {a(i), d(i)})>> \in Seq(Elements(i))
    BY DEF Set, Elements, Own
  <2>6. If(~m[i] /\ i % 2 = 0, <<Set(a(i), {a(i), d(i)})>>) \in Seq(Elements(i))
    BY <2>5, IfIs
  <2>7. <<Set(a(i), {a(i), e(i)})>> \in Seq(Elements(i))
    BY DEF Set, Elements, Own
  <2>8. If(~m[i] /\ i % 2 = 1, <<Set(a(i), {a(i), e(i)})>>) \in Seq(Elements(i))
    BY <2>7, IfIs
  <2> QED
    BY <2>2, <2>4, <2>6, <2>8
<1>2. s442(m) = K("s442", AnyWidth, Loop(Up(0, LEN_1D), body))
  BY DEF s442
<1>3. LEN_1D \in Int /\ LEN_1D <= LEN_1D
  BY Numbers
<1> HIDE DEF body
<1> QED
  BY <1>1, <1>2, <1>3, OwnElements

LEMMA s443Good == ASSUME NEW m PROVE Good(s443(m))
<1> DEFINE body == [i \in Int |-> <<Test({d(i)})>>
                             \o If(m[i], <<Set(a(i), {a(i), b(i), c(i)})>>)
                             \o If(~m[i], <<Set(a(i), {a(i), b(i)})>>)]
<1>1. ASSUME NEW i \in Int PROVE body[i] \in Seq(Elements(i))
  <2>1. <<Test({d(i)})>> \in Seq(Elements(i))
    BY DEF Test, Elements, Own
  <2>2. <<Set(a(i), {a(i), b(i), c(i)})>> \in Seq(Elements(i))
    BY DEF Set, Elements, Own
  <2>3. If(m[i], <<Set(a(i), {a(i), b(i), c(i)})>>) \in Seq(Elements(i))
    BY <2>2, IfIs
  <2>4. <<Set(a(i), {a(i), b(i)})>> \in Seq(Elements(i))
    BY DEF Set, Elements, Own
  <2>5. If(~m[i], <<Set(a(i), {a(i), b(i)})>>) \in Seq(Elements(i))
    BY <2>4, IfIs
  <2> QED
    BY <2>1, <2>3, <2>5
<1>2. s443(m) = K("s443", AnyWidth, Loop(Up(0, LEN_1D), body))
  BY DEF s443
<1>3. LEN_1D \in Int /\ LEN_1D <= LEN_1D
  BY Numbers
<1> HIDE DEF body
<1> QED
  BY <1>1, <1>2, <1>3, OwnElements

LEMMA s481Good == ASSUME NEW m PROVE Good(s481(m))
<1> DEFINE body == [i \in Int |-> <<Test({d(i)})>> \o If(~m[i], <<Set(a(i), {a(i), b(i), c(i)})>>)]
<1>1. ASSUME NEW i \in Int PROVE body[i] \in Seq(Elements(i))
  <2>1. <<Test({d(i)})>> \in Seq(Elements(i))
    BY DEF Test, Elements, Own
  <2>2. <<Set(a(i), {a(i), b(i), c(i)})>> \in Seq(Elements(i))
    BY DEF Set, Elements, Own
  <2>3. If(~m[i], <<Set(a(i), {a(i), b(i), c(i)})>>) \in Seq(Elements(i))
    BY <2>2, IfIs
  <2> QED
    BY <2>1, <2>3
<1>2. s481(m) = K("s481", AnyWidth, Loop(Up(0, Until(m)), body))
  BY DEF s481
<1>3. Until(m) \in Int /\ Until(m) <= LEN_1D
  BY UntilIs
<1> HIDE DEF body
<1> QED
  BY <1>1, <1>2, <1>3, OwnElements

LEMMA s482Good == ASSUME NEW m PROVE Good(s482(m))
<1> DEFINE body == [i \in Int |-> <<Set(a(i), {a(i), b(i), c(i)}), Test({c(i), b(i)})>>]
<1>1. \A i \in Int : body[i] \in Seq(Elements(i))
  BY DEF Set, Test, Elements, Own
<1>2. s482(m) = K("s482", AnyWidth, Loop(Up(0, Until(m)), body))
  BY DEF s482
<1>3. Until(m) \in Int /\ Until(m) <= LEN_1D
  BY UntilIs
<1> HIDE DEF body
<1> QED
  BY <1>1, <1>2, <1>3, OwnElements

LEMMA ControlGood == \A k \in Control : Good(k)
BY s276Good, s281Good, s1281Good, s291Good, s292Good, s293Good
   DEF Control

LEMMA ControlIfGood == ASSUME NEW m PROVE \A k \in ControlIf(m) : Good(k)
BY s271Good, s2710Good, s2711Good, s2712Good, s272Good, s273Good, s274Good, s275Good, s277Good,
   s278Good, s279Good, s1279Good, s331Good, s332Good, s341Good, s342Good, s343Good, s441Good,
   s442Good, s443Good, s481Good, s482Good
   DEF ControlIf

-----------------------------------------------------------------------------
(* The kernels of TsvcReduce. *)

LEMMA s311Good == Good(s311)
<1> DEFINE body == [i \in Int |-> <<Acc(acc, {a(i)})>>]
<1>1. \A i \in Int : body[i] \in Seq(Elements(i))
  BY DEF Acc, Elements, Own
<1>2. s311 = K("s311", AnyWidth, Loop(Up(0, LEN_1D), body))
  BY DEF s311
<1>3. LEN_1D \in Int /\ LEN_1D <= LEN_1D
  BY Numbers
<1> HIDE DEF body
<1> QED
  BY <1>1, <1>2, <1>3, OwnElements

LEMMA s3110Good == Good(s3110) /\ Good(s13110)
BY MaximumGood DEF s3110, s13110

LEMMA s3111Good == ASSUME NEW m PROVE Good(s3111(m))
<1> DEFINE body == [i \in Int |-> <<Test({a(i)})>> \o If(m[i], <<Acc(acc, {a(i)})>>)]
<1>1. ASSUME NEW i \in Int PROVE body[i] \in Seq(Elements(i))
  <2>1. <<Test({a(i)})>> \in Seq(Elements(i))
    BY DEF Test, Elements, Own
  <2>2. <<Acc(acc, {a(i)})>> \in Seq(Elements(i))
    BY DEF Acc, Elements, Own
  <2>3. If(m[i], <<Acc(acc, {a(i)})>>) \in Seq(Elements(i))
    BY <2>2, IfIs
  <2> QED
    BY <2>1, <2>3
<1>2. s3111(m) = K("s3111", AnyWidth, Loop(Up(0, LEN_1D), body))
  BY DEF s3111
<1>3. LEN_1D \in Int /\ LEN_1D <= LEN_1D
  BY Numbers
<1> HIDE DEF body
<1> QED
  BY <1>1, <1>2, <1>3, OwnElements

LEMMA s31111Good == Good(s31111)
<1> DEFINE body == [i \in Int |-> <<Acc(acc, {a(4 * i), a(4 * i + 1), a(4 * i + 2), a(4 * i + 3)})>>]
           M == (8 - 0 + 1 - 1) \div 1
           its == [n \in 1..M |-> 0 + (n - 1) * 1]
           at == Straight(1)
<1>1. DOMAIN at = 1..1 /\ OrderIs(<<>>, at, 1)
  BY DEF OrderIs, Straight
<1>2. M \in Int /\ (M = 8) /\ its = [n \in 1..M |-> its[n]]
  BY Numbers
<1>3. s31111 = Kernel("s31111", AnyWidth, <<Loop(its, body)>>, <<>>, {}, FALSE)
  BY DEF s31111, K, K2, Steps
<1> HIDE DEF M
<1>4. \A n \in 1..M : its[n] = n - 1 /\ its[n] \in Int
  BY <1>2, Numbers
<1> HIDE DEF its
<1>5. \A i \in Int : Len(body[i]) = 1
  OBVIOUS
<1>6. ASSUME NEW i \in Int PROVE Ordered(at, body[i])
  BY <1>1 DEF Ordered, Straight
<1>7. ASSUME NEW i \in Int, NEW j \in Int, i < j PROVE Together(at, body[i], body[j])
  <2>1. ~Flow(body[i][1], body[j][1])
    BY <1>7, CellIs DEF Conflict, Flow, Touched, Acc
  <2> HIDE DEF body
  <2> QED
    BY <1>1, <2>1 DEF Together, Straight
<1>8. ASSUME LengthsFit("s31111"), NEW i \in Int, 0 <= i /\ i < 8 PROVE \A p \in 1..1 : Inside(body[i][p])
  BY <1>8, Numbers, CellsDeclared DEF LengthsFit, Long, Room, Inside, Touched, Acc
<1> HIDE DEF body, at
<1>9. \A n \in 1..M : Len(body[its[n]]) = 1 /\ Ordered(at, body[its[n]])
  BY <1>4, <1>5, <1>6
<1>10. ASSUME NEW m \in 1..M, NEW n \in 1..M, m < n PROVE Together(at, body[its[m]], body[its[n]])
  <2> DEFINE i == its[m]  j == its[n]
  <2>1. i \in Int /\ j \in Int /\ i < j
    <3>1. m \in Int /\ n \in Int /\ m < n
      BY <1>2, <1>10
    <3>2. its[m] = m - 1 /\ its[n] = n - 1
      BY <1>4
    <3> QED
      BY <3>1, <3>2, Numbers
  <2> HIDE DEF i, j
  <2>2. Together(at, body[i], body[j])
    BY <1>7, <2>1
  <2> QED
    BY <2>2 DEF i, j
<1>11. ASSUME LengthsFit("s31111"), NEW n \in 1..M PROVE \A p \in 1..1 : Inside(body[its[n]][p])
  <2> DEFINE i == its[n]
  <2>1. i \in Int /\ 0 <= i /\ i < 8
    <3>1. n \in Int /\ 1 <= n /\ n <= M /\ M \in Int /\ M = 8 /\ LEN_1D >= 32
      BY <1>2, <1>11, Numbers DEF LengthsFit, Long, Room
    <3>2. its[n] = n - 1
      BY <1>4
    <3> QED
      BY <3>1, <3>2, Numbers
  <2> HIDE DEF i
  <2>2. \A p \in 1..1 : Inside(body[i][p])
    BY <1>8, <1>11, <2>1
  <2> QED
    BY <2>2 DEF i
<1>12. AnyWidth \in Int
  BY DEF AnyWidth
<1> QED
  BY <1>1, <1>2, <1>3, <1>9, <1>10, <1>11, <1>12, OrderedBy

LEMMA s3112Good == Good(s3112)
<1> DEFINE body == [i \in Int |-> <<Acc(acc, {a(i)}),
                                 Set(b(i), {acc})>>]
<1>1. \A i \in Int : Len(body[i]) = 2
  OBVIOUS
<1>2. ASSUME LengthsFit("s3112"), NEW i \in Int, 0 <= i, i < LEN_1D
      PROVE  \A p \in 1..Len(body[i]) : Inside(body[i][p])
  <2>1. Inside(body[i][1]) /\ Inside(body[i][2])
    BY <1>2, Numbers, CellsDeclared DEF LengthsFit, Long, Room, Inside, Touched, Set, Acc
  <2> QED
    BY <1>1, <2>1
<1>3. s3112 = K("s3112", None, Loop(Up(0, LEN_1D), body))
  BY DEF s3112
<1>4. 0 \in Int /\ LEN_1D \in Int
  BY Numbers
<1> HIDE DEF body
<1> QED
  BY <1>1, <1>2, <1>3, <1>4, OneLaneUp

LEMMA s3113Good == Good(s3113)
<1> DEFINE body == [i \in Int |-> <<Acc(acc, {a(i)})>>]
<1>1. \A i \in Int : body[i] \in Seq(Elements(i))
  BY DEF Acc, Elements, Own
<1>2. s3113 = K("s3113", AnyWidth, Loop(Up(0, LEN_1D), body))
  BY DEF s3113
<1>3. LEN_1D \in Int /\ LEN_1D <= LEN_1D
  BY Numbers
<1> HIDE DEF body
<1> QED
  BY <1>1, <1>2, <1>3, OwnElements

LEMMA s312Good == Good(s312)
<1> DEFINE body == [i \in Int |-> <<Acc(acc, {a(i)})>>]
<1>1. \A i \in Int : body[i] \in Seq(Elements(i))
  BY DEF Acc, Elements, Own
<1>2. s312 = K("s312", AnyWidth, Loop(Up(0, LEN_1D), body))
  BY DEF s312
<1>3. LEN_1D \in Int /\ LEN_1D <= LEN_1D
  BY Numbers
<1> HIDE DEF body
<1> QED
  BY <1>1, <1>2, <1>3, OwnElements

LEMMA s313Good == Good(s313)
<1> DEFINE body == [i \in Int |-> <<Acc(acc, {a(i), b(i)})>>]
<1>1. \A i \in Int : body[i] \in Seq(Elements(i))
  BY DEF Acc, Elements, Own
<1>2. s313 = K("s313", AnyWidth, Loop(Up(0, LEN_1D), body))
  BY DEF s313
<1>3. LEN_1D \in Int /\ LEN_1D <= LEN_1D
  BY Numbers
<1> HIDE DEF body
<1> QED
  BY <1>1, <1>2, <1>3, OwnElements

LEMMA s314Good == Good(s314)
<1> DEFINE body == [i \in Int |-> <<Acc(acc, {a(i)})>>]
<1>1. \A i \in Int : body[i] \in Seq(Elements(i))
  BY DEF Acc, Elements, Own
<1>2. s314 = K("s314", AnyWidth, Loop(Up(0, LEN_1D), body))
  BY DEF s314
<1>3. LEN_1D \in Int /\ LEN_1D <= LEN_1D
  BY Numbers
<1> HIDE DEF body
<1> QED
  BY <1>1, <1>2, <1>3, OwnElements

LEMMA s315Good == Good(s315)
<1> DEFINE A == Loop(Up(0, LEN_1D), [i \in Int |-> <<Set(a(i), {})>>])
           B == Loop(Up(0, LEN_1D), [i \in Int |-> <<Acc(acc, {a(i)})>>])
           C == <<<<Set(out("chksum"), {acc})>>>>
           nest == <<A, B, C>>
<1>0. 0 \in Int /\ LEN_1D \in Int
  BY Numbers
<1>1. SideBySide(A) /\ Lies(A)
  <2> DEFINE body == [i \in Int |-> <<Set(a(i), {})>>]
  <2>1. \A i \in Int : Len(body[i]) = 1
    OBVIOUS
  <2>2. ASSUME NEW i \in Int, NEW j \in Int, i < j PROVE ~Flow(body[i][1], body[j][1])
    BY <2>2 DEF Flow, Set
  <2>3. ASSUME NEW i \in Int, 0 <= i, i < LEN_1D PROVE Inside(body[i][1])
    BY <2>3, CellsDeclared DEF Inside, Touched, Set
  <2>4. A = Loop(Up(0, LEN_1D), body)
    OBVIOUS
  <2> HIDE DEF body, A
  <2> QED
    BY <1>0, <2>1, <2>2, <2>3, <2>4, OneSide, OneLies
<1>2. SideBySide(B) /\ Lies(B)
  <2> DEFINE body == [i \in Int |-> <<Acc(acc, {a(i)})>>]
  <2>1. \A i \in Int : Len(body[i]) = 1
    OBVIOUS
  <2>2. ASSUME NEW i \in Int, NEW j \in Int, i < j PROVE ~Flow(body[i][1], body[j][1])
    BY <2>2, CellIs DEF Flow, Acc
  <2>3. ASSUME NEW i \in Int, 0 <= i, i < LEN_1D PROVE Inside(body[i][1])
    BY <2>3, CellsDeclared DEF Inside, Touched, Acc
  <2>4. B = Loop(Up(0, LEN_1D), body)
    OBVIOUS
  <2> HIDE DEF body, B
  <2> QED
    BY <1>0, <2>1, <2>2, <2>3, <2>4, OneSide, OneLies
<1>3. SideBySide(C) /\ Lies(C)
  BY ChecksumIs
<1>4. s315 = K2("s315", AnyWidth, nest)
  BY DEF s315
<1> HIDE DEF A, B, C
<1>5. Len(nest) = 3 /\ nest[1] = A /\ nest[2] = B /\ nest[3] = C
  OBVIOUS
<1> HIDE DEF nest
<1>6. \A l \in 1..Len(nest) : SideBySide(nest[l]) /\ Lies(nest[l])
  BY <1>1, <1>2, <1>3, <1>5
<1> QED
  BY <1>4, <1>5, <1>6, StraightNest

LEMMA s316Good == Good(s316)
<1> DEFINE body == [i \in Int |-> <<Acc(acc, {a(i)})>>]
<1>1. \A i \in Int : body[i] \in Seq(Elements(i))
  BY DEF Acc, Elements, Own
<1>2. s316 = K("s316", AnyWidth, Loop(Up(1, LEN_1D), body))
  BY DEF s316
<1>3. LEN_1D \in Int /\ LEN_1D <= LEN_1D
  BY Numbers
<1> HIDE DEF body
<1> QED
  BY <1>1, <1>2, <1>3, OwnElements

LEMMA s317Good == Good(s317)
<1> DEFINE body == [i \in Int |-> <<Acc(acc, {})>>]
<1>1. \A i \in Int : body[i] \in Seq(Elements(i))
  BY DEF Acc, Elements, Own
<1>2. s317 = K("s317", AnyWidth, Loop(Up(0, LEN_1D \div 2), body))
  BY DEF s317
<1>3. LEN_1D \div 2 \in Int /\ LEN_1D \div 2 <= LEN_1D
  BY Numbers
<1> HIDE DEF body
<1> QED
  BY <1>1, <1>2, <1>3, OwnElements

LEMMA s318Good == Good(s318)
<1> DEFINE B == Loop(Up(1, LEN_1D), [i \in Int |-> <<Acc(acc, {a(i)})>>])
           C == <<<<Set(out("chksum"), {acc})>>>>
           nest == <<B, C>>
<1>0. 1 \in Int /\ LEN_1D \in Int
  BY Numbers
<1>1. SideBySide(B) /\ Lies(B)
  <2> DEFINE body == [i \in Int |-> <<Acc(acc, {a(i)})>>]
  <2>1. \A i \in Int : Len(body[i]) = 1
    OBVIOUS
  <2>2. ASSUME NEW i \in Int, NEW j \in Int, i < j PROVE ~Flow(body[i][1], body[j][1])
    BY <2>2, CellIs DEF Flow, Acc
  <2>3. ASSUME NEW i \in Int, 1 <= i, i < LEN_1D PROVE Inside(body[i][1])
    BY <2>3, CellsDeclared DEF Inside, Touched, Acc
  <2>4. B = Loop(Up(1, LEN_1D), body)
    OBVIOUS
  <2> HIDE DEF body, B
  <2> QED
    BY <1>0, <2>1, <2>2, <2>3, <2>4, OneSide, OneLies
<1>2. SideBySide(C) /\ Lies(C)
  BY ChecksumIs
<1>3. s318 = K2("s318", AnyWidth, nest)
  BY DEF s318
<1> HIDE DEF B, C
<1>4. Len(nest) = 2 /\ nest[1] = B /\ nest[2] = C
  OBVIOUS
<1> HIDE DEF nest
<1>5. \A l \in 1..Len(nest) : SideBySide(nest[l]) /\ Lies(nest[l])
  BY <1>1, <1>2, <1>4
<1> QED
  BY <1>3, <1>4, <1>5, StraightNest

LEMMA s319Good == Good(s319)
<1> DEFINE body == [i \in Int |-> <<Set(a(i), {c(i), d(i)}), Acc(acc, {a(i)}), Set(b(i), {c(i), e(i)}), Acc(acc, {b(i)})>>]
<1>1. \A i \in Int : body[i] \in Seq(Elements(i))
  BY DEF Set, Acc, Elements, Own
<1>2. s319 = K("s319", AnyWidth, Loop(Up(0, LEN_1D), body))
  BY DEF s319
<1>3. LEN_1D \in Int /\ LEN_1D <= LEN_1D
  BY Numbers
<1> HIDE DEF body
<1> QED
  BY <1>1, <1>2, <1>3, OwnElements

LEMMA s321Good == Good(s321)
<1> DEFINE body == [i \in Int |-> <<Set(a(i), {a(i), a(i - 1), b(i)})>>]
<1>1. \A i \in Int : Len(body[i]) = 1
  OBVIOUS
<1>2. ASSUME LengthsFit("s321"), NEW i \in Int, 1 <= i, i < LEN_1D
      PROVE  \A p \in 1..Len(body[i]) : Inside(body[i][p])
  <2>1. Inside(body[i][1])
    BY <1>2, Numbers, CellsDeclared DEF LengthsFit, Long, Room, Inside, Touched, Set
  <2> QED
    BY <1>1, <2>1
<1>3. s321 = K("s321", None, Loop(Up(1, LEN_1D), body))
  BY DEF s321
<1>4. 1 \in Int /\ LEN_1D \in Int
  BY Numbers
<1> HIDE DEF body
<1> QED
  BY <1>1, <1>2, <1>3, <1>4, OneLaneUp

LEMMA s322Good == Good(s322)
<1> DEFINE body == [i \in Int |-> <<Set(a(i), {a(i), a(i - 1), b(i), a(i - 2), c(i)})>>]
<1>1. \A i \in Int : Len(body[i]) = 1
  OBVIOUS
<1>2. ASSUME LengthsFit("s322"), NEW i \in Int, 2 <= i, i < LEN_1D
      PROVE  \A p \in 1..Len(body[i]) : Inside(body[i][p])
  <2>1. Inside(body[i][1])
    BY <1>2, Numbers, CellsDeclared DEF LengthsFit, Long, Room, Inside, Touched, Set
  <2> QED
    BY <1>1, <2>1
<1>3. s322 = K("s322", None, Loop(Up(2, LEN_1D), body))
  BY DEF s322
<1>4. 2 \in Int /\ LEN_1D \in Int
  BY Numbers
<1> HIDE DEF body
<1> QED
  BY <1>1, <1>2, <1>3, <1>4, OneLaneUp

LEMMA s323Good == Good(s323)
<1> DEFINE body == [i \in Int |-> <<Set(a(i), {b(i - 1), c(i), d(i)}),
                                 Set(b(i), {a(i), c(i), e(i)})>>]
<1>1. \A i \in Int : Len(body[i]) = 2
  OBVIOUS
<1>2. ASSUME LengthsFit("s323"), NEW i \in Int, 1 <= i, i < LEN_1D
      PROVE  \A p \in 1..Len(body[i]) : Inside(body[i][p])
  <2>1. Inside(body[i][1]) /\ Inside(body[i][2])
    BY <1>2, Numbers, CellsDeclared DEF LengthsFit, Long, Room, Inside, Touched, Set
  <2> QED
    BY <1>1, <2>1
<1>3. s323 = K("s323", None, Loop(Up(1, LEN_1D), body))
  BY DEF s323
<1>4. 1 \in Int /\ LEN_1D \in Int
  BY Numbers
<1> HIDE DEF body
<1> QED
  BY <1>1, <1>2, <1>3, <1>4, OneLaneUp

LEMMA s351Good == Good(s351)
<1> DEFINE body == [i \in Int |-> [n \in 1..5 |-> Set(a(i + n - 1), {a(i + n - 1), b(i + n - 1), c(0)})]]
           M == (LEN_1D - 0 + 5 - 1) \div 5
           its == [n \in 1..M |-> 0 + (n - 1) * 5]
           at == Straight(5)
<1>1. DOMAIN at = 1..5 /\ OrderIs(<<>>, at, 5)
  BY DEF OrderIs, Straight
<1>2. M \in Int /\ (LEN_1D % 5 = 0 => 5 * M = LEN_1D) /\ its = [n \in 1..M |-> its[n]]
  BY Numbers
<1>3. s351 = Kernel("s351", AnyWidth, <<Loop(its, body)>>, <<>>, {}, FALSE)
  BY DEF s351, K, K2, Steps
<1> HIDE DEF M
<1>4. \A n \in 1..M : its[n] = 5 * n - 5 /\ its[n] \in Int
  BY <1>2, Numbers
<1> HIDE DEF its
<1>5. \A i \in Int : Len(body[i]) = 5
  BY LenOfNat
<1>6. ASSUME NEW i \in Int PROVE Ordered(at, body[i])
  BY <1>1 DEF Ordered, Straight
<1>7. ASSUME NEW i \in Int, NEW j \in Int, i + 4 < j PROVE Together(at, body[i], body[j])
  <2>1. ASSUME NEW p \in 1..5, NEW q \in 1..5 PROVE ~Conflict(body[i][p], body[j][q])
    <3>1. /\ body[i][p] = Set(a(i + p - 1), {a(i + p - 1), b(i + p - 1), c(0)})
          /\ body[j][q] = Set(a(j + q - 1), {a(j + q - 1), b(j + q - 1), c(0)})
      OBVIOUS
    <3> HIDE DEF body
    <3>2. p \in Int /\ q \in Int /\ i + p - 1 < j + q - 1
      BY <1>7
    <3> QED
      BY <3>1, <3>2, CellIs DEF Conflict, Touched, Set
  <2> HIDE DEF body
  <2> QED
    BY <1>1, <2>1 DEF Together
<1>8. ASSUME LengthsFit("s351"), NEW i \in Int, 0 <= i /\ i + 4 < LEN_1D PROVE \A p \in 1..5 : Inside(body[i][p])
  BY <1>8, Numbers, CellsDeclared DEF LengthsFit, Long, Room, Inside, Touched, Set
<1> HIDE DEF body, at
<1>9. \A n \in 1..M : Len(body[its[n]]) = 5 /\ Ordered(at, body[its[n]])
  BY <1>4, <1>5, <1>6
<1>10. ASSUME NEW m \in 1..M, NEW n \in 1..M, m < n PROVE Together(at, body[its[m]], body[its[n]])
  <2> DEFINE i == its[m]  j == its[n]
  <2>1. i \in Int /\ j \in Int /\ i + 4 < j
    <3>1. m \in Int /\ n \in Int /\ m < n
      BY <1>2, <1>10
    <3>2. its[m] = 5 * m - 5 /\ its[n] = 5 * n - 5
      BY <1>4
    <3> QED
      BY <3>1, <3>2, Numbers
  <2> HIDE DEF i, j
  <2>2. Together(at, body[i], body[j])
    BY <1>7, <2>1
  <2> QED
    BY <2>2 DEF i, j
<1>11. ASSUME LengthsFit("s351"), NEW n \in 1..M PROVE \A p \in 1..5 : Inside(body[its[n]][p])
  <2> DEFINE i == its[n]
  <2>1. i \in Int /\ 0 <= i /\ i + 4 < LEN_1D
    <3>1. n \in Int /\ 1 <= n /\ n <= M /\ M \in Int /\ 5 * M = LEN_1D
      BY <1>2, <1>11, Numbers DEF LengthsFit, Long, Room
    <3>2. its[n] = 5 * n - 5
      BY <1>4
    <3> QED
      BY <3>1, <3>2, Numbers
  <2> HIDE DEF i
  <2>2. \A p \in 1..5 : Inside(body[i][p])
    BY <1>8, <1>11, <2>1
  <2> QED
    BY <2>2 DEF i
<1>12. AnyWidth \in Int
  BY DEF AnyWidth
<1> QED
  BY <1>1, <1>2, <1>3, <1>9, <1>10, <1>11, <1>12, OrderedBy

LEMMA s352Good == Good(s352)
<1> DEFINE body == [i \in Int |-> <<Acc(acc, {a(n) : n \in Five(i)} \cup {b(n) : n \in Five(i)})>>]
           M == (LEN_1D - 0 + 5 - 1) \div 5
           its == [n \in 1..M |-> 0 + (n - 1) * 5]
           at == Straight(1)
<1>1. DOMAIN at = 1..1 /\ OrderIs(<<>>, at, 1)
  BY DEF OrderIs, Straight
<1>2. M \in Int /\ (LEN_1D % 5 = 0 => 5 * M = LEN_1D) /\ its = [n \in 1..M |-> its[n]]
  BY Numbers
<1>3. s352 = Kernel("s352", AnyWidth, <<Loop(its, body)>>, <<>>, {}, FALSE)
  BY DEF s352, K, K2, Steps
<1> HIDE DEF M
<1>4. \A n \in 1..M : its[n] = 5 * n - 5 /\ its[n] \in Int
  BY <1>2, Numbers
<1> HIDE DEF its
<1>5. \A i \in Int : Len(body[i]) = 1
  OBVIOUS
<1>6. ASSUME NEW i \in Int PROVE Ordered(at, body[i])
  BY <1>1 DEF Ordered, Straight
<1>7. ASSUME NEW i \in Int, NEW j \in Int, i + 4 < j PROVE Together(at, body[i], body[j])
  <2>0. \A cell \in body[j][1].r : cell[1] # "acc"
    BY CellIs DEF Acc
  <2>1. ~Flow(body[i][1], body[j][1])
    BY <2>0, CellIs DEF Flow, Acc
  <2> HIDE DEF body
  <2> QED
    BY <1>1, <2>1 DEF Together, Straight
<1>8. ASSUME LengthsFit("s352"), NEW i \in Int, 0 <= i /\ i + 4 < LEN_1D PROVE \A p \in 1..1 : Inside(body[i][p])
  BY <1>8, Numbers, CellsDeclared DEF LengthsFit, Long, Room, Inside, Touched, Acc, Five
<1> HIDE DEF body, at
<1>9. \A n \in 1..M : Len(body[its[n]]) = 1 /\ Ordered(at, body[its[n]])
  BY <1>4, <1>5, <1>6
<1>10. ASSUME NEW m \in 1..M, NEW n \in 1..M, m < n PROVE Together(at, body[its[m]], body[its[n]])
  <2> DEFINE i == its[m]  j == its[n]
  <2>1. i \in Int /\ j \in Int /\ i + 4 < j
    <3>1. m \in Int /\ n \in Int /\ m < n
      BY <1>2, <1>10
    <3>2. its[m] = 5 * m - 5 /\ its[n] = 5 * n - 5
      BY <1>4
    <3> QED
      BY <3>1, <3>2, Numbers
  <2> HIDE DEF i, j
  <2>2. Together(at, body[i], body[j])
    BY <1>7, <2>1
  <2> QED
    BY <2>2 DEF i, j
<1>11. ASSUME LengthsFit("s352"), NEW n \in 1..M PROVE \A p \in 1..1 : Inside(body[its[n]][p])
  <2> DEFINE i == its[n]
  <2>1. i \in Int /\ 0 <= i /\ i + 4 < LEN_1D
    <3>1. n \in Int /\ 1 <= n /\ n <= M /\ M \in Int /\ 5 * M = LEN_1D
      BY <1>2, <1>11, Numbers DEF LengthsFit, Long, Room
    <3>2. its[n] = 5 * n - 5
      BY <1>4
    <3> QED
      BY <3>1, <3>2, Numbers
  <2> HIDE DEF i
  <2>2. \A p \in 1..1 : Inside(body[i][p])
    BY <1>8, <1>11, <2>1
  <2> QED
    BY <2>2 DEF i
<1>12. AnyWidth \in Int
  BY DEF AnyWidth
<1> QED
  BY <1>1, <1>2, <1>3, <1>9, <1>10, <1>11, <1>12, OrderedBy

LEMMA s353Good == Good(s353)
<1> DEFINE body == [i \in Int |-> [n \in 1..5 |-> Set(a(i + n - 1), {a(i + n - 1), b(ip(i + n - 1)), c(0)})]]
           M == (LEN_1D - 0 + 5 - 1) \div 5
           its == [n \in 1..M |-> 0 + (n - 1) * 5]
           at == Straight(5)
<1>1. DOMAIN at = 1..5 /\ OrderIs(<<>>, at, 5)
  BY DEF OrderIs, Straight
<1>2. M \in Int /\ (LEN_1D % 5 = 0 => 5 * M = LEN_1D) /\ its = [n \in 1..M |-> its[n]]
  BY Numbers
<1>3. s353 = Kernel("s353", AnyWidth, <<Loop(its, body)>>, <<>>, {}, FALSE)
  BY DEF s353, K, K2, Steps
<1> HIDE DEF M
<1>4. \A n \in 1..M : its[n] = 5 * n - 5 /\ its[n] \in Int
  BY <1>2, Numbers
<1> HIDE DEF its
<1>5. \A i \in Int : Len(body[i]) = 5
  BY LenOfNat
<1>6. ASSUME NEW i \in Int PROVE Ordered(at, body[i])
  BY <1>1 DEF Ordered, Straight
<1>7. ASSUME NEW i \in Int, NEW j \in Int, i + 4 < j PROVE Together(at, body[i], body[j])
  <2>1. ASSUME NEW p \in 1..5, NEW q \in 1..5 PROVE ~Conflict(body[i][p], body[j][q])
    <3>1. /\ body[i][p] = Set(a(i + p - 1), {a(i + p - 1), b(ip(i + p - 1)), c(0)})
          /\ body[j][q] = Set(a(j + q - 1), {a(j + q - 1), b(ip(j + q - 1)), c(0)})
      OBVIOUS
    <3> HIDE DEF body
    <3>2. p \in Int /\ q \in Int /\ i + p - 1 < j + q - 1
      BY <1>7
    <3> QED
      BY <3>1, <3>2, CellIs DEF Conflict, Touched, Set
  <2> HIDE DEF body
  <2> QED
    BY <1>1, <2>1 DEF Together
<1>8. ASSUME LengthsFit("s353"), NEW i \in Int, 0 <= i /\ i + 4 < LEN_1D PROVE \A p \in 1..5 : Inside(body[i][p])
  BY <1>8, Numbers, CellsDeclared, IndexIs DEF LengthsFit, Long, Room, Inside, Touched, Set
<1> HIDE DEF body, at
<1>9. \A n \in 1..M : Len(body[its[n]]) = 5 /\ Ordered(at, body[its[n]])
  BY <1>4, <1>5, <1>6
<1>10. ASSUME NEW m \in 1..M, NEW n \in 1..M, m < n PROVE Together(at, body[its[m]], body[its[n]])
  <2> DEFINE i == its[m]  j == its[n]
  <2>1. i \in Int /\ j \in Int /\ i + 4 < j
    <3>1. m \in Int /\ n \in Int /\ m < n
      BY <1>2, <1>10
    <3>2. its[m] = 5 * m - 5 /\ its[n] = 5 * n - 5
      BY <1>4
    <3> QED
      BY <3>1, <3>2, Numbers
  <2> HIDE DEF i, j
  <2>2. Together(at, body[i], body[j])
    BY <1>7, <2>1
  <2> QED
    BY <2>2 DEF i, j
<1>11. ASSUME LengthsFit("s353"), NEW n \in 1..M PROVE \A p \in 1..5 : Inside(body[its[n]][p])
  <2> DEFINE i == its[n]
  <2>1. i \in Int /\ 0 <= i /\ i + 4 < LEN_1D
    <3>1. n \in Int /\ 1 <= n /\ n <= M /\ M \in Int /\ 5 * M = LEN_1D
      BY <1>2, <1>11, Numbers DEF LengthsFit, Long, Room
    <3>2. its[n] = 5 * n - 5
      BY <1>4
    <3> QED
      BY <3>1, <3>2, Numbers
  <2> HIDE DEF i
  <2>2. \A p \in 1..5 : Inside(body[i][p])
    BY <1>8, <1>11, <2>1
  <2> QED
    BY <2>2 DEF i
<1>12. AnyWidth \in Int
  BY DEF AnyWidth
<1> QED
  BY <1>1, <1>2, <1>3, <1>9, <1>10, <1>11, <1>12, OrderedBy

LEMMA s4112Good == Good(s4112)
<1> DEFINE body == [i \in Int |-> <<Set(a(i), {a(i), b(indx(i))})>>]
<1>1. \A i \in Int : Len(body[i]) = 1
  OBVIOUS
<1>2. ASSUME NEW i \in Int, NEW j \in Int, 0 <= i, i < j, j < LEN_1D
      PROVE  ~Flow(body[i][1], body[j][1])
  BY <1>2 DEF Flow, Set, a, b
<1>3. ASSUME LengthsFit("s4112"), NEW i \in Int, 0 <= i, i < LEN_1D
      PROVE  Inside(body[i][1])
  BY <1>3, Numbers, CellsDeclared, IndexIs DEF LengthsFit, Long, Room, Inside, Touched, Set
<1>4. s4112 = K("s4112", AnyWidth, Loop(Up(0, LEN_1D), body))
  BY DEF s4112
<1>5. 0 \in Int /\ LEN_1D \in Int
  BY Numbers
<1> HIDE DEF body
<1> QED
  BY <1>1, <1>2, <1>3, <1>4, <1>5, OneStatement

LEMMA s4113Good == Good(s4113)
<1> DEFINE body == [i \in Int |-> <<Set(a(ip(i)), {b(ip(i)), c(i)})>>]
<1>1. \A i \in Int : Len(body[i]) = 1
  OBVIOUS
<1>2. ASSUME NEW i \in Int, NEW j \in Int, 0 <= i, i < j, j < LEN_1D
      PROVE  ~Flow(body[i][1], body[j][1])
  BY <1>2 DEF Flow, Set, a, b, c
<1>3. ASSUME LengthsFit("s4113"), NEW i \in Int, 0 <= i, i < LEN_1D
      PROVE  Inside(body[i][1])
  BY <1>3, Numbers, CellsDeclared, IndexIs DEF LengthsFit, Long, Room, Inside, Touched, Set
<1>4. s4113 = K("s4113", AnyWidth, Loop(Up(0, LEN_1D), body))
  BY DEF s4113
<1>5. 0 \in Int /\ LEN_1D \in Int
  BY Numbers
<1> HIDE DEF body
<1> QED
  BY <1>1, <1>2, <1>3, <1>4, <1>5, OneStatement

LEMMA s4114Good == Good(s4114)
<1> DEFINE body == [i \in Int |-> <<Set(a(i), {b(i), c(LEN_1D - ip(i) + 1 - 2), d(i)})>>]
<1>1. \A i \in Int : Len(body[i]) = 1
  OBVIOUS
<1>2. ASSUME NEW i \in Int, NEW j \in Int, 0 <= i, i < j, j < LEN_1D
      PROVE  ~Flow(body[i][1], body[j][1])
  BY <1>2 DEF Flow, Set, a, b, c, d
<1>3. ASSUME LengthsFit("s4114"), NEW i \in Int, 0 <= i, i < LEN_1D
      PROVE  Inside(body[i][1])
  BY <1>3, Numbers, CellsDeclared, IndexIs DEF LengthsFit, Long, Room, Inside, Touched, Set
<1>4. s4114 = K("s4114", AnyWidth, Loop(Up(0, LEN_1D), body))
  BY DEF s4114
<1>5. 0 \in Int /\ LEN_1D \in Int
  BY Numbers
<1> HIDE DEF body
<1> QED
  BY <1>1, <1>2, <1>3, <1>4, <1>5, OneStatement

LEMMA s4115Good == Good(s4115)
<1> DEFINE body == [i \in Int |-> <<Acc(acc, {a(i), b(ip(i))})>>]
<1>1. \A i \in Int : Len(body[i]) = 1
  OBVIOUS
<1>2. ASSUME NEW i \in Int, NEW j \in Int, 0 <= i, i < j, j < LEN_1D
      PROVE  ~Flow(body[i][1], body[j][1])
  BY <1>2 DEF Flow, Acc, a, b, acc
<1>3. ASSUME LengthsFit("s4115"), NEW i \in Int, 0 <= i, i < LEN_1D
      PROVE  Inside(body[i][1])
  BY <1>3, Numbers, CellsDeclared, IndexIs DEF LengthsFit, Long, Room, Inside, Touched, Acc
<1>4. s4115 = K("s4115", AnyWidth, Loop(Up(0, LEN_1D), body))
  BY DEF s4115
<1>5. 0 \in Int /\ LEN_1D \in Int
  BY Numbers
<1> HIDE DEF body
<1> QED
  BY <1>1, <1>2, <1>3, <1>4, <1>5, OneStatement

LEMMA s4116Good == Good(s4116)
<1> DEFINE body == [i \in Int |-> <<Acc(acc, {a(i + 1), aa(LEN_2D \div 2 - 1, ip(i))})>>]
<1>1. \A i \in Int : Len(body[i]) = 1
  OBVIOUS
<1>2. ASSUME NEW i \in Int, NEW j \in Int, 0 <= i, i < j, j < LEN_2D - 1
      PROVE  ~Flow(body[i][1], body[j][1])
  BY <1>2 DEF Flow, Acc, a, aa, acc
<1>3. ASSUME LengthsFit("s4116"), NEW i \in Int, 0 <= i, i < LEN_2D - 1
      PROVE  Inside(body[i][1])
  BY <1>3, Numbers, CellsDeclared, IndexIs DEF LengthsFit, Long, Room, Inside, Touched, Acc
<1>4. s4116 = K("s4116", AnyWidth, Loop(Up(0, LEN_2D - 1), body))
  BY DEF s4116
<1>5. 0 \in Int /\ LEN_2D - 1 \in Int
  BY Numbers
<1> HIDE DEF body
<1> QED
  BY <1>1, <1>2, <1>3, <1>4, <1>5, OneStatement

LEMMA s4117Good == Good(s4117)
<1> DEFINE body == [i \in Int |-> <<Set(a(i), {b(i), c(i \div 2), d(i)})>>]
<1>1. \A i \in Int : Len(body[i]) = 1
  OBVIOUS
<1>2. ASSUME NEW i \in Int, NEW j \in Int, 0 <= i, i < j, j < LEN_1D
      PROVE  ~Flow(body[i][1], body[j][1])
  BY <1>2 DEF Flow, Set, a, b, c, d
<1>3. ASSUME LengthsFit("s4117"), NEW i \in Int, 0 <= i, i < LEN_1D
      PROVE  Inside(body[i][1])
  BY <1>3, Numbers, CellsDeclared DEF Inside, Touched, Set
<1>4. s4117 = K("s4117", AnyWidth, Loop(Up(0, LEN_1D), body))
  BY DEF s4117
<1>5. 0 \in Int /\ LEN_1D \in Int
  BY Numbers
<1> HIDE DEF body
<1> QED
  BY <1>1, <1>2, <1>3, <1>4, <1>5, OneStatement

LEMMA s4121Good == Good(s4121)
<1> DEFINE body == [i \in Int |-> <<Set(a(i), {a(i), b(i), c(i)})>>]
<1>1. \A i \in Int : body[i] \in Seq(Elements(i))
  BY DEF Set, Elements, Own
<1>2. s4121 = K("s4121", AnyWidth, Loop(Up(0, LEN_1D), body))
  BY DEF s4121
<1>3. LEN_1D \in Int /\ LEN_1D <= LEN_1D
  BY Numbers
<1> HIDE DEF body
<1> QED
  BY <1>1, <1>2, <1>3, OwnElements

LEMMA s451Good == Good(s451)
<1> DEFINE body == [i \in Int |-> <<Set(a(i), {b(i), c(i)})>>]
<1>1. \A i \in Int : body[i] \in Seq(Elements(i))
  BY DEF Set, Elements, Own
<1>2. s451 = K("s451", AnyWidth, Loop(Up(0, LEN_1D), body))
  BY DEF s451
<1>3. LEN_1D \in Int /\ LEN_1D <= LEN_1D
  BY Numbers
<1> HIDE DEF body
<1> QED
  BY <1>1, <1>2, <1>3, OwnElements

LEMMA s452Good == Good(s452)
<1> DEFINE body == [i \in Int |-> <<Set(a(i), {b(i), c(i)})>>]
<1>1. \A i \in Int : body[i] \in Seq(Elements(i))
  BY DEF Set, Elements, Own
<1>2. s452 = K("s452", AnyWidth, Loop(Up(0, LEN_1D), body))
  BY DEF s452
<1>3. LEN_1D \in Int /\ LEN_1D <= LEN_1D
  BY Numbers
<1> HIDE DEF body
<1> QED
  BY <1>1, <1>2, <1>3, OwnElements

LEMMA s453Good == Good(s453)
<1> DEFINE body == [i \in Int |-> <<Set(a(i), {b(i)})>>]
<1>1. \A i \in Int : body[i] \in Seq(Elements(i))
  BY DEF Set, Elements, Own
<1>2. s453 = K("s453", AnyWidth, Loop(Up(0, LEN_1D), body))
  BY DEF s453
<1>3. LEN_1D \in Int /\ LEN_1D <= LEN_1D
  BY Numbers
<1> HIDE DEF body
<1> QED
  BY <1>1, <1>2, <1>3, OwnElements

LEMMA s471Good == Good(s471)
<1> DEFINE body == [i \in Int |-> <<Set(x(i), {b(i), d(i)}), Set(b(i), {c(i), d(i), e(i)})>>]
<1>1. \A i \in Int : body[i] \in Seq(Elements(i))
  BY DEF Set, Elements, Own
<1>2. s471 = K("s471", AnyWidth, Loop(Up(0, LEN_1D), body))
  BY DEF s471
<1>3. LEN_1D \in Int /\ LEN_1D <= LEN_1D
  BY Numbers
<1> HIDE DEF body
<1> QED
  BY <1>1, <1>2, <1>3, OwnElements

LEMMA s491Good == Good(s491)
<1> DEFINE body == [i \in Int |-> <<Set(a(ip(i)), {b(i), c(i), d(i)})>>]
<1>1. \A i \in Int : Len(body[i]) = 1
  OBVIOUS
<1>2. ASSUME NEW i \in Int, NEW j \in Int, 0 <= i, i < j, j < LEN_1D
      PROVE  ~Flow(body[i][1], body[j][1])
  BY <1>2 DEF Flow, Set, a, b, c, d
<1>3. ASSUME LengthsFit("s491"), NEW i \in Int, 0 <= i, i < LEN_1D
      PROVE  Inside(body[i][1])
  BY <1>3, Numbers, CellsDeclared, IndexIs DEF LengthsFit, Long, Room, Inside, Touched, Set
<1>4. s491 = K("s491", AnyWidth, Loop(Up(0, LEN_1D), body))
  BY DEF s491
<1>5. 0 \in Int /\ LEN_1D \in Int
  BY Numbers
<1> HIDE DEF body
<1> QED
  BY <1>1, <1>2, <1>3, <1>4, <1>5, OneStatement

LEMMA ReduceGood == \A k \in Reduce : Good(k)
BY s311Good, s3110Good, s31111Good, s3112Good, s3113Good, s312Good, s313Good, s314Good, s315Good,
   s316Good, s317Good, s318Good, s319Good, s321Good, s322Good, s323Good, s351Good, s352Good,
   s353Good, s4112Good, s4113Good, s4114Good, s4115Good, s4116Good, s4117Good, s4121Good, s451Good,
   s452Good, s453Good, s471Good, s491Good
   DEF Reduce

LEMMA ReduceIfGood == ASSUME NEW m PROVE \A k \in ReduceIf(m) : Good(k)
BY s3111Good
   DEF ReduceIf

-----------------------------------------------------------------------------
(* All of them. *)

LEMMA PlainGood == \A k \in Plain : Good(k)
BY DependenceGood, TransformGood, ControlGood, ReduceGood DEF Plain

LEMMA UnderGood == ASSUME NEW n PROVE \A k \in Under(n) : Good(k)
BY DependenceIfGood, TransformIfGood, ControlIfGood, ReduceIfGood DEF Under

LEMMA KernelIs ==
    ASSUME NEW id \in DOMAIN Kernels
    PROVE  \E n \in 0..Len(Masks) : Kernels[id] \in KernelsOf(n) /\ Kernels[id].name = id[1]
<1> DEFINE All == UNION {{<<k, n>> : k \in KernelsOf(n)} : n \in 0..Len(Masks)}
<1>1. Kernels = ByName(All)
  BY DEF Kernels
<1>2. \A p \in All : p[2] \in 0..Len(Masks) /\ p[1] \in KernelsOf(p[2])
  OBVIOUS
<1> HIDE DEF All
<1>3. \E p \in All : <<p[1].name, p[2]>> = id
  BY <1>1 DEF ByName
<1>4. Kernels[id] = (CHOOSE p \in All : <<p[1].name, p[2]>> = id)[1]
  BY <1>1 DEF ByName
<1>5. PICK p \in All : <<p[1].name, p[2]>> = id /\ Kernels[id] = p[1]
  BY <1>3, <1>4
<1>6. p[1].name = id[1]
  BY <1>5
<1> QED
  BY <1>2, <1>5, <1>6

LEMMA EveryKernel ==
    ASSUME NEW id \in DOMAIN Kernels
    PROVE  Good(Kernels[id]) /\ Kernels[id].name = id[1]
<1>1. PICK n \in 0..Len(Masks) : Kernels[id] \in KernelsOf(n) /\ Kernels[id].name = id[1]
  BY KernelIs
<1> QED
  BY <1>1, PlainGood, UnderGood DEF KernelsOf

\* Every kernel of TSVC, whatever its conditions, runs in chunks of lanes up to
\* the width its comment promises with no lane reading a stale value, and leaves
\* the arrays as its loop does: for all lengths of the arrays and all widths
\* (up to AnyWidth, which stands for no limit).
THEOREM KernelsAreVectorizable == Spec => []Vectorizable
<1>1. EverySound
  BY EveryKernel DEF EverySound, Ids, Good
<1> QED
  BY <1>1, SoundIsEnough

\* The cells of a run are those of its kernel.
Running == kernel \in Ids /\ DOMAIN mem = Cells(This)

LEMMA RunningInit == Init => Running
BY DEF Init, Running, This

LEMMA RunningNext == Running /\ [Next]_vars => Running'
<1> SUFFICES ASSUME Running, [Next]_vars
             PROVE  Running'
  OBVIOUS
<1>1. CASE VectorInstruction
  BY <1>1 DEF VectorInstruction, Store, After, Running, This
<1>2. CASE NextChunk
  BY <1>2 DEF NextChunk, Running, This
<1>3. CASE NextTurn
  BY <1>3 DEF NextTurn, Running, This
<1>4. CASE UNCHANGED vars
  BY <1>4 DEF vars, Running, This
<1> QED
  BY <1>1, <1>2, <1>3, <1>4 DEF Next, Terminated

-----------------------------------------------------------------------------
(* The kernels that may leave the arrays, and that they do where their      *)
(* lengths do not fit.                                                      *)

Tight == {"s31111", "s351", "s352", "s353", "s422", "s423", "s424"}
Loose(k) == k.name \notin Tight
Leaves(k) == \E cell \in Cells(k) : ~Declared(cell)

LEMMA NameOf ==
    ASSUME NEW name, NEW widths, NEW loop, NEW order
    PROVE  /\ K(name, widths, loop).name = name /\ K2(name, widths, loop).name = name
           /\ Reordered(name, widths, loop, order).name = name /\ Cut(name, widths, loop, order).name = name
           /\ Swapped(name, widths, loop).name = name
BY DEF K, K2, Kernel, Reordered, Cut, Swapped

LEMMA LooseK ==
    ASSUME NEW name, name \notin Tight
    PROVE  /\ \A widths, loop : Loose(K(name, widths, loop)) /\ Loose(K2(name, widths, loop)) /\ Loose(Swapped(name, widths, loop))
           /\ \A widths, loop, rest : Loose(Reordered(name, widths, loop, rest)) /\ Loose(Cut(name, widths, loop, rest))
BY NameOf DEF Loose

LEMMA DependenceNames == \A k \in Dependence : Loose(k) \/ k \in {s422, s423, s424}
<1>1. \A k \in {s000, s111, s1111, s1112, s1113, s1115, s1119, s112, s113, s114} : Loose(k)
  BY LooseK DEF Tight, s000, s111, s1111, s1112, s1113, s1115, s1119, s112, s113, s114
<1>2. \A k \in {s115, s116, s118, s119, s121, s122, s1221, s125, s126, s127} : Loose(k)
  BY LooseK DEF Tight, s115, s116, s118, s119, s121, s122, s1221, s125, s126, s127
<1>3. \A k \in {s128, s131, s132, s1351, s141, s1421, s151, s152, s162, s171} : Loose(k)
  BY LooseK DEF Tight, s128, s131, s132, s1351, s141, s1421, s151, s152, s162, s171
<1>4. \A k \in {s172, s173, s174, s175, s176, s2101, s421, s431} : Loose(k)
  BY LooseK DEF Tight, s172, s173, s174, s175, s176, s2101, s421, s431
<1> QED
  BY <1>1, <1>2, <1>3, <1>4 DEF Dependence

LEMMA DependenceIfNames == ASSUME NEW m PROVE \A k \in DependenceIf(m) : Loose(k)
<1>1. \A k \in {s123(m), s124(m), s161(m), s1161(m)} : Loose(k)
  BY LooseK DEF Tight, s123, s124, s161, s1161
<1> QED
  BY <1>1 DEF DependenceIf

LEMMA TransformNames == \A k \in Transform : Loose(k)
<1>1. \A k \in {s2102, s211, s2111, s212, s1213, s221, s222, s2233, s2244, s1244} : Loose(k)
  BY LooseK DEF Tight, s2102, s211, s2111, s212, s1213, s221, s222, s2233, s2244, s1244
<1>2. \A k \in {s2251, s1251, s2275, s231, s232, s1232, s233, s235, s241, s242} : Loose(k)
  BY LooseK DEF Tight, s2251, s1251, s2275, s231, s232, s1232, s233, s235, s241, s242
<1>3. \A k \in {s243, s244, s251, s252, s254, s255, s256, s257, s261, s3251} : Loose(k)
  BY LooseK DEF Tight, s243, s244, s251, s252, s254, s255, s256, s257, s261, s3251
<1> QED
  BY <1>1, <1>2, <1>3 DEF Transform

LEMMA TransformIfNames == ASSUME NEW m PROVE \A k \in TransformIf(m) : Loose(k)
<1>1. \A k \in {s253(m), s258(m)} : Loose(k)
  BY LooseK DEF Tight, s253, s258
<1> QED
  BY <1>1 DEF TransformIf

LEMMA ControlNames == \A k \in Control : Loose(k)
<1>1. Loose(s281)
  BY LooseK DEF Tight, s281
<1>2. Loose(s276)
  BY LooseK DEF Tight, s276
<1>3. Loose(s1281)
  BY LooseK DEF Tight, s1281
<1>4. Loose(s291) /\ Loose(s292)
  BY LooseK DEF Tight, s291, s292
<1>5. Loose(s293)
  BY LooseK DEF Tight, s293
<1> QED
  BY <1>1, <1>2, <1>3, <1>4, <1>5 DEF Control

LEMMA ControlIfNames == ASSUME NEW m PROVE \A k \in ControlIf(m) : Loose(k)
<1>1. \A k \in {s271(m), s2710(m), s2711(m), s2712(m), s272(m), s273(m), s274(m), s275(m), s277(m), s278(m)} : Loose(k)
  BY LooseK DEF Tight, s271, s2710, s2711, s2712, s272, s273, s274, s275, s277, s278
<1>2. \A k \in {s279(m), s1279(m), s331(m), s332(m), s341(m), s342(m), s343(m), s441(m), s442(m), s443(m)} : Loose(k)
  BY LooseK DEF Tight, s279, s1279, s331, s332, s341, s342, s343, s441, s442, s443
<1>3. \A k \in {s481(m), s482(m)} : Loose(k)
  BY LooseK DEF Tight, s481, s482
<1> QED
  BY <1>1, <1>2, <1>3 DEF ControlIf

LEMMA ReduceNames == \A k \in Reduce : Loose(k) \/ k \in {s31111, s351, s352, s353}
<1>1. \A k \in {s311, s3110, s13110, s3112, s3113, s312, s313, s314, s315, s316} : Loose(k)
  BY LooseK DEF Tight, s311, s3110, s13110, s3112, s3113, s312, s313, s314, s315, s316
<1>2. \A k \in {s317, s318, s319, s321, s322, s323, s4112, s4113, s4114, s4115} : Loose(k)
  BY LooseK DEF Tight, s317, s318, s319, s321, s322, s323, s4112, s4113, s4114, s4115
<1>3. \A k \in {s4116, s4117, s4121, s451, s452, s453, s471, s491} : Loose(k)
  BY LooseK DEF Tight, s4116, s4117, s4121, s451, s452, s453, s471, s491
<1> QED
  BY <1>1, <1>2, <1>3 DEF Reduce

LEMMA ReduceIfNames == ASSUME NEW m PROVE \A k \in ReduceIf(m) : Loose(k)
<1>1. \A k \in {s3111(m)} : Loose(k)
  BY LooseK DEF Tight, s3111
<1> QED
  BY <1>1 DEF ReduceIf

LEMMA CellsOutside ==
    /\ \A i \in Int : i >= LEN_1D => ~Declared(a(i))
    /\ \A i \in Int : i >= LEN_2D * LEN_2D => ~Declared(flat(i))
BY LoopsAssumption DEF Declared, a, flat

\* One access of one iteration suffices.
LEMMA OneLeaves ==
    ASSUME NEW name, NEW widths, NEW its, NEW body, NEW N \in Nat, its = [n \in 1..N |-> its[n]],
           NEW n \in 1..N, NEW p \in 1..Len(body[its[n]]), NEW cell,
           cell \in Touched(body[its[n]][p]), ~Declared(cell)
    PROVE  Leaves(K(name, widths, Loop(its, body)))
<1> DEFINE k == K(name, widths, Loop(its, body))
<1>1. k.nest = <<Loop(its, body)>>
  BY DEF K, K2, Kernel
<1>2. Len(Loop(its, body)) = N /\ Loop(its, body)[n] = body[its[n]]
  BY LoopIs
<1> HIDE DEF k
<1>3. Len(k.nest) = 1 /\ k.nest[1] = Loop(its, body)
  BY <1>1
<1>4. <<1, n, p>> \in Events(k)
  BY <1>2, <1>3 DEF Events
<1>5. At(k, <<1, n, p>>) = body[its[n]][p]
  BY <1>2, <1>3 DEF At
<1>6. cell \in Cells(k)
  BY <1>4, <1>5 DEF Cells
<1> QED
  BY <1>6 DEF Leaves, k

LEMMA UpLeaves ==
    ASSUME NEW name, NEW widths, NEW hi \in Nat, NEW body, NEW i \in 0..(hi - 1),
           NEW p \in 1..Len(body[i]), NEW cell, cell \in Touched(body[i][p]), ~Declared(cell)
    PROVE  Leaves(K(name, widths, Loop(Up(0, hi), body)))
<1> DEFINE its == Up(0, hi)
<1>1. its = [n \in 1..hi |-> n - 1]
  BY DEF Up
<1> HIDE DEF its
<1>2. its = [n \in 1..hi |-> its[n]] /\ i + 1 \in 1..hi /\ its[i + 1] = i
  BY <1>1
<1>3. Leaves(K(name, widths, Loop(its, body)))
  BY <1>2, OneLeaves
<1> QED
  BY <1>3 DEF its

LEMMA s422Leaves == ASSUME Long, ~Room("s422") PROVE Leaves(s422)
<1> DEFINE body == [i \in Int |-> <<Set(flat(i + 4), {flat(i + 8), a(i)})>>]
           i == LEN_1D - 1
           cell == flat(i + 8)
<1>1. i \in 0..(LEN_1D - 1) /\ i \in Int /\ LEN_1D \in Nat /\ i + 8 \in Int /\ i + 8 >= LEN_2D * LEN_2D
  BY Numbers DEF Room
<1>2. Len(body[i]) = 1 /\ cell \in Touched(body[i][1])
  BY <1>1 DEF Touched, Set
<1>3. ~Declared(cell)
  BY <1>1, CellsOutside
<1>4. s422 = K("s422", AnyWidth, Loop(Up(0, LEN_1D), body))
  BY DEF s422
<1>5. 1 \in 1..Len(body[i])
  BY <1>2
<1> DEFINE hi == LEN_1D
<1>6. hi \in Nat /\ i \in 0..(hi - 1) /\ s422 = K("s422", AnyWidth, Loop(Up(0, hi), body))
  BY <1>1, <1>4
<1> HIDE DEF body, i, cell, hi
<1>7. Leaves(K("s422", AnyWidth, Loop(Up(0, hi), body)))
  BY <1>2, <1>3, <1>5, <1>6, UpLeaves
<1> QED
  BY <1>6, <1>7

LEMMA s423Leaves == ASSUME Long, ~Room("s423") PROVE Leaves(s423)
<1> DEFINE body == [i \in Int |-> <<Set(flat(i + 1), {flat(i + Strip), a(i)})>>]
           i == LEN_1D - 2
           cell == flat(i + Strip)
<1>1. i \in 0..(LEN_1D - 1 - 1) /\ i \in Int /\ LEN_1D - 1 \in Nat /\ i + Strip \in Int /\ i + Strip >= LEN_2D * LEN_2D
  BY Numbers DEF Long, Room
<1>2. Len(body[i]) = 1 /\ cell \in Touched(body[i][1])
  BY <1>1 DEF Touched, Set
<1>3. ~Declared(cell)
  BY <1>1, CellsOutside
<1>4. s423 = K("s423", AnyWidth, Loop(Up(0, LEN_1D - 1), body))
  BY DEF s423
<1>5. 1 \in 1..Len(body[i])
  BY <1>2
<1> DEFINE hi == LEN_1D - 1
<1>6. hi \in Nat /\ i \in 0..(hi - 1) /\ s423 = K("s423", AnyWidth, Loop(Up(0, hi), body))
  BY <1>1, <1>4
<1> HIDE DEF body, i, cell, hi
<1>7. Leaves(K("s423", AnyWidth, Loop(Up(0, hi), body)))
  BY <1>2, <1>3, <1>5, <1>6, UpLeaves
<1> QED
  BY <1>6, <1>7

LEMMA s424Leaves == ASSUME Long, ~Room("s424") PROVE Leaves(s424)
<1> DEFINE body == [i \in Int |-> <<Set(flat(i + (Strip - 1) + 1), {flat(i), a(i)})>>]
           i == LEN_1D - 2
           cell == flat(i + (Strip - 1) + 1)
<1>1. /\ i \in 0..(LEN_1D - 1 - 1) /\ i \in Int /\ LEN_1D - 1 \in Nat
      /\ i + (Strip - 1) + 1 \in Int /\ i + (Strip - 1) + 1 >= LEN_2D * LEN_2D
  BY Numbers DEF Long, Room
<1>2. Len(body[i]) = 1 /\ cell \in Touched(body[i][1])
  BY <1>1 DEF Touched, Set
<1>3. ~Declared(cell)
  BY <1>1, CellsOutside
<1>4. s424 = K("s424", Strip, Loop(Up(0, LEN_1D - 1), body))
  BY DEF s424
<1>5. 1 \in 1..Len(body[i])
  BY <1>2
<1> DEFINE hi == LEN_1D - 1
<1>6. hi \in Nat /\ i \in 0..(hi - 1) /\ s424 = K("s424", Strip, Loop(Up(0, hi), body))
  BY <1>1, <1>4
<1> HIDE DEF body, i, cell, hi
<1>7. Leaves(K("s424", Strip, Loop(Up(0, hi), body)))
  BY <1>2, <1>3, <1>5, <1>6, UpLeaves
<1> QED
  BY <1>6, <1>7

LEMMA s31111Leaves == ASSUME Long, ~Room("s31111") PROVE Leaves(s31111)
<1> DEFINE body == [i \in Int |-> <<Acc(acc, {a(4 * i), a(4 * i + 1), a(4 * i + 2), a(4 * i + 3)})>>]
           its == [n \in 1..((8 - 0 + 1 - 1) \div 1) |-> 0 + (n - 1) * 1]
<1>1. s31111 = K("s31111", AnyWidth, Loop(its, body))
  BY DEF s31111, Steps
<1>2. its = [n \in 1..8 |-> its[n]] /\ its[8] = 7
  OBVIOUS
<1>3. Len(body[7]) = 1 /\ a(31) \in Touched(body[7][1])
  BY DEF Touched, Acc
<1>4. ~Declared(a(31))
  BY Numbers, CellsOutside DEF Room
<1> HIDE DEF body, its
<1>5. 8 \in Nat /\ 8 \in 1..8 /\ 1 \in 1..Len(body[its[8]]) /\ a(31) \in Touched(body[its[8]][1])
  BY <1>2, <1>3
<1> QED
  BY <1>1, <1>2, <1>4, <1>5, OneLeaves

\* The last five elements, where not all of them are there.
LEMMA LastFive ==
    ASSUME LEN_1D % 5 # 0
    PROVE  LET its == Steps(0, LEN_1D, 5)
               N == (LEN_1D + 4) \div 5
           IN  /\ N \in Nat /\ N \in 1..N /\ its = [n \in 1..N |-> its[n]]
               /\ its[N] \in Int /\ its[N] + 4 >= LEN_1D
<1> DEFINE its == Steps(0, LEN_1D, 5)
           N == (LEN_1D + 4) \div 5
<1>1. (LEN_1D - 0 + 5 - 1) \div 5 = N
  BY Numbers
<1>2. N \in Nat /\ N >= 1 /\ 5 * N >= LEN_1D + 1
  BY Numbers
<1>3. its = [n \in 1..N |-> 0 + (n - 1) * 5]
  BY <1>1 DEF Steps
<1> HIDE DEF its, N
<1>4. N \in 1..N /\ its[N] = 5 * N - 5 /\ its = [n \in 1..N |-> its[n]]
  BY <1>2, <1>3
<1>5. its[N] \in Int /\ its[N] + 4 >= LEN_1D
  BY <1>2, <1>4, Numbers
<1> QED
  BY <1>2, <1>4, <1>5 DEF its, N

LEMMA s351Leaves == ASSUME Long, ~Room("s351") PROVE Leaves(s351)
<1> DEFINE body == [i \in Int |-> [n \in 1..5 |-> Set(a(i + n - 1), {a(i + n - 1), b(i + n - 1), c(0)})]]
           its == Steps(0, LEN_1D, 5)
           N == (LEN_1D + 4) \div 5
           i == its[N]
<1>1. N \in Nat /\ N \in 1..N /\ its = [n \in 1..N |-> its[n]] /\ i \in Int /\ i + 4 >= LEN_1D
  BY LastFive DEF Room
<1>2. s351 = K("s351", AnyWidth, Loop(its, body))
  BY DEF s351
<1> HIDE DEF N, its
<1>3. Len(body[i]) = 5
  BY <1>1, LenOfNat
<1>4. a(i + 5 - 1) \in Touched(body[i][5])
  BY <1>1 DEF Touched, Set
<1>5. ~Declared(a(i + 5 - 1))
  BY <1>1, Numbers, CellsOutside
<1> HIDE DEF body
<1>6. 5 \in 1..Len(body[its[N]])
  BY <1>3
<1> QED
  BY <1>1, <1>2, <1>4, <1>5, <1>6, OneLeaves

LEMMA s353Leaves == ASSUME Long, ~Room("s353") PROVE Leaves(s353)
<1> DEFINE body == [i \in Int |-> [n \in 1..5 |-> Set(a(i + n - 1), {a(i + n - 1), b(ip(i + n - 1)), c(0)})]]
           its == Steps(0, LEN_1D, 5)
           N == (LEN_1D + 4) \div 5
           i == its[N]
<1>1. N \in Nat /\ N \in 1..N /\ its = [n \in 1..N |-> its[n]] /\ i \in Int /\ i + 4 >= LEN_1D
  BY LastFive DEF Room
<1>2. s353 = K("s353", AnyWidth, Loop(its, body))
  BY DEF s353
<1> HIDE DEF N, its
<1>3. Len(body[i]) = 5
  BY <1>1, LenOfNat
<1>4. a(i + 5 - 1) \in Touched(body[i][5])
  BY <1>1 DEF Touched, Set
<1>5. ~Declared(a(i + 5 - 1))
  BY <1>1, Numbers, CellsOutside
<1> HIDE DEF body
<1>6. 5 \in 1..Len(body[its[N]])
  BY <1>3
<1> QED
  BY <1>1, <1>2, <1>4, <1>5, <1>6, OneLeaves

LEMMA s352Leaves == ASSUME Long, ~Room("s352") PROVE Leaves(s352)
<1> DEFINE body == [i \in Int |-> <<Acc(acc, {a(n) : n \in Five(i)} \cup {b(n) : n \in Five(i)})>>]
           its == Steps(0, LEN_1D, 5)
           N == (LEN_1D + 4) \div 5
           i == its[N]
<1>1. N \in Nat /\ N \in 1..N /\ its = [n \in 1..N |-> its[n]] /\ i \in Int /\ i + 4 >= LEN_1D
  BY LastFive DEF Room
<1>2. s352 = K("s352", AnyWidth, Loop(its, body))
  BY DEF s352
<1> HIDE DEF N, its
<1>3. Len(body[i]) = 1
  BY <1>1
<1>4. a(i + 4) \in Touched(body[i][1])
  BY <1>1 DEF Touched, Acc, Five
<1>5. ~Declared(a(i + 4))
  BY <1>1, Numbers, CellsOutside
<1> HIDE DEF body
<1>6. 1 \in 1..Len(body[its[N]])
  BY <1>3
<1> QED
  BY <1>1, <1>2, <1>4, <1>5, <1>6, OneLeaves

LEMMA NoRoomLeaves ==
    ASSUME NEW k, Long, ~Room(k.name),
           k \in {s31111, s351, s352, s353, s422, s423, s424}
    PROVE  Leaves(k)
<1>1. /\ s31111.name = "s31111" /\ s351.name = "s351" /\ s352.name = "s352" /\ s353.name = "s353"
      /\ s422.name = "s422" /\ s423.name = "s423" /\ s424.name = "s424"
  <2>1. s31111.name = "s31111"
    BY NameOf DEF s31111
  <2>2. s351.name = "s351"
    BY NameOf DEF s351
  <2>3. s352.name = "s352"
    BY NameOf DEF s352
  <2>4. s353.name = "s353"
    BY NameOf DEF s353
  <2>5. s422.name = "s422"
    BY NameOf DEF s422
  <2>6. s423.name = "s423"
    BY NameOf DEF s423
  <2>7. s424.name = "s424"
    BY NameOf DEF s424
  <2> QED
    BY <2>1, <2>2, <2>3, <2>4, <2>5, <2>6, <2>7
<1> QED
  BY <1>1, s31111Leaves, s351Leaves, s352Leaves, s353Leaves, s422Leaves, s423Leaves, s424Leaves

\* A kernel of the run whose lengths do not fit is one of the seven.
LEMMA TightIs ==
    ASSUME NEW id \in DOMAIN Kernels, ~Loose(Kernels[id])
    PROVE  Kernels[id] \in {s31111, s351, s352, s353, s422, s423, s424}
<1> DEFINE k == Kernels[id]
<1>1. PICK n \in 0..Len(Masks) : k \in KernelsOf(n)
  BY KernelIs
<1> HIDE DEF k
<1>2. ~Loose(k)
  BY DEF k
<1>3. k \in Plain \/ k \in Under(n)
  BY <1>1 DEF KernelsOf
<1>4. k \notin Under(n)
  BY <1>2, DependenceIfNames, TransformIfNames, ControlIfNames, ReduceIfNames DEF Under
<1>5. k \in {s31111, s351, s352, s353, s422, s423, s424}
  BY <1>2, <1>3, <1>4, DependenceNames, TransformNames, ControlNames, ReduceNames DEF Plain
<1> QED
  BY <1>5 DEF k

\* Whatever the lengths of the arrays, the kernels that leave them are those whose
\* steps or offsets do not fit: with the lengths of types.h s423 and s424, which run
\* off flat_2d_array, with the 4096 of emulate_all.py s351, s352 and s353, which take
\* five elements at a time, and s422, s423 and s424.
THEOREM KernelsStayInBounds == Spec => []InBounds
<1>1. Running => InBounds
  <2> SUFFICES ASSUME Running, Long
               PROVE  Room(kernel[1]) <=> \A cell \in DOMAIN mem : Declared(cell)
    BY DEF InBounds
  <2>1. kernel \in DOMAIN Kernels /\ DOMAIN mem = Cells(This)
    BY DEF Running, Ids
  <2>2. Good(This) /\ This.name = kernel[1]
    BY <2>1, EveryKernel DEF This
  <2>3. ASSUME Room(kernel[1]), NEW cell \in Cells(This)
        PROVE  Declared(cell)
    <3>1. LengthsFit(This.name)
      BY <2>2, <2>3 DEF LengthsFit
    <3>2. PICK ev \in Events(This) : cell \in Touched(At(This, ev))
      BY <2>3 DEF Cells
    <3>3. /\ ev[1] \in 1..Len(This.nest) /\ ev[2] \in 1..Len(This.nest[ev[1]])
          /\ ev[3] \in 1..Len(This.nest[ev[1]][ev[2]])
      BY <3>2, EventIs
    <3>4. Inside(At(This, ev))
      BY <2>2, <3>1, <3>3 DEF Good, Lies, At
    <3> QED
      BY <3>2, <3>4 DEF Inside
  <2>4. ASSUME ~Room(kernel[1])
        PROVE  Leaves(This)
    <3>1. kernel[1] \in Tight
      BY <2>4 DEF Room, Tight
    <3>2. ~Loose(This)
      BY <2>2, <3>1 DEF Loose
    <3>3. This \in {s31111, s351, s352, s353, s422, s423, s424}
      BY <2>1, <3>2, TightIs DEF This
    <3> QED
      BY <2>2, <2>4, <3>3, NoRoomLeaves
  <2> QED
    BY <2>1, <2>3, <2>4 DEF Leaves
<1> QED
  BY <1>1, RunningInit, RunningNext, PTL DEF Spec

-----------------------------------------------------------------------------
(* The other way round: too many lanes read a value that is not there yet. *)

Makes(S) == S.w \cup S.acc

\* Event w of kernel k reads a cell that an iteration before it makes; with it in
\* the first chunk of v lanes nothing has been made of the cell when it reads.
Misses(k, v, w, cell) ==
    /\ w[2] <= v /\ cell \in At(k, w).r
    /\ \E u \in Events(k) : Before(u, w) /\ cell \in Makes(At(k, u))
    /\ \A u \in Events(k) : u[1] < w[1] \/ (u[1] = w[1] /\ u[3] < w[3]) => cell \notin Makes(At(k, u))

\* Event w reads, by its second statement, what the lane of u has added to already.
Overtakes(k, v, w, u, cell) ==
    /\ w[1] = 1 /\ w[2] = 1 /\ w[3] = 2 /\ u[1] = 1 /\ u[2] = 2 /\ u[3] = 1 /\ v >= 2
    /\ cell \in At(k, w).r /\ cell \in At(k, u).acc
    /\ \A ev \in Events(k) : ev[1] = 1 /\ ev[3] = 1 => cell \notin At(k, ev).w

InText(k) == ~k.swap /\ k.order = <<>> /\ k.cuts = {}
Recurs(k, v) ==
    /\ InText(k)
    /\ \/ \E w \in Events(k) : \E cell \in Cells(k) : Misses(k, v, w, cell)
       \/ \E w, u \in Events(k) : \E cell \in Cells(k) : Overtakes(k, v, w, u, cell)
Real(k) == \A v \in 1..AnyWidth : v > k.widths /\ k.widths # Sometimes => Recurs(k, v)

\* Until it has read wrongly, the machine is on its way to the event that does.
ToMiss(w, cell) ==
    /\ Misses(This, vf, w, cell) /\ mem[cell] = {}
    /\ turn < w[1] \/ (turn = w[1] /\ first = 1 /\ place <= w[3])
ToOvertake(w, u, cell) ==
    /\ Overtakes(This, vf, w, u, cell) /\ turn = 1 /\ first = 1
    /\ place = 1 \/ (place = 2 /\ u \in mem[cell])
Failing ==
    /\ InText(This)
    /\ \/ stale
       \/ \E w \in Events(This) : \E cell \in Cells(This) : ToMiss(w, cell)
       \/ \E w, u \in Events(This) : \E cell \in Cells(This) : ToOvertake(w, u, cell)

LEMMA SomethingLeft ==
    ASSUME NEW id \in Ids, Sized(Kernels[id]), NEW v, NEW w \in Events(Kernels[id]), NEW cell \in Cells(Kernels[id]),
           Misses(Kernels[id], v, w, cell)
    PROVE  Sequential(id, cell, w) # {}
<1> DEFINE k == Kernels[id]
           W == Writers[id][cell]
           E == {u \in Makers(id, cell) : Before(u, w)}
<1>1. /\ W = {ev \in Events(k) : cell \in At(k, ev).w}
      /\ Makers(id, cell) = {ev \in Events(k) : cell \in Makes(At(k, ev))}
  BY DEF Makers, Writers, Adders, Writing, Adding, Makes
<1>2. Sequential(id, cell, w) = {u \in E : \A y \in E \cap W : y = u \/ Before(y, u)}
  BY DEF Sequential, Content
<1>3. E # {} /\ E \subseteq Events(k)
  BY <1>1 DEF Misses
<1>4. ASSUME NEW u \in E
      PROVE  /\ u = <<u[1], u[2], u[3]>> /\ u[1] = w[1]
             /\ u[2] \in Nat /\ w[2] \in Nat /\ u[2] < w[2] /\ u[3] \in Nat
             /\ Len(k.nest[u[1]][u[2]]) \in Nat /\ u[3] <= Len(k.nest[u[1]][u[2]])
  <2>1. u \in Events(k) /\ Before(u, w) /\ cell \in Makes(At(k, u))
    BY <1>1
  <2>2. ~(u[1] < w[1]) /\ ~(u[1] = w[1] /\ u[3] < w[3])
    BY <2>1 DEF Misses
  <2>3. u[1] = w[1] /\ u[2] < w[2]
    BY <2>1, <2>2 DEF Before
  <2>4. /\ u[2] \in Nat /\ w[2] \in Nat /\ u[3] \in Nat /\ Len(k.nest[u[1]][u[2]]) \in Nat
        /\ u[3] <= Len(k.nest[u[1]][u[2]]) /\ u = <<u[1], u[2], u[3]>>
    BY <2>1, NumbersOf, EventIs
  <2> QED
    BY <2>3, <2>4
<1> HIDE DEF E, W, k
<1>5. CASE E \cap W = {}
  BY <1>2, <1>3, <1>5
<1>6. CASE E \cap W # {}
  <2> DEFINE Back == {w[2] - y[2] : y \in E \cap W}
  <2>1. Back \in SUBSET Nat /\ Back # {}
    BY <1>4, <1>6
  <2>2. PICK r \in Back : \A i \in Back : r <= i
    BY <2>1, Least
  <2>3. PICK y \in E \cap W : r = w[2] - y[2]
    OBVIOUS
  <2>4. \A z \in E \cap W : z[2] <= y[2]
    <3>1. ASSUME NEW z \in E \cap W PROVE z[2] <= y[2]
      <4>1. w[2] - z[2] \in Back
        OBVIOUS
      <4>2. w[2] - y[2] <= w[2] - z[2]
        BY <2>2, <2>3, <4>1
      <4>3. z[2] \in Nat /\ y[2] \in Nat /\ w[2] \in Nat
        BY <1>4
      <4> QED
        BY <4>2, <4>3
    <3> QED
      BY <3>1
  <2> DEFINE N == Len(k.nest[w[1]][y[2]])
             Same == {z \in E \cap W : z[2] = y[2]}
             Rest == {N - z[3] : z \in Same}
  <2>5. Rest \in SUBSET Nat /\ Rest # {}
    <3>1. y \in Same
      OBVIOUS
    <3>2. ASSUME NEW z \in Same PROVE N - z[3] \in Nat
      <4>1. z[1] = w[1] /\ z[2] = y[2] /\ z[3] \in Nat /\ N \in Nat /\ z[3] <= N
        BY <1>4
      <4> QED
        BY <4>1
    <3> QED
      BY <3>1, <3>2
  <2>6. PICK o \in Rest : \A i \in Rest : o <= i
    BY <2>5, Least
  <2>7. PICK l \in Same : o = N - l[3]
    OBVIOUS
  <2>8. ASSUME NEW z \in E \cap W PROVE z = l \/ Before(z, l)
    <3>1. /\ z[1] = w[1] /\ l[1] = w[1] /\ l[2] = y[2] /\ z[2] <= l[2] /\ z[2] \in Nat /\ l[2] \in Nat
          /\ z = <<z[1], z[2], z[3]>> /\ l = <<l[1], l[2], l[3]>> /\ z[3] \in Nat /\ l[3] \in Nat
      BY <1>4, <2>4
    <3>2. CASE z[2] < l[2]
      BY <3>1, <3>2 DEF Before
    <3>3. CASE z[2] = l[2]
      <4>1. N - z[3] \in Rest
        BY <3>1, <3>3
      <4>2. N - l[3] <= N - z[3]
        BY <2>6, <2>7, <4>1
      <4>3. N \in Nat
        BY <1>4, <3>1, <3>3
      <4>4. z[3] <= l[3]
        <5>1. \A i, j, n \in Nat : n - i <= n - j => j <= i
          OBVIOUS
        <5> HIDE DEF N
        <5> QED
          BY <3>1, <4>2, <4>3, <5>1
      <4>5. CASE z[3] < l[3]
        BY <3>1, <3>3, <4>5 DEF Before
      <4>6. CASE z[3] = l[3]
        BY <3>1, <3>3, <4>6
      <4> QED
        BY <3>1, <4>4, <4>5, <4>6
    <3> QED
      BY <3>1, <3>2, <3>3
  <2>9. l \in {u \in E : \A z \in E \cap W : z = u \/ Before(z, u)}
    BY <2>8
  <2> QED
    BY <1>2, <2>9
<1> QED
  BY <1>5, <1>6

LEMMA FailingInit ==
    ASSUME Init, Sized(This), InText(This), Recurs(This, vf)
    PROVE  Failing
<1>1. \A w \in Events(This) : w[1] \in Nat /\ w[1] >= 1 /\ w[3] >= 1
  <2>1. ASSUME NEW w \in Events(This) PROVE w[1] \in 1..Len(This.nest) /\ w[3] \in 1..Len(This.nest[w[1]][w[2]])
    BY EventIs
  <2> QED
    BY <2>1
<1>2. turn = 1 /\ first = 1 /\ place = 1 /\ \A cell \in Cells(This) : mem[cell] = {}
  BY DEF Init, This
<1>3. ASSUME NEW w \in Events(This), NEW cell \in Cells(This), Misses(This, vf, w, cell)
      PROVE  ToMiss(w, cell)
  BY <1>1, <1>2, <1>3 DEF ToMiss
<1>4. ASSUME NEW w \in Events(This), NEW u \in Events(This), NEW cell \in Cells(This), Overtakes(This, vf, w, u, cell)
      PROVE  ToOvertake(w, u, cell)
  BY <1>2, <1>4 DEF ToOvertake
<1> QED
  BY <1>3, <1>4 DEF Failing, Recurs

\* In the text's order the lanes are the first iterations of the loop.
LEMMA FirstChunk ==
    ASSUME Placed, Sized(This), Formed(This), InText(This), ~Finished, first = 1,
           NEW ev \in Events(This), ev[1] = turn, ev[2] <= vf, ev[3] = place
    PROVE  ev \in Active
<1>1. PlaceOf(This, ev[3]) = place
  BY DEF InText, PlaceOf
<1>2. ev[2] \in Chunk
  <2>1. ev[2] \in 1..Len(Nest[turn])
    BY EventIs DEF Nest
  <2>2. ev[2] < first + vf
    BY <2>1, NumbersOf DEF Placed
  <2> QED
    BY <2>1, <2>2 DEF Chunk, InText
<1> QED
  BY <1>1, <1>2, IsActive DEF InText

LEMMA ActiveInText ==
    ASSUME Placed, Sized(This), Formed(This), InText(This), ~Finished, NEW ev \in Active
    PROVE  ev \in Events(This) /\ ev[1] = turn /\ ev[3] = place
BY ActiveIs DEF InText, PlaceOf

LEMMA Untouched ==
    ASSUME Running, Store, NEW cell \in Cells(This), \A ev \in Active : cell \notin Makes(At(This, ev))
    PROVE  mem'[cell] = mem[cell]
<1>1. {ev \in Active : cell \in At(This, ev).w} = {} /\ {ev \in Active : cell \in At(This, ev).acc} = {}
  BY DEF Makes
<1> QED
  BY <1>1 DEF Store, After, Running

LEMMA MissStep ==
    ASSUME Running, Placed, Sized(This), Formed(This), InText(This), Next, ~stale,
           NEW w \in Events(This), NEW cell \in Cells(This), ToMiss(w, cell)
    PROVE  stale' \/ ToMiss(w, cell)'
<1>1. /\ w[1] \in 1..Len(Nest) /\ w[2] \in 1..Len(Nest[w[1]]) /\ w[3] \in 1..Len(Nest[w[1]][w[2]])
      /\ w[1] \in Nat /\ w[2] \in Nat /\ w[3] \in Nat /\ w = <<w[1], w[2], w[3]>>
      /\ Len(Nest) \in Nat /\ Len(Nest[w[1]][w[2]]) \in Nat
  BY EventIs, NumbersOf DEF Nest, Sized
<1>2. turn \in Nat /\ place \in Nat /\ place # 0 /\ ~This.swap
  BY DEF Placed, InText
<1>3. ~Finished
  BY <1>1, <1>2 DEF ToMiss, Finished
<1>4. /\ Misses(This, vf, w, cell) /\ mem[cell] = {} /\ w[2] <= vf /\ cell \in At(This, w).r
      /\ \A u \in Events(This) : u[1] < w[1] \/ (u[1] = w[1] /\ u[3] < w[3]) => cell \notin Makes(At(This, u))
  BY DEF ToMiss, Misses
<1>5. CASE turn < w[1]
  <2>1. CASE VectorInstruction
    <3>1. \A ev \in Active : cell \notin Makes(At(This, ev))
      BY <1>3, <1>4, <1>5, ActiveInText
    <3>2. mem'[cell] = {}
      BY <1>4, <2>1, <3>1, Untouched DEF VectorInstruction
    <3>3. This' = This /\ vf' = vf /\ turn' = turn
      BY <2>1 DEF VectorInstruction, This
    <3> QED
      BY <1>4, <1>5, <3>2, <3>3 DEF ToMiss
  <2>2. CASE NextChunk
    <3>1. This' = This /\ vf' = vf /\ turn' = turn /\ mem' = mem
      BY <1>2, <2>2 DEF NextChunk, This
    <3> QED
      BY <1>4, <1>5, <3>1 DEF ToMiss
  <2>3. CASE NextTurn
    <3>1. This' = This /\ vf' = vf /\ turn' = turn + 1 /\ first' = 1 /\ place' = 1 /\ mem' = mem
      BY <1>2, <2>3 DEF NextTurn, This
    <3>2. turn + 1 < w[1] \/ (turn + 1 = w[1] /\ 1 <= w[3])
      BY <1>1, <1>2, <1>5
    <3> QED
      BY <1>4, <3>1, <3>2 DEF ToMiss
  <2> QED
    BY <1>3, <2>1, <2>2, <2>3 DEF Next, Terminated
<1>6. CASE turn = w[1] /\ first = 1 /\ place <= w[3]
  <2> DEFINE ev == <<turn, w[2], place>>
  <2>1. ev \in Events(This)
    BY <1>1, <1>2, <1>6, IsEvent DEF Nest
  <2>2. ev \in Active
    BY <1>3, <1>4, <1>6, <2>1, FirstChunk
  <2>3. VectorInstruction
    BY <1>3, <2>2 DEF Next, Terminated, NextChunk, NextTurn
  <2>4. CASE place < w[3]
    <3>1. \A u \in Active : cell \notin Makes(At(This, u))
      BY <1>3, <1>4, <1>6, <2>4, ActiveInText
    <3>2. mem'[cell] = {}
      BY <1>4, <2>3, <3>1, Untouched DEF VectorInstruction
    <3>3. This' = This /\ vf' = vf /\ turn' = turn /\ first' = first /\ place' = place + 1
      BY <2>3 DEF VectorInstruction, This
    <3>4. place + 1 <= w[3]
      BY <1>1, <1>2, <2>4
    <3> QED
      BY <1>4, <1>6, <3>2, <3>3, <3>4 DEF ToMiss
  <2>5. CASE place = w[3]
    <3>1. w \in Active
      BY <1>1, <1>6, <2>2, <2>5
    <3>2. Sequential(kernel, cell, w) # {}
      BY <1>4, SomethingLeft DEF Placed, This
    <3>3. ~ReadsRight(w)
      BY <1>4, <3>2 DEF ReadsRight
    <3> QED
      BY <2>3, <3>1, <3>3 DEF VectorInstruction
  <2> QED
    BY <1>1, <1>2, <1>6, <2>4, <2>5
<1> QED
  BY <1>5, <1>6 DEF ToMiss

LEMMA OvertakeStep ==
    ASSUME Running, Placed, Sized(This), Formed(This), InText(This), Next, ~stale,
           NEW w \in Events(This), NEW u \in Events(This), NEW cell \in Cells(This), ToOvertake(w, u, cell)
    PROVE  stale' \/ ToOvertake(w, u, cell)'
<1>1. /\ 1 \in 1..Len(Nest) /\ Len(Nest) \in Nat
      /\ w[1] = 1 /\ w[2] = 1 /\ w[3] = 2 /\ u[1] = 1 /\ u[2] = 2 /\ u[3] = 1 /\ vf >= 2
      /\ w = <<1, 1, 2>> /\ u = <<1, 2, 1>>
  BY EventIs DEF Nest, Sized, ToOvertake, Overtakes
<1>2. /\ turn = 1 /\ first = 1 /\ cell \in At(This, w).r /\ cell \in At(This, u).acc
      /\ place = 1 \/ (place = 2 /\ u \in mem[cell])
      /\ \A ev \in Events(This) : ev[1] = 1 /\ ev[3] = 1 => cell \notin At(This, ev).w
      /\ Overtakes(This, vf, w, u, cell) /\ vf \in Nat
  BY DEF ToOvertake, Overtakes, Placed
<1>3. ~Finished
  BY <1>1, <1>2 DEF Finished, InText
<1>4. CASE place = 1
  <2>1. u \in Active
    BY <1>1, <1>2, <1>3, <1>4, FirstChunk
  <2>2. VectorInstruction
    BY <1>3, <2>1 DEF Next, Terminated, NextChunk, NextTurn
  <2>3. {ev \in Active : cell \in At(This, ev).w} = {}
    BY <1>2, <1>3, <1>4, ActiveInText
  <2>4. u \in {ev \in Active : cell \in At(This, ev).acc}
    BY <1>2, <2>1
  <2>5. u \in mem'[cell]
    BY <2>2, <2>3, <2>4 DEF VectorInstruction, Store, After, Running
  <2>6. This' = This /\ vf' = vf /\ turn' = turn /\ first' = first /\ place' = 2
    BY <1>4, <2>2 DEF VectorInstruction, This
  <2> QED
    BY <1>2, <2>5, <2>6 DEF ToOvertake
<1>5. CASE place = 2 /\ u \in mem[cell]
  <2>1. w \in Active
    BY <1>1, <1>2, <1>3, <1>5, FirstChunk
  <2>2. VectorInstruction
    BY <1>3, <2>1 DEF Next, Terminated, NextChunk, NextTurn
  <2>3. ~Before(u, w)
    BY <1>1 DEF Before
  <2>4. u \notin Sequential(kernel, cell, w)
    BY <2>3 DEF Sequential, Content
  <2>5. ~ReadsRight(w)
    BY <1>2, <1>5, <2>4 DEF ReadsRight
  <2> QED
    BY <2>1, <2>2, <2>5 DEF VectorInstruction
<1> QED
  BY <1>2, <1>4, <1>5

EveryReal == \A id \in Ids : Real(Kernels[id])
FailInv == Running /\ Placed /\ (vf > This.widths /\ This.widths # Sometimes => Failing)

LEMMA FailInvInit ==
    ASSUME EverySound, EveryReal, Init
    PROVE  FailInv
<1>1. Placed /\ Running
  BY InitPlaced, RunningInit
<1>2. Sized(This) /\ Real(This) /\ vf \in 1..AnyWidth
  BY <1>1, ThisIsSound DEF EveryReal, Running, This, Placed
<1>3. vf > This.widths /\ This.widths # Sometimes => Recurs(This, vf)
  BY <1>2 DEF Real
<1> QED
  BY <1>1, <1>2, <1>3, FailingInit DEF FailInv, Recurs

LEMMA FailInvNext ==
    ASSUME EverySound, FailInv, [Next]_vars
    PROVE  FailInv'
<1>1. CASE UNCHANGED vars
  <2>1. Placed' /\ Running' /\ vf' = vf /\ This' = This /\ stale' = stale /\ mem' = mem
        /\ turn' = turn /\ first' = first /\ place' = place
    BY <1>1, RunningNext DEF vars, FailInv, Placed, This
  <2> QED
    BY <2>1 DEF FailInv, Failing, ToMiss, ToOvertake
<1>2. CASE Next
  <2>1. Placed' /\ Running'
    BY <1>2, StepPlaced, RunningNext DEF FailInv
  <2>2. vf' = vf /\ This' = This /\ (stale => stale')
    <3>1. CASE VectorInstruction
      BY <3>1 DEF VectorInstruction, This
    <3>2. CASE NextChunk \/ NextTurn \/ Terminated
      BY <3>2 DEF NextChunk, NextTurn, Terminated, vars, This
    <3> QED
      BY <1>2, <3>1, <3>2 DEF Next
  <2>3. Sized(This) /\ Formed(This)
    BY ThisIsSound DEF FailInv
  <2>4. ASSUME vf > This.widths, This.widths # Sometimes PROVE Failing'
    <3>1. Failing
      BY <2>4 DEF FailInv
    <3>2. CASE stale
      BY <2>2, <3>1, <3>2 DEF Failing
    <3>3. ASSUME ~stale, NEW w \in Events(This), NEW cell \in Cells(This), ToMiss(w, cell) PROVE Failing'
      <4>1. stale' \/ ToMiss(w, cell)'
        BY <1>2, <2>3, <3>1, <3>3, MissStep DEF FailInv, Failing
      <4> QED
        BY <2>2, <3>1, <4>1 DEF Failing
    <3>4. ASSUME ~stale, NEW w \in Events(This), NEW u \in Events(This), NEW cell \in Cells(This), ToOvertake(w, u, cell)
          PROVE  Failing'
      <4>1. stale' \/ ToOvertake(w, u, cell)'
        BY <1>2, <2>3, <3>1, <3>4, OvertakeStep DEF FailInv, Failing
      <4> QED
        BY <2>2, <3>1, <4>1 DEF Failing
    <3> QED
      BY <3>1, <3>2, <3>3, <3>4 DEF Failing
  <2> QED
    BY <2>1, <2>2, <2>4 DEF FailInv
<1> QED
  BY <1>1, <1>2

LEMMA FailInvIsReal ==
    ASSUME EverySound, FailInv
    PROVE  RecurrencesAreReal
<1> SUFFICES ASSUME Finished, This.widths # Sometimes, vf > This.widths PROVE stale
  BY DEF RecurrencesAreReal
<1>1. Failing /\ ~This.swap /\ turn > Len(Nest)
  BY DEF FailInv, Failing, InText, Finished
<1>2. Sized(This) /\ Placed
  BY ThisIsSound DEF FailInv
<1>3. \A w \in Events(This) : w[1] \in Nat /\ w[1] <= Len(Nest)
  <2>1. ASSUME NEW w \in Events(This) PROVE w[1] \in 1..Len(This.nest)
    BY EventIs
  <2> QED
    BY <2>1 DEF Nest
<1>4. turn \in Nat /\ Len(Nest) \in Nat
  BY <1>2 DEF Placed, Sized, Nest
<1>5. ~\E w \in Events(This) : \E cell \in Cells(This) : ToMiss(w, cell)
  BY <1>1, <1>3, <1>4 DEF ToMiss
<1>6. ~\E w, u \in Events(This) : \E cell \in Cells(This) : ToOvertake(w, u, cell)
  BY <1>1, <1>3, <1>4 DEF ToOvertake, Overtakes
<1> QED
  BY <1>1, <1>5, <1>6 DEF Failing

\* A run of a kernel with more lanes than its text allows reads a stale value, if
\* the kernel's text has a first event that reads what is not there yet.
THEOREM RealIsEnough ==
    ASSUME EverySound, EveryReal
    PROVE  Spec => []RecurrencesAreReal
BY FailInvInit, FailInvNext, FailInvIsReal, PTL DEF Spec

-----------------------------------------------------------------------------
(* The recurrences of the kernels. *)

\* In loop T of a nest, statement p of iteration far reads a cell that statement
\* q of the first iteration makes, and which nothing before p has made.
Carries(nest, T, far, p, q, cell) ==
    /\ Len(nest) \in Nat /\ T \in 1..Len(nest) /\ Len(nest[T]) \in Nat
    /\ far \in 2..Len(nest[T]) /\ p \in 1..Len(nest[T][far]) /\ q \in 1..Len(nest[T][1])
    /\ cell \in nest[T][far][p].r /\ cell \in Makes(nest[T][1][q])
    /\ \A n \in 1..Len(nest[T]) : \A r \in 1..Len(nest[T][n]) : r < p => cell \notin Makes(nest[T][n][r])
    /\ \A l \in 1..Len(nest) : l < T =>
          \A n \in 1..Len(nest[l]) : \A r \in 1..Len(nest[l][n]) : cell \notin Makes(nest[l][n][r])

LEMMA CarriesRecurs ==
    ASSUME NEW name, NEW widths, NEW nest, NEW T, NEW far, NEW p, NEW q, NEW cell,
           Carries(nest, T, far, p, q, cell), NEW v \in Int, far <= v
    PROVE  Recurs(K2(name, widths, nest), v)
<1> DEFINE k == K2(name, widths, nest)
           w == <<T, far, p>>
           u == <<T, 1, q>>
<1>1. k.nest = nest /\ InText(k)
  BY DEF K2, Kernel, InText
<1>2. /\ T \in 1..Len(nest) /\ far \in 1..Len(nest[T]) /\ 1 \in 1..Len(nest[T]) /\ 1 < far
      /\ p \in 1..Len(nest[T][far]) /\ q \in 1..Len(nest[T][1])
      /\ cell \in nest[T][far][p].r /\ cell \in Makes(nest[T][1][q])
  BY DEF Carries
<1> HIDE DEF k
<1>3. w \in Events(k) /\ u \in Events(k)
  BY <1>1, <1>2, IsEvent
<1>4. Before(u, w) /\ cell \in At(k, w).r /\ cell \in Makes(At(k, u))
  BY <1>1, <1>2 DEF Before, At
<1>5. ASSUME NEW ev \in Events(k), ev[1] < T \/ (ev[1] = T /\ ev[3] < p)
      PROVE  cell \notin Makes(At(k, ev))
  <2>1. /\ ev[1] \in 1..Len(nest) /\ ev[2] \in 1..Len(nest[ev[1]])
        /\ ev[3] \in 1..Len(nest[ev[1]][ev[2]])
    BY <1>1, EventIs
  <2> QED
    BY <1>1, <1>5, <2>1 DEF At, Carries
<1>6. cell \in Cells(k)
  BY <1>3, <1>4 DEF Cells, Touched
<1>7. w[1] = T /\ w[2] = far /\ w[3] = p
  OBVIOUS
<1> HIDE DEF w, u
<1>8. Misses(k, v, w, cell)
  BY <1>3, <1>4, <1>5, <1>7 DEF Misses
<1>9. Recurs(k, v)
  BY <1>1, <1>3, <1>6, <1>8 DEF Recurs
<1> QED
  BY <1>9 DEF k

\* In one loop, and in the first loop of a nest.
CarriesUp(lo, hi, body, N, far, p, q, cell) ==
    /\ lo \in Int /\ hi \in Int /\ N \in Nat /\ far \in Nat /\ 2 <= far /\ far <= hi - lo
    /\ p \in 1..N /\ q \in 1..N
    /\ \A i \in Int : Len(body[i]) = N
    /\ cell \in body[lo + far - 1][p].r /\ cell \in Makes(body[lo][q])
    /\ \A i \in Int : lo <= i => \A r \in 1..N : r < p => cell \notin Makes(body[i][r])

LEMMA UpCarries ==
    ASSUME NEW lo, NEW hi, NEW body, NEW N, NEW far, NEW p, NEW q, NEW cell,
           CarriesUp(lo, hi, body, N, far, p, q, cell),
           NEW nest, Len(nest) \in Nat, Len(nest) >= 1, nest[1] = Loop(Up(lo, hi), body)
    PROVE  Carries(nest, 1, far, p, q, cell)
<1> DEFINE L == Loop(Up(lo, hi), body)
<1>1. /\ lo \in Int /\ hi \in Int /\ N \in Nat /\ far \in Nat /\ 2 <= far /\ far <= hi - lo
      /\ p \in 1..N /\ q \in 1..N
      /\ \A i \in Int : Len(body[i]) = N
      /\ cell \in body[lo + far - 1][p].r /\ cell \in Makes(body[lo][q])
      /\ \A i \in Int : lo <= i => \A r \in 1..N : r < p => cell \notin Makes(body[i][r])
  BY DEF CarriesUp
<1>2. Len(L) \in Nat /\ 1..Len(L) = 1..(hi - lo) /\ \A n \in 1..(hi - lo) : L[n] = body[lo + n - 1]
  BY <1>1, UpLoop
<1>3. nest[1] = L
  OBVIOUS
<1> HIDE DEF L
<1>4. far \in 1..(hi - lo) /\ 1 \in 1..(hi - lo) /\ lo + 1 - 1 = lo /\ lo + far - 1 \in Int
  BY <1>1
<1>5. L[far] = body[lo + far - 1] /\ L[1] = body[lo] /\ far \in 2..Len(L)
  <2>1. L[1] = body[lo + 1 - 1]
    BY <1>2, <1>4
  <2>2. far \in 1..Len(L) /\ far >= 2 /\ far \in Int
    BY <1>1, <1>2, <1>4
  <2> QED
    BY <1>2, <1>4, <2>1, <2>2
<1>6. Len(L[far]) = N /\ Len(L[1]) = N
  BY <1>1, <1>4, <1>5
<1>7. ASSUME NEW n \in 1..Len(L), NEW r \in 1..Len(L[n]), r < p
      PROVE  cell \notin Makes(L[n][r])
  <2>1. n \in 1..(hi - lo) /\ lo + n - 1 \in Int /\ lo <= lo + n - 1
    BY <1>1, <1>2
  <2>2. L[n] = body[lo + n - 1] /\ Len(L[n]) = N
    BY <1>1, <1>2, <2>1
  <2> QED
    BY <1>1, <1>7, <2>1, <2>2
<1>8. ~\E l \in 1..Len(nest) : l < 1
  OBVIOUS
<1> QED
  BY <1>1, <1>2, <1>3, <1>5, <1>6, <1>7, <1>8 DEF Carries

LEMMA LoopRecurs ==
    ASSUME NEW lo, NEW hi, NEW body, NEW N, NEW far, NEW p, NEW q, NEW cell,
           CarriesUp(lo, hi, body, N, far, p, q, cell),
           NEW name, NEW widths \in Int, far <= widths + 1
    PROVE  Real(K(name, widths, Loop(Up(lo, hi), body)))
<1> DEFINE L == Loop(Up(lo, hi), body)  nest == <<L>>
<1>1. Len(nest) = 1 /\ nest[1] = L
  OBVIOUS
<1>2. Carries(nest, 1, far, p, q, cell)
  BY <1>1, UpCarries
<1>3. far \in Nat
  BY DEF CarriesUp
<1> HIDE DEF L, nest
<1>4. \A v \in 1..AnyWidth : v > widths => Recurs(K2(name, widths, nest), v)
  BY <1>2, <1>3, CarriesRecurs DEF AnyWidth
<1>5. K2(name, widths, nest).widths = widths
  BY DEF K2, Kernel
<1>6. Real(K2(name, widths, nest))
  BY <1>4, <1>5 DEF Real
<1> QED
  BY <1>6 DEF K, L, nest

LEMMA NestRecurs ==
    ASSUME NEW nest, NEW T, NEW far, NEW p, NEW q, NEW cell, Carries(nest, T, far, p, q, cell),
           NEW name, NEW widths \in Int, far = 2, widths >= 1
    PROVE  Real(K2(name, widths, nest))
<1>1. \A v \in 1..AnyWidth : v > widths => Recurs(K2(name, widths, nest), v)
  BY CarriesRecurs DEF AnyWidth
<1>2. K2(name, widths, nest).widths = widths
  BY DEF K2, Kernel
<1> QED
  BY <1>1, <1>2 DEF Real

\* Lengths for which the recurrences go round.
Lasts(name) ==
    /\ LEN_1D >= 4 /\ LEN_2D >= 3
    /\ name = "s1221" => LEN_1D >= 9
    /\ name = "s424" => LEN_1D >= Strip + 2

LEMMA s1221Real == ASSUME Lasts("s1221") PROVE Real(s1221)
<1> DEFINE body == [i \in Int |-> <<Set(b(i), {b(i - 4), a(i)})>>]
<1>1. s1221 = K("s1221", 4, Loop(Up(4, LEN_1D), body))
  BY DEF s1221
<1>2. \A i \in Int : Len(body[i]) = 1
  OBVIOUS
<1>3. b(4) \in body[4 + 5 - 1][1].r /\ b(4) \in Makes(body[4][1])
  BY Numbers DEF Makes, Set, b
<1>4. \A i \in Int : 4 <= i => \A r \in 1..1 : r < 1 => b(4) \notin Makes(body[i][r])
  OBVIOUS
<1> HIDE DEF body
<1>5. CarriesUp(4, LEN_1D, body, 1, 5, 1, 1, b(4))
  BY <1>2, <1>3, <1>4, Numbers DEF Lasts, CarriesUp
<1>6. 4 \in Int /\ 5 <= 4 + 1
  BY Numbers DEF None
<1>7. Real(K("s1221", 4, Loop(Up(4, LEN_1D), body)))
  BY <1>5, <1>6, LoopRecurs
<1> QED
  BY <1>1, <1>7

LEMMA s424Real == ASSUME Lasts("s424") PROVE Real(s424)
<1> DEFINE body == [i \in Int |-> <<Set(flat(i + (Strip - 1) + 1), {flat(i), a(i)})>>]
<1>1. s424 = K("s424", Strip, Loop(Up(0, LEN_1D - 1), body))
  BY DEF s424
<1>2. \A i \in Int : Len(body[i]) = 1
  OBVIOUS
<1>3. flat(Strip) \in body[0 + (Strip + 1) - 1][1].r /\ flat(Strip) \in Makes(body[0][1])
  BY Numbers DEF Makes, Set, flat
<1>4. \A i \in Int : 0 <= i => \A r \in 1..1 : r < 1 => flat(Strip) \notin Makes(body[i][r])
  OBVIOUS
<1> HIDE DEF body
<1>5. CarriesUp(0, LEN_1D - 1, body, 1, (Strip + 1), 1, 1, flat(Strip))
  BY <1>2, <1>3, <1>4, Numbers DEF Lasts, CarriesUp
<1>6. Strip \in Int /\ (Strip + 1) <= Strip + 1
  BY Numbers DEF None
<1>7. Real(K("s424", Strip, Loop(Up(0, LEN_1D - 1), body)))
  BY <1>5, <1>6, LoopRecurs
<1> QED
  BY <1>1, <1>7

LEMMA s221Real == ASSUME Lasts("s221") PROVE Real(s221)
<1> DEFINE body == [i \in Int |-> <<Set(a(i), {a(i), c(i), d(i)}), Set(b(i), {b(i - 1), a(i), d(i)})>>]
<1>1. s221 = K("s221", None, Loop(Up(1, LEN_1D), body))
  BY DEF s221
<1>2. \A i \in Int : Len(body[i]) = 2
  OBVIOUS
<1>3. b(1) \in body[1 + 2 - 1][2].r /\ b(1) \in Makes(body[1][2])
  BY Numbers DEF Makes, Set
<1>4. \A i \in Int : 1 <= i => \A r \in 1..2 : r < 2 => b(1) \notin Makes(body[i][r])
  <2>1. \A i \in Int : b(1) \notin Makes(body[i][1])
    BY CellIs DEF Makes, Set
  <2>2. \A r \in 1..2 : r < 2 => r = 1
    OBVIOUS
  <2> QED
    BY <2>1, <2>2
<1> HIDE DEF body
<1>5. CarriesUp(1, LEN_1D, body, 2, 2, 2, 2, b(1))
  BY <1>2, <1>3, <1>4, Numbers DEF Lasts, CarriesUp
<1>6. None \in Int /\ 2 <= None + 1
  BY Numbers DEF None
<1>7. Real(K("s221", None, Loop(Up(1, LEN_1D), body)))
  BY <1>5, <1>6, LoopRecurs
<1> QED
  BY <1>1, <1>7

LEMMA s222Real == ASSUME Lasts("s222") PROVE Real(s222)
<1> DEFINE body == [i \in Int |-> <<Set(a(i), {a(i), b(i), c(i)}), Set(e(i), {e(i - 1)}), Set(a(i), {a(i), b(i), c(i)})>>]
<1>1. s222 = K("s222", None, Loop(Up(1, LEN_1D), body))
  BY DEF s222
<1>2. \A i \in Int : Len(body[i]) = 3
  OBVIOUS
<1>3. e(1) \in body[1 + 2 - 1][2].r /\ e(1) \in Makes(body[1][2])
  BY Numbers DEF Makes, Set
<1>4. \A i \in Int : 1 <= i => \A r \in 1..3 : r < 2 => e(1) \notin Makes(body[i][r])
  <2>1. \A i \in Int : e(1) \notin Makes(body[i][1])
    BY CellIs DEF Makes, Set
  <2>2. \A r \in 1..3 : r < 2 => r = 1
    OBVIOUS
  <2> QED
    BY <2>1, <2>2
<1> HIDE DEF body
<1>5. CarriesUp(1, LEN_1D, body, 3, 2, 2, 2, e(1))
  BY <1>2, <1>3, <1>4, Numbers DEF Lasts, CarriesUp
<1>6. None \in Int /\ 2 <= None + 1
  BY Numbers DEF None
<1>7. Real(K("s222", None, Loop(Up(1, LEN_1D), body)))
  BY <1>5, <1>6, LoopRecurs
<1> QED
  BY <1>1, <1>7

LEMMA s242Real == ASSUME Lasts("s242") PROVE Real(s242)
<1> DEFINE body == [i \in Int |-> <<Set(a(i), {a(i - 1), b(i), c(i), d(i)})>>]
<1>1. s242 = K("s242", None, Loop(Up(1, LEN_1D), body))
  BY DEF s242
<1>2. \A i \in Int : Len(body[i]) = 1
  OBVIOUS
<1>3. a(1) \in body[1 + 2 - 1][1].r /\ a(1) \in Makes(body[1][1])
  BY Numbers DEF Makes, Set
<1>4. \A i \in Int : 1 <= i => \A r \in 1..1 : r < 1 => a(1) \notin Makes(body[i][r])
  OBVIOUS
<1> HIDE DEF body
<1>5. CarriesUp(1, LEN_1D, body, 1, 2, 1, 1, a(1))
  BY <1>2, <1>3, <1>4, Numbers DEF Lasts, CarriesUp
<1>6. None \in Int /\ 2 <= None + 1
  BY Numbers DEF None
<1>7. Real(K("s242", None, Loop(Up(1, LEN_1D), body)))
  BY <1>5, <1>6, LoopRecurs
<1> QED
  BY <1>1, <1>7

LEMMA s321Real == ASSUME Lasts("s321") PROVE Real(s321)
<1> DEFINE body == [i \in Int |-> <<Set(a(i), {a(i), a(i - 1), b(i)})>>]
<1>1. s321 = K("s321", None, Loop(Up(1, LEN_1D), body))
  BY DEF s321
<1>2. \A i \in Int : Len(body[i]) = 1
  OBVIOUS
<1>3. a(1) \in body[1 + 2 - 1][1].r /\ a(1) \in Makes(body[1][1])
  BY Numbers DEF Makes, Set
<1>4. \A i \in Int : 1 <= i => \A r \in 1..1 : r < 1 => a(1) \notin Makes(body[i][r])
  OBVIOUS
<1> HIDE DEF body
<1>5. CarriesUp(1, LEN_1D, body, 1, 2, 1, 1, a(1))
  BY <1>2, <1>3, <1>4, Numbers DEF Lasts, CarriesUp
<1>6. None \in Int /\ 2 <= None + 1
  BY Numbers DEF None
<1>7. Real(K("s321", None, Loop(Up(1, LEN_1D), body)))
  BY <1>5, <1>6, LoopRecurs
<1> QED
  BY <1>1, <1>7

LEMMA s322Real == ASSUME Lasts("s322") PROVE Real(s322)
<1> DEFINE body == [i \in Int |-> <<Set(a(i), {a(i), a(i - 1), b(i), a(i - 2), c(i)})>>]
<1>1. s322 = K("s322", None, Loop(Up(2, LEN_1D), body))
  BY DEF s322
<1>2. \A i \in Int : Len(body[i]) = 1
  OBVIOUS
<1>3. a(2) \in body[2 + 2 - 1][1].r /\ a(2) \in Makes(body[2][1])
  BY Numbers DEF Makes, Set
<1>4. \A i \in Int : 2 <= i => \A r \in 1..1 : r < 1 => a(2) \notin Makes(body[i][r])
  OBVIOUS
<1> HIDE DEF body
<1>5. CarriesUp(2, LEN_1D, body, 1, 2, 1, 1, a(2))
  BY <1>2, <1>3, <1>4, Numbers DEF Lasts, CarriesUp
<1>6. None \in Int /\ 2 <= None + 1
  BY Numbers DEF None
<1>7. Real(K("s322", None, Loop(Up(2, LEN_1D), body)))
  BY <1>5, <1>6, LoopRecurs
<1> QED
  BY <1>1, <1>7

LEMMA s323Real == ASSUME Lasts("s323") PROVE Real(s323)
<1> DEFINE body == [i \in Int |-> <<Set(a(i), {b(i - 1), c(i), d(i)}), Set(b(i), {a(i), c(i), e(i)})>>]
<1>1. s323 = K("s323", None, Loop(Up(1, LEN_1D), body))
  BY DEF s323
<1>2. \A i \in Int : Len(body[i]) = 2
  OBVIOUS
<1>3. b(1) \in body[1 + 2 - 1][1].r /\ b(1) \in Makes(body[1][2])
  BY Numbers DEF Makes, Set
<1>4. \A i \in Int : 1 <= i => \A r \in 1..2 : r < 1 => b(1) \notin Makes(body[i][r])
  OBVIOUS
<1> HIDE DEF body
<1>5. CarriesUp(1, LEN_1D, body, 2, 2, 1, 2, b(1))
  BY <1>2, <1>3, <1>4, Numbers DEF Lasts, CarriesUp
<1>6. None \in Int /\ 2 <= None + 1
  BY Numbers DEF None
<1>7. Real(K("s323", None, Loop(Up(1, LEN_1D), body)))
  BY <1>5, <1>6, LoopRecurs
<1> QED
  BY <1>1, <1>7

LEMMA s123Real == ASSUME NEW m, Lasts("s123") PROVE Real(s123(m))
<1> DEFINE A(i) == Set(out("j"), {out("j")})
           B(i) == Set(a(i + Packed(m, i)), {out("j"), b(i), d(i), e(i)})
           C(i) == Set(a(i + Packed(m, i) + 1), {out("j"), c(i), d(i), e(i)})
           body == [i \in Int |-> <<A(i), B(i), Test({c(i)})>> \o If(m[i], <<A(i), C(i)>>)]
           half == LEN_1D \div 2
           cell == out("j")
<1>1. ASSUME NEW i \in Int PROVE Len(body[i]) = 5 /\ body[i][1] = A(i)
  BY ThreeThenTwo
<1>2. s123(m) = K("s123", None, Loop(Up(0, half), body))
  BY DEF s123
<1> HIDE DEF body
<1>3. \A i \in Int : cell \in A(i).r /\ cell \in Makes(A(i))
  BY DEF Makes, Set
<1>4. half \in Int /\ 2 <= half
  BY Numbers DEF Lasts
<1> HIDE DEF A, half, cell
<1>5. CarriesUp(0, half, body, 5, 2, 1, 1, cell)
  BY <1>1, <1>3, <1>4 DEF CarriesUp
<1>6. None \in Int /\ 2 <= None + 1
  BY DEF None
<1>7. Real(K("s123", None, Loop(Up(0, half), body)))
  BY <1>5, <1>6, LoopRecurs
<1> QED
  BY <1>2, <1>7

LEMMA PackingNone ==
    ASSUME NEW m, Lasts("s343"), Packing(m) # Sometimes
    PROVE  Packing(m) = None /\ m[0] /\ m[1]
<1>1. 0 \in 0..(LEN_2D - 1) /\ 1 \in 0..(LEN_2D - 1)
  BY Numbers DEF Lasts
<1> QED
  BY <1>1 DEF Packing

LEMMA s341Real == ASSUME NEW m, Lasts("s341") PROVE Real(s341(m)) /\ Real(s342(m))
<1> DEFINE cell == out("j")
           A(i) == Set(out("j"), {out("j")})
           B(i) == Set(a(Packed(m, i)), {out("j"), b(i)})
           D(i) == Set(a(i), {out("j"), b(Packed(m, i))})
           body == [i \in Int |-> <<Test({b(i)})>> \o If(m[i], <<A(i), B(i)>>)]
           body2 == [i \in Int |-> <<Test({a(i)})>> \o If(m[i], <<A(i), D(i)>>)]
<1>1. ASSUME NEW i \in Int
      PROVE  /\ Len(body[i]) = 3 /\ body[i][1] = Test({b(i)}) /\ body[i][2] = Maybe(m[i], A(i))
             /\ Len(body2[i]) = 3 /\ body2[i][1] = Test({a(i)}) /\ body2[i][2] = Maybe(m[i], A(i))
  <2>1. Len(body[i]) = 3 /\ body[i][1] = Test({b(i)}) /\ body[i][2] = Maybe(m[i], A(i))
    BY TestThenTwo
  <2>2. Len(body2[i]) = 3 /\ body2[i][1] = Test({a(i)}) /\ body2[i][2] = Maybe(m[i], A(i))
    BY TestThenTwo
  <2> QED
    BY <2>1, <2>2
<1>2. /\ s341(m) = K("s341", Packing(m), Loop(Up(0, LEN_1D), body))
      /\ s342(m) = K("s342", Packing(m), Loop(Up(0, LEN_1D), body2))
  BY DEF s341, s342
<1> HIDE DEF body, body2
<1>3. \A i \in Int : cell \in A(i).r /\ cell \in Makes(A(i)) /\ cell \notin Makes(Test({b(i)})) /\ cell \notin Makes(Test({a(i)}))
  BY DEF Makes, Set, Test
<1>8. cell \in A(0).r /\ cell \in A(1).r /\ cell \in Makes(A(0))
  BY DEF Makes, Set
<1> HIDE DEF A, cell
<1>4. LEN_1D \in Int /\ 2 <= LEN_1D
  BY Numbers DEF Lasts
<1>5. Lasts("s343")
  BY DEF Lasts
<1>6. CASE Packing(m) = Sometimes
  <2>1. s341(m).widths = Sometimes /\ s342(m).widths = Sometimes
    BY <1>2, <1>6 DEF K, K2, Kernel
  <2> QED
    BY <2>1 DEF Real
<1>7. CASE Packing(m) # Sometimes
  <2>1. Packing(m) = None /\ m[0] /\ m[1]
    BY <1>5, <1>7, PackingNone
  <2>2. body[0][2] = A(0) /\ body[1][2] = A(1) /\ body2[0][2] = A(0) /\ body2[1][2] = A(1)
    <3>1. Maybe(m[0], A(0)) = A(0)
      BY <2>1 DEF Maybe
    <3>2. Maybe(m[1], A(1)) = A(1)
      BY <2>1 DEF Maybe
    <3>3. 0 \in Int /\ 1 \in Int
      OBVIOUS
    <3>4. body[0][2] = Maybe(m[0], A(0)) /\ body2[0][2] = Maybe(m[0], A(0))
      BY <1>1, <3>3
    <3>5. body[1][2] = Maybe(m[1], A(1)) /\ body2[1][2] = Maybe(m[1], A(1))
      BY <1>1, <3>3
    <3> QED
      BY <3>1, <3>2, <3>4, <3>5
  <2>3. CarriesUp(0, LEN_1D, body, 3, 2, 2, 2, cell)
    <3>2. 0 + 2 - 1 = 1
      OBVIOUS
    <3>3. cell \in body[0 + 2 - 1][2].r /\ cell \in Makes(body[0][2])
      BY <1>8, <2>2, <3>2
    <3>4. ASSUME NEW i \in Int PROVE cell \notin Makes(body[i][1])
      <4>1. body[i][1] = Test({b(i)}) /\ cell \notin Makes(Test({b(i)}))
        BY <1>1, <1>3
      <4> QED
        BY <4>1
    <3>5. \A r \in 1..3 : r < 2 => r = 1
      OBVIOUS
    <3>6. \A i \in Int : 0 <= i => \A r \in 1..3 : r < 2 => cell \notin Makes(body[i][r])
      BY <3>4, <3>5
    <3>7. \A i \in Int : Len(body[i]) = 3
      BY <1>1
    <3> QED
      BY <1>4, <3>3, <3>6, <3>7 DEF CarriesUp
  <2>4. CarriesUp(0, LEN_1D, body2, 3, 2, 2, 2, cell)
    <3>2. 0 + 2 - 1 = 1
      OBVIOUS
    <3>3. cell \in body2[0 + 2 - 1][2].r /\ cell \in Makes(body2[0][2])
      BY <1>8, <2>2, <3>2
    <3>4. ASSUME NEW i \in Int PROVE cell \notin Makes(body2[i][1])
      <4>1. body2[i][1] = Test({a(i)}) /\ cell \notin Makes(Test({a(i)}))
        BY <1>1, <1>3
      <4> QED
        BY <4>1
    <3>5. \A r \in 1..3 : r < 2 => r = 1
      OBVIOUS
    <3>6. \A i \in Int : 0 <= i => \A r \in 1..3 : r < 2 => cell \notin Makes(body2[i][r])
      BY <3>4, <3>5
    <3>7. \A i \in Int : Len(body2[i]) = 3
      BY <1>1
    <3> QED
      BY <1>4, <3>3, <3>6, <3>7 DEF CarriesUp
  <2>5. None \in Int /\ 2 <= None + 1
    BY DEF None
  <2>6. Real(K("s341", None, Loop(Up(0, LEN_1D), body))) /\ Real(K("s342", None, Loop(Up(0, LEN_1D), body2)))
    BY <2>3, <2>4, <2>5, LoopRecurs
  <2> QED
    BY <1>2, <2>1, <2>6
<1> QED
  BY <1>6, <1>7

LEMMA s343Real == ASSUME NEW m, Lasts("s343") PROVE Real(s343(m))
<1> DEFINE cell == out("k")
           A == Set(out("k"), {out("k")})
           B(i, j) == Set(flat(i * Packed(m, LEN_2D) + Packed(m, j)), {out("k"), aa(j, i)})
           rows == [i \in Int |-> Loop(Up(0, LEN_2D), [j \in Int |-> <<Test({bb(j, i)})>> \o If(m[j], <<A, B(i, j)>>)])]
           body == [j \in Int |-> <<Test({bb(j, 0)})>> \o If(m[j], <<A, B(0, j)>>)]
           nest == Loop(Up(0, LEN_2D), rows)
<1>1. ASSUME NEW j \in Int
      PROVE  Len(body[j]) = 3 /\ body[j][1] = Test({bb(j, 0)}) /\ body[j][2] = Maybe(m[j], A)
  BY TestThenTwo
<1>2. s343(m) = K2("s343", Packing(m), nest)
  BY DEF s343
<1>3. rows[0] = Loop(Up(0, LEN_2D), body)
  OBVIOUS
<1> HIDE DEF body, rows
<1>4. LEN_2D \in Int /\ 2 <= LEN_2D
  BY Numbers DEF Lasts
<1>5. Len(nest) \in Nat /\ Len(nest) >= 1 /\ nest[1] = rows[0]
  <2>1. /\ Len(nest) = (IF LEN_2D > 0 THEN LEN_2D - 0 ELSE 0) /\ nest[1] = rows[0 + 1 - 1]
    BY <1>4, UpLoop
  <2> QED
    BY <1>4, <2>1
<1> HIDE DEF nest
<1>6. cell \in A.r /\ cell \in Makes(A) /\ \A j \in Int : cell \notin Makes(Test({bb(j, 0)}))
  BY DEF Makes, Set, Test
<1> HIDE DEF A, cell
<1>7. CASE Packing(m) = Sometimes
  <2>1. s343(m).widths = Sometimes
    BY <1>2, <1>7 DEF K2, Kernel
  <2> QED
    BY <2>1 DEF Real
<1>8. CASE Packing(m) # Sometimes
  <2>1. Packing(m) = None /\ m[0] /\ m[1]
    BY <1>8, PackingNone
  <2>2. body[0][2] = A /\ body[1][2] = A
    <3>1. Maybe(m[0], A) = A
      BY <2>1 DEF Maybe
    <3>2. Maybe(m[1], A) = A
      BY <2>1 DEF Maybe
    <3>3. 0 \in Int /\ 1 \in Int
      OBVIOUS
    <3>4. body[0][2] = Maybe(m[0], A) /\ body[1][2] = Maybe(m[1], A)
      BY <1>1, <3>3
    <3> QED
      BY <3>1, <3>2, <3>4
  <2>3. CarriesUp(0, LEN_2D, body, 3, 2, 2, 2, cell)
    <3>1. 0 + 2 - 1 = 1
      OBVIOUS
    <3>2. cell \in body[0 + 2 - 1][2].r /\ cell \in Makes(body[0][2])
      BY <1>6, <2>2, <3>1
    <3>3. ASSUME NEW j \in Int PROVE cell \notin Makes(body[j][1])
      <4>1. body[j][1] = Test({bb(j, 0)}) /\ cell \notin Makes(Test({bb(j, 0)}))
        BY <1>1, <1>6
      <4> QED
        BY <4>1
    <3>4. \A r \in 1..3 : r < 2 => r = 1
      OBVIOUS
    <3>5. \A i \in Int : 0 <= i => \A r \in 1..3 : r < 2 => cell \notin Makes(body[i][r])
      BY <3>3, <3>4
    <3>6. \A i \in Int : Len(body[i]) = 3
      BY <1>1
    <3> QED
      BY <1>4, <3>2, <3>5, <3>6 DEF CarriesUp
  <2>4. Carries(nest, 1, 2, 2, 2, cell)
    BY <1>3, <1>5, <2>3, UpCarries
  <2>5. None \in Int /\ None >= 1
    BY DEF None
  <2>6. Real(K2("s343", None, nest))
    BY <2>4, <2>5, NestRecurs
  <2> QED
    BY <1>2, <2>1, <2>6
<1> QED
  BY <1>7, <1>8

LEMMA s2111Real == ASSUME Lasts("s2111") PROVE Real(s2111)
<1> DEFINE rows == [j \in Int |-> Loop(Up(1, LEN_2D), [i \in Int |-> <<Set(aa(j, i), {aa(j, i - 1), aa(j - 1, i)})>>])]
           body == [i \in Int |-> <<Set(aa(1, i), {aa(1, i - 1), aa(1 - 1, i)})>>]
           nest == Loop(Up(1, LEN_2D), rows)
<1>1. s2111 = K2("s2111", None, nest)
  BY DEF s2111
<1>2. rows[1] = Loop(Up(1, LEN_2D), body)
  OBVIOUS
<1>3. \A i \in Int : Len(body[i]) = 1
  OBVIOUS
<1>4. aa(1, 1) \in body[1 + 2 - 1][1].r /\ aa(1, 1) \in Makes(body[1][1])
  BY DEF Makes, Set
<1> HIDE DEF body, rows
<1>5. LEN_2D \in Int /\ 2 <= LEN_2D - 1
  BY Numbers DEF Lasts
<1>6. Len(nest) \in Nat /\ Len(nest) >= 1 /\ nest[1] = rows[1]
  <2>1. Len(nest) = (IF LEN_2D > 1 THEN LEN_2D - 1 ELSE 0) /\ nest[1] = rows[1 + 1 - 1]
    BY <1>5, UpLoop
  <2> QED
    BY <1>5, <2>1
<1> HIDE DEF nest
<1>7. CarriesUp(1, LEN_2D, body, 1, 2, 1, 1, aa(1, 1))
  BY <1>3, <1>4, <1>5 DEF CarriesUp
<1>8. Carries(nest, 1, 2, 1, 1, aa(1, 1))
  BY <1>2, <1>6, <1>7, UpCarries
<1>9. None \in Int /\ None >= 1
  BY DEF None
<1> QED
  BY <1>1, <1>8, <1>9, NestRecurs

LEMMA s256Real == ASSUME Lasts("s256") PROVE Real(s256)
<1> DEFINE rows == [i \in Int |-> Loop(Up(1, LEN_2D), [j \in Int |->
                      <<Set(a(j), {a(j - 1)}), Set(aa(j, i), {a(j), bb(j, i), d(j)})>>])]
           body == [j \in Int |-> <<Set(a(j), {a(j - 1)}), Set(aa(j, 0), {a(j), bb(j, 0), d(j)})>>]
           nest == Loop(Up(0, LEN_2D), rows)
<1>1. s256 = K2("s256", None, nest)
  BY DEF s256
<1>2. rows[0] = Loop(Up(1, LEN_2D), body)
  OBVIOUS
<1>3. \A j \in Int : Len(body[j]) = 2
  OBVIOUS
<1>4. a(1) \in body[1 + 2 - 1][1].r /\ a(1) \in Makes(body[1][1])
  BY DEF Makes, Set
<1> HIDE DEF body, rows
<1>5. LEN_2D \in Int /\ 2 <= LEN_2D - 1
  BY Numbers DEF Lasts
<1>6. Len(nest) \in Nat /\ Len(nest) >= 1 /\ nest[1] = rows[0]
  <2>1. Len(nest) = (IF LEN_2D > 0 THEN LEN_2D - 0 ELSE 0) /\ nest[1] = rows[0 + 1 - 1]
    BY <1>5, UpLoop
  <2> QED
    BY <1>5, <2>1
<1> HIDE DEF nest
<1>7. CarriesUp(1, LEN_2D, body, 2, 2, 1, 1, a(1))
  BY <1>3, <1>4, <1>5 DEF CarriesUp
<1>8. Carries(nest, 1, 2, 1, 1, a(1))
  BY <1>2, <1>6, <1>7, UpCarries
<1>9. None \in Int /\ None >= 1
  BY DEF None
<1> QED
  BY <1>1, <1>8, <1>9, NestRecurs

LEMMA s233Real == ASSUME Lasts("s233") PROVE Real(s233)
<1> DEFINE row(n, i) == [j \in Int |-> IF n % 2 = 1 THEN <<Set(aa(j, i), {aa(j - 1, i), cc(j, i)})>>
                                                   ELSE <<Set(bb(j, i), {bb(j, i - 1), cc(j, i)})>>]
           nest == [n \in 1..(2 * (LEN_2D - 1)) |-> Loop(Up(1, LEN_2D), row(n, (n + 1) \div 2))]
           body == [j \in Int |-> <<Set(aa(j, 1), {aa(j - 1, 1), cc(j, 1)})>>]
<1>1. s233 = K2("s233", None, nest)
  BY DEF s233
<1>2. row(1, 1) = body
  OBVIOUS
<1>3. \A j \in Int : Len(body[j]) = 1
  OBVIOUS
<1>4. aa(1, 1) \in body[1 + 2 - 1][1].r /\ aa(1, 1) \in Makes(body[1][1])
  BY DEF Makes, Set
<1> HIDE DEF body, row
<1>5. LEN_2D \in Int /\ 2 <= LEN_2D - 1 /\ 2 * (LEN_2D - 1) \in Nat /\ 1 \in 1..(2 * (LEN_2D - 1)) /\ (1 + 1) \div 2 = 1
  BY Numbers DEF Lasts
<1>6. Len(nest) \in Nat /\ Len(nest) >= 1 /\ nest[1] = Loop(Up(1, LEN_2D), body)
  <2>1. nest[1] = Loop(Up(1, LEN_2D), row(1, 1))
    BY <1>5
  <2>2. nest = [n \in 1..(2 * (LEN_2D - 1)) |-> nest[n]]
    OBVIOUS
  <2> HIDE DEF nest
  <2>3. Len(nest) = 2 * (LEN_2D - 1)
    BY <1>5, <2>2, TurnsOf
  <2> QED
    BY <1>2, <1>5, <2>1, <2>3
<1> HIDE DEF nest
<1>7. CarriesUp(1, LEN_2D, body, 1, 2, 1, 1, aa(1, 1))
  BY <1>3, <1>4, <1>5 DEF CarriesUp
<1>8. Carries(nest, 1, 2, 1, 1, aa(1, 1))
  BY <1>6, <1>7, UpCarries
<1>9. None \in Int /\ None >= 1
  BY DEF None
<1> QED
  BY <1>1, <1>8, <1>9, NestRecurs

LEMMA s2233Real == ASSUME Lasts("s2233") PROVE Real(s2233)
<1> DEFINE row(n, i) == [j \in Int |-> IF n % 2 = 1 THEN <<Set(aa(j, i), {aa(j - 1, i), cc(j, i)})>>
                                                   ELSE <<Set(bb(i, j), {bb(i - 1, j), cc(i, j)})>>]
           nest == [n \in 1..(2 * (LEN_2D - 1)) |-> Loop(Up(1, LEN_2D), row(n, (n + 1) \div 2))]
           body == [j \in Int |-> <<Set(aa(j, 1), {aa(j - 1, 1), cc(j, 1)})>>]
<1>1. s2233 = K2("s2233", None, nest)
  BY DEF s2233
<1>2. row(1, 1) = body
  OBVIOUS
<1>3. \A j \in Int : Len(body[j]) = 1
  OBVIOUS
<1>4. aa(1, 1) \in body[1 + 2 - 1][1].r /\ aa(1, 1) \in Makes(body[1][1])
  BY DEF Makes, Set
<1> HIDE DEF body, row
<1>5. LEN_2D \in Int /\ 2 <= LEN_2D - 1 /\ 2 * (LEN_2D - 1) \in Nat /\ 1 \in 1..(2 * (LEN_2D - 1)) /\ (1 + 1) \div 2 = 1
  BY Numbers DEF Lasts
<1>6. Len(nest) \in Nat /\ Len(nest) >= 1 /\ nest[1] = Loop(Up(1, LEN_2D), body)
  <2>1. nest[1] = Loop(Up(1, LEN_2D), row(1, 1))
    BY <1>5
  <2>2. nest = [n \in 1..(2 * (LEN_2D - 1)) |-> nest[n]]
    OBVIOUS
  <2> HIDE DEF nest
  <2>3. Len(nest) = 2 * (LEN_2D - 1)
    BY <1>5, <2>2, TurnsOf
  <2> QED
    BY <1>2, <1>5, <2>1, <2>3
<1> HIDE DEF nest
<1>7. CarriesUp(1, LEN_2D, body, 1, 2, 1, 1, aa(1, 1))
  BY <1>3, <1>4, <1>5 DEF CarriesUp
<1>8. Carries(nest, 1, 2, 1, 1, aa(1, 1))
  BY <1>6, <1>7, UpCarries
<1>9. None \in Int /\ None >= 1
  BY DEF None
<1> QED
  BY <1>1, <1>8, <1>9, NestRecurs

LEMMA s235Real == ASSUME Lasts("s235") PROVE Real(s235)
<1> DEFINE column(i) == Loop(Up(1, LEN_2D), [j \in Int |-> <<Set(aa(j, i), {aa(j - 1, i), bb(j, i), a(i)})>>])
           S(i) == Set(a(i), {a(i), b(i), c(i)})
           one(i) == <<<<S(i)>>>>
           nest == [n \in 1..(2 * LEN_2D) |->
                      IF n % 2 = 1 THEN one((n - 1) \div 2) ELSE column((n - 1) \div 2)]
           body == [j \in Int |-> <<Set(aa(j, 0), {aa(j - 1, 0), bb(j, 0), a(0)})>>]
           cell == aa(1, 0)
<1>1. s235 = K2("s235", None, nest)
  BY DEF s235
<1>2. column(0) = Loop(Up(1, LEN_2D), body)
  OBVIOUS
<1>3. \A j \in Int : Len(body[j]) = 1
  OBVIOUS
<1>4. cell \in body[1 + 2 - 1][1].r /\ cell \in Makes(body[1][1])
  BY DEF Makes, Set
<1>5. cell \notin Makes(S(0))
  BY CellIs DEF Makes, Set
<1> HIDE DEF body, column, S, cell
<1>6. LEN_2D \in Int /\ 2 <= LEN_2D - 1 /\ 2 * LEN_2D \in Nat /\ 1 \in 1..(2 * LEN_2D) /\ 2 \in 1..(2 * LEN_2D)
  BY Numbers DEF Lasts
<1>7. Len(nest) = 2 * LEN_2D /\ nest[1] = <<<<S(0)>>>> /\ nest[2] = Loop(Up(1, LEN_2D), body)
  <2>0. (1 - 1) \div 2 = 0 /\ (2 - 1) \div 2 = 0 /\ 1 % 2 = 1 /\ 2 % 2 = 0
    OBVIOUS
  <2>1. nest[1] = one(0) /\ nest[2] = column(0)
    BY <1>6, <2>0
  <2>2. nest = [n \in 1..(2 * LEN_2D) |-> nest[n]]
    OBVIOUS
  <2> HIDE DEF nest
  <2>3. Len(nest) = 2 * LEN_2D
    BY <1>6, <2>2, TurnsOf
  <2> QED
    BY <1>2, <2>1, <2>3
<1> HIDE DEF nest
<1>8. CarriesUp(1, LEN_2D, body, 1, 2, 1, 1, cell)
  BY <1>3, <1>4, <1>6 DEF CarriesUp
<1>9. Carries(nest, 2, 2, 1, 1, cell)
  <2> DEFINE L == Loop(Up(1, LEN_2D), body)
  <2>1. Len(<<L>>) = 1 /\ <<L>>[1] = L
    OBVIOUS
  <2>2. Carries(<<L>>, 1, 2, 1, 1, cell)
    BY <1>8, <2>1, UpCarries
  <2>3. nest[2] = L
    BY <1>7
  <2> HIDE DEF L
  <2>4. /\ Len(L) \in Nat /\ 2 \in 2..Len(L) /\ 1 \in 1..Len(L[2]) /\ 1 \in 1..Len(L[1])
        /\ cell \in L[2][1].r /\ cell \in Makes(L[1][1])
        /\ \A n \in 1..Len(L) : \A r \in 1..Len(L[n]) : r < 1 => cell \notin Makes(L[n][r])
    BY <2>1, <2>2 DEF Carries
  <2>5. ASSUME NEW l \in 1..Len(nest), l < 2, NEW n \in 1..Len(nest[l]), NEW r \in 1..Len(nest[l][n])
        PROVE  cell \notin Makes(nest[l][n][r])
    <3> DEFINE I == <<S(0)>>  J == <<I>>
    <3>1. l = 1
      BY <1>6, <1>7, <2>5
    <3>2. Len(I) = 1 /\ I[1] = S(0)
      OBVIOUS
    <3>3. nest[1] = J
      BY <1>7
    <3> HIDE DEF I
    <3>4. Len(J) = 1 /\ J[1] = I
      OBVIOUS
    <3> HIDE DEF J
    <3>5. nest[l] = J /\ n = 1
      BY <2>5, <3>1, <3>3, <3>4
    <3>6. nest[l][n] = I
      BY <3>4, <3>5
    <3>7. r \in 1..Len(I)
      BY <2>5, <3>6
    <3>8. r = 1
      BY <3>2, <3>7
    <3> QED
      BY <1>5, <3>2, <3>6, <3>8
  <2>6. Len(nest) \in Nat /\ 2 \in 1..Len(nest)
    BY <1>6, <1>7
  <2> QED
    BY <2>3, <2>4, <2>5, <2>6 DEF Carries
<1>10. None \in Int /\ None >= 1
  BY DEF None
<1> QED
  BY <1>1, <1>9, <1>10, NestRecurs

\* The running sums: the first lane's is used when all lanes have added.
LEMMA s3112Real == ASSUME Lasts("s3112") PROVE Real(s3112)
<1> DEFINE A(i) == Acc(acc, {a(i)})
           B(i) == Set(b(i), {acc})
           body == [i \in Int |-> <<A(i), B(i)>>]
           L == Loop(Up(0, LEN_1D), body)
           nest == <<L>>
           k == K2("s3112", None, nest)
<1>1. s3112 = k
  BY DEF s3112, K
<1>2. \A i \in Int : Len(body[i]) = 2 /\ body[i][1] = A(i) /\ body[i][2] = B(i)
  OBVIOUS
<1>3. \A i \in Int : acc \in B(i).r /\ acc \in A(i).acc /\ acc \notin A(i).w
  BY DEF Set, Acc
<1> HIDE DEF A, B, body
<1>4. LEN_1D \in Int /\ 2 <= LEN_1D
  BY Numbers DEF Lasts
<1>5. 1..Len(L) = 1..(LEN_1D - 0) /\ \A n \in 1..(LEN_1D - 0) : L[n] = body[0 + n - 1]
  BY <1>4, UpLoop
<1> HIDE DEF L
<1>6. \A n \in 1..Len(L) : Len(L[n]) = 2 /\ acc \in L[n][2].r /\ acc \in L[n][1].acc /\ acc \notin L[n][1].w
  <2>1. ASSUME NEW n \in 1..Len(L)
        PROVE  Len(L[n]) = 2 /\ acc \in L[n][2].r /\ acc \in L[n][1].acc /\ acc \notin L[n][1].w
    <3>1. n \in 1..(LEN_1D - 0) /\ 0 + n - 1 \in Int
      BY <1>4, <1>5
    <3>2. L[n] = body[0 + n - 1]
      BY <1>5, <3>1
    <3> QED
      BY <1>2, <1>3, <3>1, <3>2
  <2> QED
    BY <2>1
<1>7. Len(nest) = 1 /\ nest[1] = L /\ 1 \in 1..Len(L) /\ 2 \in 1..Len(L)
  BY <1>4, <1>5
<1> HIDE DEF nest
<1>8. k.nest = nest /\ InText(k) /\ k.widths = None
  BY DEF K2, Kernel, InText
<1> HIDE DEF k
<1> DEFINE w == <<1, 1, 2>>  u == <<1, 2, 1>>
<1>9. w \in Events(k) /\ u \in Events(k)
  <2>1. 1 \in 1..Len(nest) /\ 1 \in 1..Len(nest[1]) /\ 2 \in 1..Len(nest[1])
    BY <1>7
  <2>2. Len(nest[1][1]) = 2 /\ Len(nest[1][2]) = 2
    BY <1>6, <1>7
  <2>3. 2 \in 1..Len(nest[1][1]) /\ 1 \in 1..Len(nest[1][2])
    BY <2>2
  <2>4. w \in Events(k)
    BY <1>8, <2>1, <2>3, IsEvent
  <2>5. u \in Events(k)
    BY <1>8, <2>1, <2>3, IsEvent
  <2> QED
    BY <2>4, <2>5
<1>10. acc \in At(k, w).r /\ acc \in At(k, u).acc
  BY <1>6, <1>7, <1>8 DEF At
<1>11. ASSUME NEW ev \in Events(k), ev[3] = 1 PROVE acc \notin At(k, ev).w
  <2>1. ev[1] \in 1..Len(nest) /\ ev[2] \in 1..Len(nest[ev[1]])
    BY <1>8, EventIs
  <2>2. ev[1] = 1 /\ ev[2] \in 1..Len(L)
    BY <1>7, <2>1
  <2> QED
    BY <1>6, <1>7, <1>8, <1>11, <2>2 DEF At
<1>12. acc \in Cells(k)
  BY <1>9, <1>10 DEF Cells, Touched
<1>13. w[1] = 1 /\ w[2] = 1 /\ w[3] = 2 /\ u[1] = 1 /\ u[2] = 2 /\ u[3] = 1
  OBVIOUS
<1> HIDE DEF w, u
<1>14. ASSUME NEW v \in 1..AnyWidth, v > None PROVE Recurs(k, v)
  <2>1. v >= 2
    BY <1>14 DEF AnyWidth, None
  <2>2. Overtakes(k, v, w, u, acc)
    BY <1>9, <1>10, <1>11, <1>13, <2>1 DEF Overtakes
  <2> QED
    BY <1>8, <1>9, <1>12, <2>2 DEF Recurs
<1> QED
  BY <1>1, <1>8, <1>14 DEF Real

\* Where all widths are allowed, or it depends on the data, there is nothing to show.
LEMMA AnyReal ==
    ASSUME NEW name, NEW loop
    PROVE  Real(K(name, AnyWidth, loop))
BY DEF Real, K, K2, Kernel, AnyWidth

LEMMA AnyRealNest ==
    ASSUME NEW name, NEW nest
    PROVE  Real(K2(name, AnyWidth, nest))
BY DEF Real, K2, Kernel, AnyWidth

LEMMA AnyRealReordered ==
    ASSUME NEW name, NEW loop, NEW order
    PROVE  Real(Reordered(name, AnyWidth, loop, order))
BY DEF Real, Reordered, Kernel, AnyWidth

LEMMA AnyRealCut ==
    ASSUME NEW name, NEW loop, NEW cuts
    PROVE  Real(Cut(name, AnyWidth, loop, cuts))
BY DEF Real, Cut, Kernel, AnyWidth

LEMMA AnyRealSwapped ==
    ASSUME NEW name, NEW nest
    PROVE  Real(Swapped(name, AnyWidth, nest))
BY DEF Real, Swapped, Kernel, AnyWidth

LEMMA SometimesReal ==
    ASSUME NEW name, NEW loop
    PROVE  Real(K(name, Sometimes, loop))
BY DEF Real, K, K2, Kernel

\* Only two kernels need more than the shortest loops.
LEMMA LastsAll ==
    ASSUME NEW name, Lasts(name)
    PROVE  \A other \in {"s123", "s2111", "s221", "s222", "s2233", "s233", "s235", "s242", "s256", "s341", "s342", "s343", "s3112", "s321", "s322", "s323"} : Lasts(other)
BY DEF Lasts

LEMMA DependenceReal == \A k \in Dependence : Lasts(k.name) => Real(k)
<1>1. Real(s000)
  BY AnyReal DEF s000
<1>2. Real(s111)
  BY AnyReal DEF s111
<1>3. Real(s1111)
  BY AnyReal DEF s1111
<1>4. Real(s1112)
  BY AnyReal DEF s1112
<1>5. Real(s1113)
  BY AnyRealCut DEF s1113
<1>6. Real(s1115)
  BY AnyRealNest DEF s1115
<1>7. Real(s1119)
  BY AnyRealNest DEF s1119
<1>8. Real(s112)
  BY AnyReal DEF s112
<1>9. Real(s113)
  BY AnyReal DEF s113
<1>10. Real(s114)
  BY AnyRealNest DEF s114
<1>11. Real(s115)
  BY AnyRealNest DEF s115
<1>12. Real(s116)
  BY AnyRealReordered DEF s116
<1>13. Real(s118)
  BY AnyRealNest DEF s118
<1>14. Real(s119)
  BY AnyRealNest DEF s119
<1>15. Real(s121)
  BY AnyReal DEF s121
<1>16. Real(s122)
  BY AnyReal DEF s122
<1>17. ASSUME Lasts(s1221.name) PROVE Real(s1221)
  <2>1. s1221.name = "s1221"
    BY DEF s1221, K, K2, Kernel
  <2> QED
    BY <1>17, <2>1, s1221Real
<1>18. Real(s125)
  BY AnyRealNest DEF s125
<1>19. Real(s126)
  BY AnyRealSwapped DEF s126
<1>20. Real(s127)
  BY AnyReal DEF s127
<1>21. Real(s128)
  BY AnyReal DEF s128
<1>22. Real(s131)
  BY AnyReal DEF s131
<1>23. Real(s132)
  BY AnyReal DEF s132
<1>24. Real(s1351)
  BY AnyReal DEF s1351
<1>25. Real(s141)
  BY AnyRealNest DEF s141
<1>26. Real(s1421)
  BY AnyReal DEF s1421
<1>27. Real(s151)
  BY AnyReal DEF s151
<1>28. Real(s152)
  BY AnyReal DEF s152
<1>29. Real(s162)
  BY AnyReal DEF s162
<1>30. Real(s171)
  BY AnyReal DEF s171
<1>31. Real(s172)
  BY AnyReal DEF s172
<1>32. Real(s173)
  BY AnyReal DEF s173
<1>33. Real(s174)
  BY AnyReal DEF s174
<1>34. Real(s175)
  BY AnyReal DEF s175
<1>35. Real(s176)
  BY AnyRealNest DEF s176
<1>36. Real(s2101)
  BY AnyReal DEF s2101
<1>37. Real(s421)
  BY AnyReal DEF s421
<1>38. Real(s422)
  BY AnyReal DEF s422
<1>39. Real(s423)
  BY AnyReal DEF s423
<1>40. ASSUME Lasts(s424.name) PROVE Real(s424)
  <2>1. s424.name = "s424"
    BY DEF s424, K, K2, Kernel
  <2> QED
    BY <1>40, <2>1, s424Real
<1>41. Real(s431)
  BY AnyReal DEF s431
<1> QED
  BY <1>1, <1>2, <1>3, <1>4, <1>5, <1>6, <1>7, <1>8, <1>9, <1>10, <1>11, <1>12, <1>13, <1>14, <1>15, <1>16, <1>17, <1>18, <1>19, <1>20, <1>21, <1>22, <1>23, <1>24, <1>25, <1>26, <1>27, <1>28, <1>29, <1>30, <1>31, <1>32, <1>33, <1>34, <1>35, <1>36, <1>37, <1>38, <1>39, <1>40, <1>41
  DEF Dependence

LEMMA DependenceIfReal == ASSUME NEW m PROVE \A k \in DependenceIf(m) : Lasts(k.name) => Real(k)
<1>1. ASSUME Lasts(s123(m).name) PROVE Real(s123(m))
  BY <1>1, LastsAll, s123Real
<1>2. Real(s124(m))
  BY AnyReal DEF s124
<1>3. Real(s161(m))
  BY AnyRealReordered DEF s161
<1>4. Real(s1161(m))
  BY AnyReal DEF s1161
<1> QED
  BY <1>1, <1>2, <1>3, <1>4
  DEF DependenceIf

LEMMA TransformReal == \A k \in Transform : Lasts(k.name) => Real(k)
<1>1. Real(s2102)
  BY AnyRealNest DEF s2102
<1>2. Real(s211)
  BY AnyRealReordered DEF s211
<1>3. ASSUME Lasts(s2111.name) PROVE Real(s2111)
  BY <1>3, LastsAll, s2111Real
<1>4. Real(s212)
  BY AnyRealReordered DEF s212
<1>5. Real(s1213)
  BY AnyRealReordered DEF s1213
<1>6. ASSUME Lasts(s221.name) PROVE Real(s221)
  BY <1>6, LastsAll, s221Real
<1>7. ASSUME Lasts(s222.name) PROVE Real(s222)
  BY <1>7, LastsAll, s222Real
<1>8. ASSUME Lasts(s2233.name) PROVE Real(s2233)
  BY <1>8, LastsAll, s2233Real
<1>9. Real(s2244)
  BY AnyReal DEF s2244
<1>10. Real(s1244)
  BY AnyRealReordered DEF s1244
<1>11. Real(s2251)
  BY AnyRealReordered DEF s2251
<1>12. Real(s1251)
  BY AnyReal DEF s1251
<1>13. Real(s2275)
  BY AnyRealNest DEF s2275
<1>14. Real(s231)
  BY AnyRealSwapped DEF s231
<1>15. Real(s232)
  BY AnyRealSwapped DEF s232
<1>16. Real(s1232)
  BY AnyRealNest DEF s1232
<1>17. ASSUME Lasts(s233.name) PROVE Real(s233)
  BY <1>17, LastsAll, s233Real
<1>18. ASSUME Lasts(s235.name) PROVE Real(s235)
  BY <1>18, LastsAll, s235Real
<1>19. Real(s241)
  BY AnyRealReordered DEF s241
<1>20. ASSUME Lasts(s242.name) PROVE Real(s242)
  BY <1>20, LastsAll, s242Real
<1>21. Real(s243)
  BY AnyRealReordered DEF s243
<1>22. Real(s244)
  BY AnyRealReordered DEF s244
<1>23. Real(s251)
  BY AnyReal DEF s251
<1>24. Real(s252)
  BY AnyRealReordered DEF s252
<1>25. Real(s254)
  BY AnyRealReordered DEF s254
<1>26. Real(s255)
  BY AnyRealReordered DEF s255
<1>27. ASSUME Lasts(s256.name) PROVE Real(s256)
  BY <1>27, LastsAll, s256Real
<1>28. Real(s257)
  BY AnyRealNest DEF s257
<1>29. Real(s261)
  BY AnyRealReordered DEF s261
<1>30. Real(s3251)
  BY AnyReal DEF s3251
<1> QED
  BY <1>1, <1>2, <1>3, <1>4, <1>5, <1>6, <1>7, <1>8, <1>9, <1>10, <1>11, <1>12, <1>13, <1>14, <1>15, <1>16, <1>17, <1>18, <1>19, <1>20, <1>21, <1>22, <1>23, <1>24, <1>25, <1>26, <1>27, <1>28, <1>29, <1>30
  DEF Transform

LEMMA TransformIfReal == ASSUME NEW m PROVE \A k \in TransformIf(m) : Lasts(k.name) => Real(k)
<1>1. Real(s253(m))
  BY AnyReal DEF s253
<1>2. Real(s258(m))
  BY SometimesReal DEF s258
<1> QED
  BY <1>1, <1>2
  DEF TransformIf

LEMMA ControlReal == \A k \in Control : Lasts(k.name) => Real(k)
<1>1. Real(s276)
  BY AnyReal DEF s276
<1>2. Real(s281)
  BY AnyRealCut DEF s281
<1>3. Real(s1281)
  BY AnyReal DEF s1281
<1>4. Real(s291)
  BY AnyReal DEF s291
<1>5. Real(s292)
  BY AnyReal DEF s292
<1>6. Real(s293)
  BY AnyRealCut DEF s293
<1> QED
  BY <1>1, <1>2, <1>3, <1>4, <1>5, <1>6
  DEF Control

LEMMA ControlIfReal == ASSUME NEW m PROVE \A k \in ControlIf(m) : Lasts(k.name) => Real(k)
<1>1. Real(s271(m))
  BY AnyReal DEF s271
<1>2. Real(s2710(m))
  BY AnyReal DEF s2710
<1>3. Real(s2711(m))
  BY AnyReal DEF s2711
<1>4. Real(s2712(m))
  BY AnyReal DEF s2712
<1>5. Real(s272(m))
  BY AnyReal DEF s272
<1>6. Real(s273(m))
  BY AnyReal DEF s273
<1>7. Real(s274(m))
  BY AnyReal DEF s274
<1>8. Real(s275(m))
  BY AnyRealSwapped DEF s275
<1>9. Real(s277(m))
  BY AnyRealReordered DEF s277
<1>10. Real(s278(m))
  BY AnyReal DEF s278
<1>11. Real(s279(m))
  BY AnyReal DEF s279
<1>12. Real(s1279(m))
  BY AnyReal DEF s1279
<1>13. Real(s331(m))
  BY AnyReal DEF s331
<1>14. Real(s332(m))
  BY AnyReal DEF s332
<1>15. ASSUME Lasts(s341(m).name) PROVE Real(s341(m))
  BY <1>15, LastsAll, s341Real
<1>16. ASSUME Lasts(s342(m).name) PROVE Real(s342(m))
  BY <1>16, LastsAll, s341Real
<1>17. ASSUME Lasts(s343(m).name) PROVE Real(s343(m))
  BY <1>17, LastsAll, s343Real
<1>18. Real(s441(m))
  BY AnyReal DEF s441
<1>19. Real(s442(m))
  BY AnyReal DEF s442
<1>20. Real(s443(m))
  BY AnyReal DEF s443
<1>21. Real(s481(m))
  BY AnyReal DEF s481
<1>22. Real(s482(m))
  BY AnyReal DEF s482
<1> QED
  BY <1>1, <1>2, <1>3, <1>4, <1>5, <1>6, <1>7, <1>8, <1>9, <1>10, <1>11, <1>12, <1>13, <1>14, <1>15, <1>16, <1>17, <1>18, <1>19, <1>20, <1>21, <1>22
  DEF ControlIf

LEMMA ReduceReal == \A k \in Reduce : Lasts(k.name) => Real(k)
<1>1. Real(s311)
  BY AnyReal DEF s311
<1>2. Real(s3110)
  BY AnyRealNest DEF s3110
<1>3. Real(s13110)
  BY AnyRealNest DEF s13110
<1>4. Real(s31111)
  BY AnyReal DEF s31111
<1>5. ASSUME Lasts(s3112.name) PROVE Real(s3112)
  BY <1>5, LastsAll, s3112Real
<1>6. Real(s3113)
  BY AnyReal DEF s3113
<1>7. Real(s312)
  BY AnyReal DEF s312
<1>8. Real(s313)
  BY AnyReal DEF s313
<1>9. Real(s314)
  BY AnyReal DEF s314
<1>10. Real(s315)
  BY AnyRealNest DEF s315
<1>11. Real(s316)
  BY AnyReal DEF s316
<1>12. Real(s317)
  BY AnyReal DEF s317
<1>13. Real(s318)
  BY AnyRealNest DEF s318
<1>14. Real(s319)
  BY AnyReal DEF s319
<1>15. ASSUME Lasts(s321.name) PROVE Real(s321)
  BY <1>15, LastsAll, s321Real
<1>16. ASSUME Lasts(s322.name) PROVE Real(s322)
  BY <1>16, LastsAll, s322Real
<1>17. ASSUME Lasts(s323.name) PROVE Real(s323)
  BY <1>17, LastsAll, s323Real
<1>18. Real(s351)
  BY AnyReal DEF s351
<1>19. Real(s352)
  BY AnyReal DEF s352
<1>20. Real(s353)
  BY AnyReal DEF s353
<1>21. Real(s4112)
  BY AnyReal DEF s4112
<1>22. Real(s4113)
  BY AnyReal DEF s4113
<1>23. Real(s4114)
  BY AnyReal DEF s4114
<1>24. Real(s4115)
  BY AnyReal DEF s4115
<1>25. Real(s4116)
  BY AnyReal DEF s4116
<1>26. Real(s4117)
  BY AnyReal DEF s4117
<1>27. Real(s4121)
  BY AnyReal DEF s4121
<1>28. Real(s451)
  BY AnyReal DEF s451
<1>29. Real(s452)
  BY AnyReal DEF s452
<1>30. Real(s453)
  BY AnyReal DEF s453
<1>31. Real(s471)
  BY AnyReal DEF s471
<1>32. Real(s491)
  BY AnyReal DEF s491
<1> QED
  BY <1>1, <1>2, <1>3, <1>4, <1>5, <1>6, <1>7, <1>8, <1>9, <1>10, <1>11, <1>12, <1>13, <1>14, <1>15, <1>16, <1>17, <1>18, <1>19, <1>20, <1>21, <1>22, <1>23, <1>24, <1>25, <1>26, <1>27, <1>28, <1>29, <1>30, <1>31, <1>32
  DEF Reduce

LEMMA ReduceIfReal == ASSUME NEW m PROVE \A k \in ReduceIf(m) : Lasts(k.name) => Real(k)
<1>1. Real(s3111(m))
  BY AnyReal DEF s3111
<1> QED
  BY <1>1
  DEF ReduceIf

LEMMA PlainReal == \A k \in Plain : Lasts(k.name) => Real(k)
BY DependenceReal, TransformReal, ControlReal, ReduceReal DEF Plain

LEMMA UnderReal == ASSUME NEW n PROVE \A k \in Under(n) : Lasts(k.name) => Real(k)
BY DependenceIfReal, TransformIfReal, ControlIfReal, ReduceIfReal DEF Under

LEMMA RealKernel ==
    ASSUME NEW id \in DOMAIN Kernels, Lasts(id[1])
    PROVE  Real(Kernels[id])
<1>1. PICK n \in 0..Len(Masks) : Kernels[id] \in KernelsOf(n) /\ Kernels[id].name = id[1]
  BY KernelIs
<1> QED
  BY <1>1, PlainReal, UnderReal DEF KernelsOf

\* Where a comment names a width, or says that the loop is a recurrence, one
\* lane more does read a stale value, in every run: for all lengths of the
\* arrays at which the recurrence goes round at all, all conditions and all widths.
THEOREM RecurrencesAreFelt ==
    ASSUME \A id \in Ids : Lasts(id[1])
    PROVE  Spec => []RecurrencesAreReal
<1>1. EveryReal
  BY RealKernel DEF EveryReal, Ids
<1>2. EverySound
  BY EveryKernel DEF EverySound, Ids, Good
<1> QED
  BY <1>1, <1>2, RealIsEnough
=============================================================================
