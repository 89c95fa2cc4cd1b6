------------------------- MODULE ParsecBarrierProofs -------------------------
(***************************************************************************)
(* The barrier keeps its promise for any number of threads and rounds, in  *)
(* both builds.  The inductive invariant has three parts: who holds the    *)
(* mutex (Control), how the counters stand in either phase (Rounds), and   *)
(* where the serial return of the current round is (Serials).              *)
(***************************************************************************)
EXTENDS BarrierChecker, FiniteSetTheorems, TLAPS

\* The mutex is held exactly in the critical sections, one thread at a time;
\* sleepers sit in a wait; nobody leaves during an arrival phase.
Control ==
    /\ \A t \in Threads : t \in mutex <=> pc[t] \in HoldPlaces
    /\ \A t, u \in mutex : t = u
    /\ \A t \in waiting : pc[t] \in {"wait_in", "wait_out"}
    /\ \A t \in Threads : pc[t] = "leave" => ~is_arrival_phase
    /\ \A t \in Threads : pc[t] \notin InsidePlaces \cup {"out"} => left[t] < Rounds

\* During arrivals everyone has left the same rounds, during departures everyone
\* has arrived in the same.
RoundInv ==
    /\ \A t \in Threads : arrived[t] = IF t \in Inside THEN left[t] + 1 ELSE left[t]
    /\ is_arrival_phase => \A t, u \in Threads : left[t] = left[u]
    /\ ~is_arrival_phase => \A t, u \in Threads : arrived[t] = arrived[u]

\* The serial thread of the current round, among those inside or gone.
Chosen(m) == master[m] /\ \A u \in Threads : master[u] => u = m
SerialInv ==
    /\ \A r \in 1..Rounds : \A t \in serials[r] : left[t] >= r
    /\ \A r \in 1..Rounds :
          (\A t \in Threads : left[t] >= r) => \E m \in Threads : serials[r] = {m}
    /\ is_arrival_phase /\ Inside # {} =>
          \E m \in Inside : master[m] /\ \A u \in Inside : master[u] => u = m
    /\ ~is_arrival_phase =>
          \E m \in Threads : /\ Chosen(m)
                             /\ serials[arrived[m]] = IF m \in Inside THEN {} ELSE {m}

\* How the arrival counts is no step of any argument below.
USE DEF Counted

IInv == TypeOK /\ Control /\ CounterInv /\ RoundInv /\ SerialInv /\ NoLostWakeup

-----------------------------------------------------------------------------
(* The steps, as the counters see them. *)

Quiet ==
    /\ UNCHANGED <<n, is_arrival_phase, arrived, left, serials, master>>
    /\ Inside' = Inside
ArriveStep(t) == pc[t] \in {"gate", "regate"} /\ is_arrival_phase /\ Arrive(t)

\* Every step is an arrival, a departure, or leaves the counters alone.
LEMMA Shape ==
    ASSUME TypeOK, [Next]_barrierVars
    PROVE  Quiet \/ \E t \in Threads : ArriveStep(t) \/ Leave(t)
<1>1. ASSUME NEW t \in Threads, Call(t) PROVE Quiet
    BY <1>1 DEF Call, Goto, Quiet, Inside, InsidePlaces, TypeOK, history
<1>2. ASSUME NEW t \in Threads, Lock(t) PROVE Quiet
    BY <1>2 DEF Lock, Resume, Goto, Quiet, Inside, InsidePlaces, TypeOK, history
<1>3. ASSUME NEW t \in Threads, Poll(t) PROVE Quiet
    BY <1>3 DEF Poll, Goto, Quiet, Inside, InsidePlaces, TypeOK, history
<1>4. ASSUME NEW t \in Threads, Gate(t) PROVE Quiet \/ ArriveStep(t)
    BY <1>4 DEF Gate, ArriveStep, Blocked, CondWait, Goto, Quiet, Inside, InsidePlaces, TypeOK, history
<1>5. ASSUME NEW t \in Threads, Door(t) PROVE Quiet
    BY <1>5 DEF Door, CondWait, Goto, Quiet, Inside, InsidePlaces, TypeOK, history
<1>6. ASSUME NEW t \in Threads, SpuriousWakeup(t) PROVE Quiet
    BY <1>6 DEF SpuriousWakeup, Quiet, Inside, history
<1>7. CASE UNCHANGED barrierVars
    BY <1>7 DEF barrierVars, history, Quiet, Inside
<1>8. QED
    BY <1>1, <1>2, <1>3, <1>4, <1>5, <1>6, <1>7 DEF Next, WaitStep, Terminated

\* Cardinalities of what is inside.
LEMMA InsideFacts ==
    /\ IsFiniteSet(Threads) /\ max \in Nat /\ max > 0
    /\ IsFiniteSet(Inside) /\ Cardinality(Inside) \in Nat
    /\ Cardinality(Inside) = 0 <=> Inside = {}
    /\ Cardinality(Inside) >= max => Inside = Threads
<1>1. Inside \subseteq Threads
    BY DEF Inside
<1>2. IsFiniteSet(Threads) /\ Threads # {}
    BY BarrierAssumption
<1>3. max \in Nat /\ max > 0
    BY <1>2, FS_CardinalityType, FS_EmptySet DEF max
<1>4. IsFiniteSet(Inside) /\ Cardinality(Inside) <= max
      /\ (Cardinality(Inside) = max => Inside = Threads)
    BY <1>1, <1>2, FS_Subset DEF max
<1>5. Cardinality(Inside) \in Nat /\ (Cardinality(Inside) = 0 <=> Inside = {})
    BY <1>4, FS_CardinalityType, FS_EmptySet
<1>6. QED
    BY <1>2, <1>3, <1>4, <1>5

LEMMA ArriveInside ==
    ASSUME TypeOK, NEW t \in Threads, ArriveStep(t)
    PROVE  /\ t \notin Inside /\ Inside' = Inside \cup {t}
           /\ Cardinality(Inside') = Cardinality(Inside) + 1
<1>1. t \notin Inside
    BY DEF ArriveStep, Inside, InsidePlaces
<1>2. Inside' = Inside \cup {t}
    BY DEF ArriveStep, Arrive, CondWait, Goto, Inside, InsidePlaces, TypeOK
<1>3. QED
    BY <1>1, <1>2, InsideFacts, FS_AddElement

LEMMA LeaveInside ==
    ASSUME TypeOK, NEW t \in Threads, Leave(t)
    PROVE  /\ t \in Inside /\ Inside' = Inside \ {t}
           /\ Cardinality(Inside') = Cardinality(Inside) - 1
<1>1. t \in Inside
    BY DEF Leave, Inside, InsidePlaces
<1>2. Inside' = Inside \ {t}
    BY DEF Leave, Goto, Inside, InsidePlaces, TypeOK
<1>3. QED
    BY <1>1, <1>2, InsideFacts, FS_RemoveElement

\* The counters are natural numbers.
LEMMA Numbers ==
    ASSUME TypeOK
    PROVE  /\ n \in Nat /\ is_arrival_phase \in BOOLEAN
           /\ left \in [Threads -> Nat] /\ arrived \in [Threads -> Nat]
<1>1. n \in Nat /\ is_arrival_phase \in BOOLEAN
    BY InsideFacts DEF TypeOK
<1>2. left \in [Threads -> Nat] /\ arrived \in [Threads -> Nat]
    BY BarrierAssumption DEF TypeOK
<1>3. QED
    BY <1>1, <1>2

\* The last one in makes the barrier full, the last one out leaves it empty.
LEMMA LastIn ==
    ASSUME TypeOK, CounterInv, NEW t \in Threads, ArriveStep(t), ~MustWait
    PROVE  Inside' = Threads
<1>1. Cardinality(Inside') >= max
    BY ArriveInside, InsideFacts DEF MustWait, CounterInv
<1>2. IsFiniteSet(Threads) /\ Inside' \subseteq Threads
    BY ArriveInside, InsideFacts DEF Inside
<1>3. /\ Cardinality(Inside') <= max /\ Cardinality(Inside') \in Nat /\ max \in Nat
      /\ max = Cardinality(Inside') => Threads = Inside'
    BY <1>2, FS_Subset, FS_CardinalityType DEF max
<1>4. QED
    BY <1>1, <1>3

LEMMA LastOut ==
    ASSUME TypeOK, CounterInv, NEW t \in Threads, Leave(t), n = 1
    PROVE  Inside' = {}
<1>1. Cardinality(Inside') = 0
    BY LeaveInside DEF CounterInv
<1>2. IsFiniteSet(Inside')
    BY LeaveInside, InsideFacts, FS_RemoveElement
<1>3. QED
    BY <1>1, <1>2, FS_EmptySet

-----------------------------------------------------------------------------
(* Each part is kept by every step. *)

LEMMA TypeStep ==
    ASSUME TypeOK, Control, CounterInv, RoundInv, [Next]_barrierVars
    PROVE  TypeOK'
<1>1. ASSUME NEW t \in Threads, Call(t) PROVE TypeOK'
    BY <1>1 DEF Call, Goto, TypeOK, lockVars, history, Places, InsidePlaces
<1>2. ASSUME NEW t \in Threads, Lock(t) PROVE TypeOK'
  <2>1. Resume[pc[t]] \in Places
    BY <1>2 DEF Lock, Resume, Places, InsidePlaces
  <2>2. QED
    BY <1>2, <2>1 DEF Lock, Acquire, Goto, TypeOK, history
<1>3. ASSUME NEW t \in Threads, Poll(t) PROVE TypeOK'
    BY <1>3 DEF Poll, Goto, TypeOK, lockVars, history, Places, InsidePlaces
<1>4. ASSUME NEW t \in Threads, Blocked(t) PROVE TypeOK'
  <2>1. pc' \in [Threads -> Places] /\ mutex' \subseteq Threads /\ waiting' \subseteq Threads
    BY <1>4 DEF Blocked, CondWait, Release, Goto, TypeOK, Places
  <2>2. QED
    BY <1>4, <2>1 DEF Blocked, TypeOK, history
<1>5. ASSUME NEW t \in Threads, ArriveStep(t) PROVE TypeOK'
  <2>1. arrived[t] < Rounds /\ arrived[t] \in Nat /\ Rounds \in Nat
    <3>1. t \notin Inside /\ left[t] < Rounds
      BY <1>5, ArriveInside DEF ArriveStep, Control, InsidePlaces
    <3>2. QED
      BY <3>1, BarrierAssumption DEF RoundInv, TypeOK
  <2>2. arrived' \in [Threads -> 0..Rounds]
    BY <1>5, <2>1 DEF ArriveStep, Arrive, TypeOK
  <2>3. pc' \in [Threads -> Places] /\ mutex' \subseteq Threads /\ waiting' \subseteq Threads
    BY <1>5 DEF ArriveStep, Arrive, Broadcast, CondWait, Release, Goto, TypeOK, Places, InsidePlaces
  <2>4. n' \in 0..max' /\ is_arrival_phase' \in BOOLEAN /\ master' \in [Threads -> BOOLEAN]
    <3>1. n' \in 0..max /\ max' = max
      BY <1>5, InsideFacts DEF ArriveStep, Arrive, TypeOK, CounterInv, max
    <3>2. is_arrival_phase' \in BOOLEAN
      BY <1>5 DEF ArriveStep, Arrive, TypeOK
    <3>3. master' = [master EXCEPT ![t] = FirstIn] /\ FirstIn \in BOOLEAN
      BY <1>5, Zenon DEF ArriveStep, Arrive, FirstIn
    <3>4. master' \in [Threads -> BOOLEAN]
      BY <3>3 DEF TypeOK
    <3>5. QED
      BY <3>1, <3>2, <3>4
  <2>5. UNCHANGED <<spurious, left, serials>>
    BY <1>5 DEF ArriveStep, Arrive
  <2>6. QED
    BY <2>2, <2>3, <2>4, <2>5 DEF TypeOK
<1>6. ASSUME NEW t \in Threads, Door(t) PROVE TypeOK'
  <2>1. pc' \in [Threads -> Places] /\ mutex' \subseteq Threads /\ waiting' \subseteq Threads
    BY <1>6 DEF Door, CondWait, Release, Goto, lockVars, TypeOK, Places, InsidePlaces
  <2>2. QED
    BY <1>6, <2>1 DEF Door, lockVars, TypeOK, history
<1>7. ASSUME NEW t \in Threads, Leave(t) PROVE TypeOK'
  <2>1. arrived[t] = left[t] + 1 /\ arrived[t] \in 0..Rounds /\ left[t] \in 0..Rounds /\ Rounds \in Nat
    BY <1>7, LeaveInside, BarrierAssumption DEF RoundInv, TypeOK
  <2>2. left[t] + 1 \in 1..Rounds /\ left' \in [Threads -> 0..Rounds]
    BY <1>7, <2>1 DEF Leave, TypeOK
  <2>3. serials' \in [1..Rounds -> SUBSET Threads]
    <3>1. serials[left[t] + 1] \cup {t} \in SUBSET Threads
      BY <2>2 DEF TypeOK
    <3>2. QED
      BY <1>7, <2>2, <3>1 DEF Leave, TypeOK
  <2>4. n > 0
    BY <1>7 DEF Leave, Control, CounterInv
  <2>5. n' \in 0..max' /\ is_arrival_phase' \in BOOLEAN /\ waiting' \subseteq Threads /\ mutex' \subseteq Threads
    <3>1. n' \in 0..max' /\ mutex' \subseteq Threads
      BY <1>7, <2>4, InsideFacts DEF Leave, Release, TypeOK, max
    <3>2. is_arrival_phase' \in BOOLEAN /\ waiting' \subseteq Threads
      BY <1>7 DEF Leave, Reopen, Broadcast, TypeOK
    <3>3. QED
      BY <3>1, <3>2
  <2>6. pc' \in [Threads -> Places]
    BY <1>7 DEF Leave, Goto, TypeOK, Places
  <2>7. UNCHANGED <<spurious, master, arrived>>
    BY <1>7 DEF Leave
  <2>8. QED
    BY <2>2, <2>3, <2>5, <2>6, <2>7 DEF TypeOK
<1>8. ASSUME NEW t \in Threads, SpuriousWakeup(t) PROVE TypeOK'
    BY <1>8, BarrierAssumption DEF SpuriousWakeup, TypeOK, history
<1>9. CASE UNCHANGED barrierVars
    BY <1>9 DEF barrierVars, history, TypeOK
<1>10. QED
    BY <1>1, <1>2, <1>3, <1>4, <1>5, <1>6, <1>7, <1>8, <1>9
       DEF Next, WaitStep, Gate, ArriveStep, Terminated

\* Giving the mutex back, to poll or to sleep.
LEMMA ReleaseControl ==
    ASSUME TypeOK, Control, NEW t \in Threads, t \in mutex,
           NEW p \in {"poll_in", "wait_in", "poll_out", "wait_out"},
           p \in {"poll_in", "wait_in"} => left[t] < Rounds,
           mutex' = mutex \ {t}, pc' = [pc EXCEPT ![t] = p],
           \/ waiting' = waiting
           \/ p \in {"wait_in", "wait_out"} /\ waiting' = waiting \cup {t},
           UNCHANGED <<left, is_arrival_phase>>
    PROVE  Control'
<1>1. mutex' = {}
    BY DEF Control
<1>2. \A u \in Threads : pc'[u] = IF u = t THEN p ELSE pc[u]
    BY DEF TypeOK
<1>3. p \notin HoldPlaces /\ \A u \in Threads : pc'[u] \notin HoldPlaces
  <2>1. p \notin HoldPlaces
    BY DEF HoldPlaces
  <2>2. \A u \in Threads : u # t => pc[u] \notin HoldPlaces
    BY DEF Control
  <2>3. QED
    BY <1>2, <2>1, <2>2
<1>4. \A u \in waiting' : pc'[u] \in {"wait_in", "wait_out"}
  <2>1. t \notin waiting
    BY DEF Control, HoldPlaces
  <2>2. ASSUME NEW u \in waiting, u # t PROVE pc'[u] \in {"wait_in", "wait_out"}
    BY <1>2, <2>2 DEF Control, TypeOK
  <2>3. p \in {"wait_in", "wait_out"} => pc'[t] \in {"wait_in", "wait_out"}
    BY <1>2
  <2>4. QED
    BY <2>1, <2>2, <2>3
<1>5. \A u \in Threads : pc'[u] \notin InsidePlaces \cup {"out"} => left[u] < Rounds
    BY <1>2 DEF Control, InsidePlaces
<1>6. \A u \in Threads : pc'[u] = "leave" => ~is_arrival_phase'
    BY <1>3 DEF HoldPlaces
<1>7. \A u \in Threads : u \in mutex' <=> pc'[u] \in HoldPlaces
    BY <1>1, <1>3
<1>8. QED
    BY <1>1, <1>4, <1>5, <1>6, <1>7 DEF Control

LEMMA ControlStep ==
    ASSUME TypeOK, Control, RoundInv, [Next]_barrierVars
    PROVE  Control'
<1>1. ASSUME NEW t \in Threads, pc[t] \in {"gate", "regate"}, Blocked(t) PROVE Control'
  <2>1. t \in mutex /\ left[t] < Rounds
    BY <1>1 DEF Control, HoldPlaces, InsidePlaces
  <2>2. UNCHANGED <<left, is_arrival_phase>>
    BY <1>1 DEF Blocked, history
  <2>3. CASE Spin /\ pc[t] = "gate"
    <3>1. mutex' = mutex \ {t} /\ pc' = [pc EXCEPT ![t] = "poll_in"] /\ waiting' = waiting
      BY <1>1, <2>3, Zenon DEF Blocked, Release, Goto
    <3>2. QED
      BY <2>1, <2>2, <3>1, ReleaseControl
  <2>4. CASE ~(Spin /\ pc[t] = "gate")
    <3>1. /\ mutex' = mutex \ {t} /\ pc' = [pc EXCEPT ![t] = "wait_in"]
          /\ waiting' = waiting \cup {t}
      BY <1>1, <2>4, Zenon DEF Blocked, CondWait, Release, Goto
    <3>2. QED
      BY <2>1, <2>2, <3>1, ReleaseControl
  <2>5. QED
    BY <2>3, <2>4
<1>2. ASSUME NEW t \in Threads, ArriveStep(t), MustWait PROVE Control'
  <2>1. t \in mutex
    BY <1>2 DEF ArriveStep, Control, HoldPlaces
  <2>2. UNCHANGED <<left, is_arrival_phase>>
    BY <1>2 DEF ArriveStep, Arrive
  <2>3. CASE Spin
    <3>1. mutex' = mutex \ {t} /\ pc' = [pc EXCEPT ![t] = "poll_out"] /\ waiting' = waiting
      BY <1>2, <2>3, Zenon DEF ArriveStep, Arrive, Release, Goto
    <3>2. QED
      BY <2>1, <2>2, <3>1, ReleaseControl
  <2>4. CASE ~Spin
    <3>1. /\ mutex' = mutex \ {t} /\ pc' = [pc EXCEPT ![t] = "wait_out"]
          /\ waiting' = waiting \cup {t}
      BY <1>2, <2>4, Zenon DEF ArriveStep, Arrive, CondWait, Release, Goto
    <3>2. QED
      BY <2>1, <2>2, <3>1, ReleaseControl
  <2>5. QED
    BY <2>3, <2>4
<1>3. ASSUME NEW t \in Threads, is_arrival_phase, Door(t) PROVE Control'
  <2>1. t \in mutex /\ UNCHANGED <<left, is_arrival_phase>>
    BY <1>3 DEF Door, history, Control, HoldPlaces
  <2>2. /\ mutex' = mutex \ {t} /\ pc' = [pc EXCEPT ![t] = "wait_out"]
        /\ waiting' = waiting \cup {t}
    BY <1>3 DEF Door, CondWait, Release, Goto
  <2>3. QED
    BY <2>1, <2>2, ReleaseControl
<1> USE DEF Control, TypeOK, Goto, HoldPlaces, InsidePlaces
<1>4. ASSUME NEW t \in Threads, ArriveStep(t), ~MustWait PROVE Control'
    BY <1>4 DEF ArriveStep, Arrive, Broadcast
<1>5. ASSUME NEW t \in Threads, ~is_arrival_phase, Door(t) PROVE Control'
    BY <1>5 DEF Door, lockVars, history
<1>6. ASSUME NEW t \in Threads, Call(t) PROVE Control'
    BY <1>6 DEF Call, lockVars, history
<1>7. ASSUME NEW t \in Threads, Lock(t) PROVE Control'
    BY <1>7 DEF Lock, Resume, Acquire, history
<1>8. ASSUME NEW t \in Threads, Poll(t) PROVE Control'
    BY <1>8 DEF Poll, lockVars, history
<1>9. ASSUME NEW t \in Threads, Leave(t) PROVE Control'
  <2>1. pc' = [pc EXCEPT ![t] = "out"] /\ mutex' = mutex \ {t} /\ left'  = [left EXCEPT ![t] = @ + 1]
    BY <1>9 DEF Leave, Release
  <2>2. \A u \in Threads : u \in mutex' <=> pc'[u] \in HoldPlaces
    BY <1>9, <2>1
  <2>3. mutex' = {} /\ \A u \in Threads : pc'[u] # "leave"
    BY <1>9, <2>1, <2>2 DEF Leave
  <2>4. \A u \in waiting' : pc'[u] \in {"wait_in", "wait_out"}
    BY <1>9, <2>1 DEF Leave, Reopen, Broadcast
  <2>5. QED
    BY <2>1, <2>2, <2>3, <2>4
<1>10. ASSUME NEW t \in Threads, SpuriousWakeup(t) PROVE Control'
    BY <1>10 DEF SpuriousWakeup, history
<1>11. CASE UNCHANGED barrierVars
    BY <1>11 DEF barrierVars, history
<1> HIDE DEF Control, TypeOK, Goto, HoldPlaces, InsidePlaces
<1>12. QED
    BY <1>1, <1>2, <1>3, <1>4, <1>5, <1>6, <1>7, <1>8, <1>9, <1>10, <1>11
       DEF Next, WaitStep, Gate, ArriveStep, Terminated

LEMMA CounterStep ==
    ASSUME TypeOK, Control, CounterInv, [Next]_barrierVars
    PROVE  CounterInv'
<1>0. max' = max
    BY DEF max
<1>1. CASE Quiet
    BY <1>0, <1>1 DEF Quiet, CounterInv
<1>2. ASSUME NEW t \in Threads, ArriveStep(t) PROVE CounterInv'
  <2>1. n' = n + 1 /\ (is_arrival_phase' <=> n + 1 < max) /\ n \in Nat /\ max \in Nat
    BY <1>2, InsideFacts, Numbers DEF ArriveStep, Arrive, MustWait
  <2>2. n' = Cardinality(Inside')
    BY <1>2, <2>1, ArriveInside DEF CounterInv
  <2>3. QED
    BY <1>0, <2>1, <2>2 DEF CounterInv
<1>3. ASSUME NEW t \in Threads, Leave(t) PROVE CounterInv'
  <2>1. n' = n - 1 /\ ~is_arrival_phase /\ n > 0 /\ n \in Nat
    BY <1>3 DEF Leave, Control, CounterInv, TypeOK
  <2>2. is_arrival_phase' <=> n = 1
    BY <1>3, <2>1 DEF Leave, Reopen
  <2>3. n' = Cardinality(Inside')
    BY <1>3, <2>1, LeaveInside DEF CounterInv
  <2>4. max \in Nat /\ max > 0
    BY InsideFacts
  <2>5. QED
    BY <1>0, <2>1, <2>2, <2>3, <2>4 DEF CounterInv
<1>4. QED
    BY <1>1, <1>2, <1>3, Shape

LEMMA RoundStep ==
    ASSUME TypeOK, Control, CounterInv, RoundInv, [Next]_barrierVars
    PROVE  RoundInv'
<1>1. CASE Quiet
    BY <1>1 DEF Quiet, RoundInv
<1>2. ASSUME NEW t \in Threads, ArriveStep(t) PROVE RoundInv'
  <2>1. /\ arrived' = [arrived EXCEPT ![t] = @ + 1] /\ left' = left /\ is_arrival_phase
        /\ t \notin Inside /\ Inside' = Inside \cup {t}
    BY <1>2, ArriveInside DEF ArriveStep, Arrive
  <2>2. \A u \in Threads : arrived'[u] = IF u \in Inside' THEN left'[u] + 1 ELSE left'[u]
    BY <2>1 DEF RoundInv, TypeOK
  <2>3. \A u, v \in Threads : left'[u] = left'[v]
    BY <2>1 DEF RoundInv
  <2>4. ASSUME ~is_arrival_phase' PROVE \A u, v \in Threads : arrived'[u] = arrived'[v]
    <3>1. ~MustWait
      BY <1>2, <2>1, <2>4 DEF ArriveStep, Arrive
    <3>2. Inside' = Threads
      BY <1>2, <3>1, LastIn
    <3>3. QED
      BY <2>2, <2>3, <3>2
  <2>5. QED
    BY <2>2, <2>3, <2>4 DEF RoundInv
<1>3. ASSUME NEW t \in Threads, Leave(t) PROVE RoundInv'
  <2>1. /\ left' = [left EXCEPT ![t] = @ + 1] /\ arrived' = arrived /\ ~is_arrival_phase
        /\ t \in Inside /\ Inside' = Inside \ {t}
    BY <1>3, LeaveInside DEF Leave, Control
  <2>2. \A u \in Threads : arrived'[u] = IF u \in Inside' THEN left'[u] + 1 ELSE left'[u]
    BY <2>1 DEF RoundInv, TypeOK
  <2>3. \A u, v \in Threads : arrived'[u] = arrived'[v]
    BY <2>1 DEF RoundInv
  <2>4. ASSUME is_arrival_phase' PROVE \A u, v \in Threads : left'[u] = left'[v]
    <3>1. n = 1
      BY <1>3, <2>1, <2>4 DEF Leave, Reopen
    <3>2. Inside' = {}
      BY <1>3, <3>1, LastOut
    <3>3. QED
      BY <2>2, <2>3, <3>2
  <2>5. QED
    BY <2>2, <2>3, <2>4 DEF RoundInv
<1>4. QED
    BY <1>1, <1>2, <1>3, Shape

LEMMA SerialStep ==
    ASSUME TypeOK, Control, CounterInv, RoundInv, SerialInv, [Next]_barrierVars
    PROVE  SerialInv'
<1>1. CASE Quiet
    BY <1>1 DEF Quiet, SerialInv, Chosen
<1>2. ASSUME NEW t \in Threads, ArriveStep(t) PROVE SerialInv'
  <2>1. /\ arrived' = [arrived EXCEPT ![t] = @ + 1] /\ UNCHANGED <<left, serials>>
        /\ is_arrival_phase /\ t \notin Inside /\ Inside' = Inside \cup {t}
    BY <1>2, ArriveInside DEF ArriveStep, Arrive
  <2>2. master' = [master EXCEPT ![t] = FirstIn] /\ (FirstIn <=> Inside = {})
    BY <1>2, InsideFacts, Zenon DEF ArriveStep, Arrive, FirstIn, CounterInv
  <2>3. \E m \in Inside' : master'[m] /\ \A u \in Inside' : master'[u] => u = m
    <3>1. \A u \in Threads : u # t => master'[u] = master[u]
      BY <2>2 DEF TypeOK
    <3>2. master'[t] = FirstIn
      BY <2>2 DEF TypeOK
    <3>3. CASE Inside = {}
      BY <2>1, <2>2, <3>2, <3>3
    <3>4. CASE Inside # {}
      <4>1. PICK m \in Inside : master[m] /\ \A u \in Inside : master[u] => u = m
        BY <2>1, <3>4 DEF SerialInv
      <4>2. m # t /\ m \in Inside' /\ m \in Threads
        BY <2>1 DEF Inside
      <4>3. \A u \in Inside' : master'[u] => u = m
        BY <2>1, <2>2, <3>1, <3>2, <3>4, <4>1 DEF Inside
      <4>4. QED
        BY <3>1, <4>1, <4>2, <4>3
    <3>5. QED
      BY <3>3, <3>4
  <2>4. ASSUME ~is_arrival_phase'
        PROVE  \E m \in Threads : /\ Chosen(m)'
                                  /\ serials'[arrived'[m]] = IF m \in Inside' THEN {} ELSE {m}
    <3>1. PICK m \in Inside' : master'[m] /\ \A u \in Inside' : master'[u] => u = m
      BY <2>3
    <3>2. RoundInv' /\ TypeOK'
      BY RoundStep, TypeStep
    <3>3. Inside' = Threads
      <4>1. ~MustWait
        BY <1>2, <2>4 DEF ArriveStep, Arrive
      <4>2. QED
        BY <1>2, <4>1, LastIn
    <3>4. arrived'[m] = left[m] + 1 /\ left[m] \in 0..Rounds /\ arrived'[m] \in 0..Rounds
      BY <2>1, <3>2, <3>3 DEF RoundInv, TypeOK
    <3>5. arrived'[m] \in 1..Rounds
      BY <3>4, BarrierAssumption
    <3>6. serials[arrived'[m]] = {}
      <4>1. \A u \in Threads : left[u] < arrived'[m]
        <5>1. \A u \in Threads : left[u] = left[m]
          BY <2>1, <3>3 DEF RoundInv
        <5>2. QED
          BY <3>4, <5>1, BarrierAssumption
      <4>2. serials[arrived'[m]] \subseteq Threads
        BY <3>5 DEF TypeOK
      <4>3. QED
        BY <3>5, <4>1, <4>2, BarrierAssumption DEF SerialInv, TypeOK
    <3>7. QED
      BY <2>1, <3>1, <3>3, <3>6 DEF Chosen
  <2>5. QED
    BY <2>1, <2>3, <2>4 DEF SerialInv
<1>3. ASSUME NEW t \in Threads, Leave(t) PROVE SerialInv'
  <2> DEFINE r == left[t] + 1
  <2>1. /\ left' = [left EXCEPT ![t] = r] /\ UNCHANGED <<arrived, master>> /\ ~is_arrival_phase
        /\ t \in Inside /\ Inside' = Inside \ {t}
    BY <1>3, LeaveInside DEF Leave, Control
  <2>2. PICK m \in Threads : Chosen(m) /\ serials[arrived[m]] = IF m \in Inside THEN {} ELSE {m}
    BY <2>1 DEF SerialInv
  <2>3. arrived[t] = r /\ arrived[m] = r /\ r \in 1..Rounds
    BY <2>1, BarrierAssumption DEF RoundInv, TypeOK
  <2>4. serials' = IF master[t] THEN [serials EXCEPT ![r] = @ \cup {t}] ELSE serials
    BY <1>3 DEF Leave
  <2>5. serials'[r] = IF m \in Inside' THEN {} ELSE {m}
    <3>1. CASE m = t
      BY <2>1, <2>2, <2>3, <2>4, <3>1 DEF Chosen, TypeOK
    <3>2. CASE m # t
      BY <2>1, <2>2, <2>3, <2>4, <3>2 DEF Chosen
    <3>3. QED
      BY <3>1, <3>2
  <2>6. \A q \in 1..Rounds : q # r => serials'[q] = serials[q]
    BY <2>3, <2>4 DEF TypeOK
  <2>7. Chosen(m)'
    BY <2>1, <2>2 DEF Chosen
  <2>8. \A u \in Threads : left'[u] >= left[u] /\ (u # t => left'[u] = left[u])
    BY <2>1 DEF TypeOK
  <2>9. RoundInv' /\ TypeOK'
    BY RoundStep, TypeStep
  <2>10. \A u \in Threads : u \notin Inside' => left'[u] = r
    BY <2>1, <2>3, <2>9 DEF RoundInv, TypeOK
  <2>11. ASSUME NEW q \in 1..Rounds, NEW u \in serials'[q] PROVE left'[u] >= q
    <3>1. CASE q = r
      BY <2>3, <2>5, <2>10, <2>11, <3>1
    <3>2. CASE q # r
      <4>1. u \in serials[q] /\ u \in Threads
        BY <2>6, <2>11, <3>2 DEF TypeOK
      <4>2. left[u] >= q /\ left[u] \in Nat /\ left'[u] \in Nat
        BY <2>9, <4>1, BarrierAssumption DEF SerialInv, TypeOK
      <4>3. QED
        BY <2>8, <4>1, <4>2
    <3>3. QED
      BY <3>1, <3>2
  <2>12. ASSUME NEW q \in 1..Rounds, \A u \in Threads : left'[u] >= q
         PROVE  \E v \in Threads : serials'[q] = {v}
    <3>1. CASE q = r
      <4>1. m \notin Inside'
        BY <2>1, <2>3, <2>9, <2>12, <3>1 DEF RoundInv, TypeOK
      <4>2. QED
        BY <2>5, <3>1, <4>1
    <3>2. CASE q # r
      <4>1. left'[t] = r /\ q < r
        BY <2>1, <2>3, <2>12, <3>2 DEF TypeOK
      <4>2. \A u \in Threads : left[u] >= q
        <5>1. left[t] \in Nat /\ q \in Nat
          BY Numbers
        <5>2. \A u \in Threads : u # t => left[u] >= q
          BY <2>8, <2>12
        <5>3. left[t] >= q
          BY <4>1, <5>1
        <5>4. QED
          BY <5>2, <5>3
      <4>3. QED
        BY <2>6, <3>2, <4>2 DEF SerialInv
    <3>3. QED
      BY <3>1, <3>2
  <2>13. is_arrival_phase' => Inside' = {}
    <3>1. is_arrival_phase' => n = 1
      BY <1>3, <2>1 DEF Leave, Reopen
    <3>2. QED
      BY <1>3, <3>1, LastOut
  <2>14. arrived'[m] = r
    BY <2>1, <2>3
  <2>15. QED
    BY <2>5, <2>7, <2>11, <2>12, <2>13, <2>14 DEF SerialInv
<1>4. QED
    BY <1>1, <1>2, <1>3, Shape

LEMMA WakeupStep ==
    ASSUME TypeOK, Control, NoLostWakeup, [Next]_barrierVars
    PROVE  NoLostWakeup'
<1> USE DEF NoLostWakeup, TypeOK, Goto
<1>1. ASSUME NEW t \in Threads, Call(t) PROVE NoLostWakeup'
    BY <1>1 DEF Call, lockVars
<1>2. ASSUME NEW t \in Threads, Lock(t) PROVE NoLostWakeup'
    BY <1>2 DEF Lock
<1>3. ASSUME NEW t \in Threads, Poll(t) PROVE NoLostWakeup'
    BY <1>3 DEF Poll, lockVars
<1>4. ASSUME NEW t \in Threads, ~is_arrival_phase, Blocked(t) PROVE NoLostWakeup'
    BY <1>4 DEF Blocked, CondWait
<1>5. ASSUME NEW t \in Threads, ArriveStep(t) PROVE NoLostWakeup'
  <2>1. CASE MustWait
    BY <1>5, <2>1 DEF ArriveStep, Arrive, CondWait
  <2>2. CASE ~MustWait
    BY <1>5, <2>2 DEF ArriveStep, Arrive, Broadcast
  <2>3. QED
    BY <2>1, <2>2
<1>6. ASSUME NEW t \in Threads, Door(t) PROVE NoLostWakeup'
    BY <1>6 DEF Door, CondWait, lockVars
<1>7. ASSUME NEW t \in Threads, Leave(t) PROVE NoLostWakeup'
  <2>1. waiting' = {} \/ (waiting' = waiting /\ is_arrival_phase' = is_arrival_phase)
    BY <1>7 DEF Leave, Reopen, Broadcast
  <2>2. pc' = [pc EXCEPT ![t] = "out"]
    BY <1>7 DEF Leave
  <2>3. QED
    BY <2>1, <2>2
<1>8. ASSUME NEW t \in Threads, SpuriousWakeup(t) PROVE NoLostWakeup'
    BY <1>8 DEF SpuriousWakeup
<1>9. CASE UNCHANGED barrierVars
    BY <1>9 DEF barrierVars
<1>10. QED
    BY <1>1, <1>2, <1>3, <1>4, <1>5, <1>6, <1>7, <1>8, <1>9
       DEF Next, WaitStep, Gate, ArriveStep, Terminated

-----------------------------------------------------------------------------
LEMMA InitInv == Init => IInv
<1> SUFFICES ASSUME Init PROVE IInv
    OBVIOUS
<1>1. Inside = {}
    BY DEF Init, Inside, InsidePlaces
<1>2. TypeOK
    BY BarrierAssumption, InsideFacts DEF Init, TypeOK, Places
<1>3. CounterInv
    BY <1>1, InsideFacts DEF Init, CounterInv
<1>4. Control
    BY DEF Init, Control, HoldPlaces, InsidePlaces
<1>5. RoundInv
    BY <1>1 DEF Init, RoundInv
<1>6. SerialInv
  <2>1. PICK t \in Threads : left[t] = 0
    BY BarrierAssumption DEF Init
  <2>2. QED
    BY <1>1, <2>1 DEF Init, SerialInv
<1>7. QED
    BY <1>2, <1>3, <1>4, <1>5, <1>6 DEF Init, IInv, NoLostWakeup

(* The inductive invariant holds in every state: the counter, who holds the   *)
(* mutex, and how far the threads inside are apart, in parsec_barrier_wait.   *)
THEOREM BarrierInvariant == Spec => []IInv
<1>1. IInv /\ [Next]_barrierVars => IInv'
    BY TypeStep, ControlStep, CounterStep, RoundStep, SerialStep, WakeupStep DEF IInv
<1>2. QED
    BY <1>1, InitInv, PTL DEF Spec

\* The barrier's variables stay in their types.
THEOREM BarrierTypes == Spec => []TypeOK
<1>1. IInv => TypeOK
    BY DEF IInv
<1>2. QED
    BY <1>1, BarrierInvariant, PTL

\* n is the number of threads inside, and the phase says which way they go.
THEOREM CounterCorrect == Spec => []CounterInv
<1>1. IInv => CounterInv
    BY DEF IInv
<1>2. QED
    BY <1>1, BarrierInvariant, PTL

\* No thread sleeps on the condition variable past the broadcast it waits for.
THEOREM WakeupsKept == Spec => []NoLostWakeup
<1>1. IInv => NoLostWakeup
    BY DEF IInv
<1>2. QED
    BY <1>1, BarrierInvariant, PTL

\* No thread leaves a round early or enters one while the last is still leaving.
THEOREM RoundsNeverMix == Spec => []RoundsApart
<1>1. ASSUME IInv, NEW t \in Threads, NEW u \in Threads
      PROVE  left[t] <= arrived[u] /\ arrived[t] <= left[u] + 1
  <2>1. /\ left[t] \in Nat /\ left[u] \in Nat
        /\ arrived[t] \in {left[t], left[t] + 1} /\ arrived[u] \in {left[u], left[u] + 1}
    BY <1>1, BarrierAssumption DEF IInv, RoundInv, TypeOK
  <2>2. left[t] = left[u] \/ arrived[t] = arrived[u]
    BY <1>1 DEF IInv, RoundInv
  <2>3. QED
    BY <2>1, <2>2
<1>2. IInv => RoundsApart
    BY <1>1 DEF RoundsApart
<1>3. QED
    BY <1>2, BarrierInvariant, PTL

\* A round has exactly one serial thread.
THEOREM SerialUnique == Spec => []OneSerial
<1>1. ASSUME IInv, NEW r \in 1..Rounds
      PROVE  /\ serials[r] = {} \/ \E m \in Threads : serials[r] = {m}
             /\ (\A t \in Threads : left[t] >= r) => serials[r] # {}
  <2>1. CASE \A t \in Threads : left[t] >= r
    BY <1>1, <2>1 DEF IInv, SerialInv
  <2>2. ASSUME NEW u \in Threads, left[u] < r
        PROVE  serials[r] = {} \/ \E m \in Threads : serials[r] = {m}
    <3>1. serials[r] \subseteq Threads
      BY <1>1 DEF IInv, TypeOK
    <3>2. CASE is_arrival_phase
      <4>1. \A t \in Threads : left[t] < r
        BY <1>1, <2>2, <3>2 DEF IInv, RoundInv
      <4>2. QED
        BY <1>1, <3>1, <4>1, BarrierAssumption DEF IInv, SerialInv, TypeOK
    <3>3. CASE ~is_arrival_phase
      <4>1. PICK m \in Threads : serials[arrived[m]] = IF m \in Inside THEN {} ELSE {m}
        BY <1>1, <3>3 DEF IInv, SerialInv
      <4>2. arrived[m] <= r
        <5>1. arrived[m] = arrived[u] /\ arrived[u] \in {left[u], left[u] + 1}
          BY <1>1, <3>3 DEF IInv, RoundInv
        <5>2. QED
          BY <1>1, <2>2, <5>1, BarrierAssumption DEF IInv, TypeOK
      <4>3. CASE arrived[m] = r
        BY <4>1, <4>3
      <4>4. CASE arrived[m] < r
        <5>1. \A t \in Threads : left[t] <= arrived[t] /\ arrived[t] = arrived[m]
          BY <1>1, <3>3, Numbers DEF IInv, RoundInv
        <5>2. \A t \in Threads : left[t] < r
          BY <1>1, <4>4, <5>1, BarrierAssumption DEF IInv, TypeOK
        <5>3. QED
          BY <1>1, <3>1, <5>2, BarrierAssumption DEF IInv, SerialInv, TypeOK
      <4>5. QED
        BY <1>1, <4>2, <4>3, <4>4, BarrierAssumption DEF IInv, TypeOK
    <3>4. QED
      BY <3>2, <3>3
  <2>3. QED
    <3>1. \A t \in Threads : left[t] \in Int
      BY <1>1, BarrierAssumption DEF IInv, TypeOK
    <3>2. QED
      BY <2>1, <2>2, <3>1, BarrierAssumption
<1>2. Cardinality({}) = 0 /\ \A m : Cardinality({m}) = 1
    BY FS_EmptySet, FS_Singleton
<1>3. ASSUME IInv, NEW r \in 1..Rounds
      PROVE  /\ Cardinality(serials[r]) <= 1
             /\ (\A t \in Threads : left[t] >= r) => serials[r] # {}
  <2>1. CASE serials[r] = {}
    BY <1>1, <1>2, <1>3, <2>1
  <2>2. CASE \E m \in Threads : serials[r] = {m}
    <3>1. PICK m \in Threads : serials[r] = {m}
      BY <2>2
    <3>2. serials[r] # {}
      BY <3>1
    <3>3. Cardinality(serials[r]) = 1
      BY <1>2, <3>1
    <3>4. QED
      BY <3>2, <3>3
  <2>3. QED
    BY <1>1, <1>3, <2>1, <2>2
<1>4. IInv => OneSerial
    BY <1>3 DEF OneSerial
<1>5. QED
    BY <1>4, BarrierInvariant, PTL

-----------------------------------------------------------------------------
(* The refinement: an arrival is the promise's arrival, a departure its        *)
(* departure, everything else is a stutter.                                    *)

LEMMA PromiseStep ==
    ASSUME IInv, [Next]_barrierVars
    PROVE  [Promise!Next]_(Promise!promiseVars)
<1>1. CASE Quiet
    BY <1>1 DEF Quiet, Promise!promiseVars
<1>2. ASSUME NEW t \in Threads, ArriveStep(t) PROVE Promise!Arrive(t)
  <2>1. t \notin Inside /\ left[t] < Rounds
    BY <1>2, ArriveInside DEF IInv, ArriveStep, Control, InsidePlaces
  <2>2. QED
    BY <1>2, <2>1 DEF ArriveStep, Arrive, Promise!Arrive, IInv, RoundInv
<1>3. ASSUME NEW t \in Threads, Leave(t) PROVE Promise!Leave(t)
  <2> DEFINE r == left[t] + 1
  <2>1. ~is_arrival_phase /\ t \in Inside
    BY <1>3, LeaveInside DEF IInv, Leave, Control
  <2>2. PICK m \in Threads : Chosen(m) /\ serials[arrived[m]] = IF m \in Inside THEN {} ELSE {m}
    BY <2>1 DEF IInv, SerialInv
  <2>3. left[t] \in Nat /\ arrived[t] = r /\ \A u \in Threads : arrived[u] = r
    BY <2>1, BarrierAssumption DEF IInv, RoundInv, TypeOK
  <2>4. left' = [left EXCEPT ![t] = r] /\ UNCHANGED arrived
    BY <1>3 DEF Leave
  <2>5. serials' = IF master[t] THEN [serials EXCEPT ![r] = @ \cup {t}] ELSE serials
    BY <1>3 DEF Leave
  <2>6. \/ serials[r] = {} /\ serials' = [serials EXCEPT ![r] = {t}]
        \/ ~((\A u \in Threads \ {t} : left[u] >= r) /\ serials[r] = {}) /\ UNCHANGED serials
    <3>1. CASE m = t
      BY <2>1, <2>2, <2>3, <2>5, <3>1 DEF Chosen
    <3>2. CASE m # t
      <4>1. UNCHANGED serials
        BY <2>2, <2>5, <3>2 DEF Chosen
      <4>2. ASSUME m \in Inside PROVE left[m] < r
        BY <2>3, <4>2, BarrierAssumption DEF IInv, RoundInv, TypeOK
      <4>3. left[m] >= r => serials[r] # {}
        <5>1. CASE m \in Inside
          <6>1. left[m] \in Int /\ r \in Int /\ left[m] < r
            BY <2>3, <4>2, <5>1, BarrierAssumption DEF IInv, TypeOK
          <6>2. QED
            BY <6>1
        <5>2. CASE m \notin Inside
          BY <2>2, <2>3, <5>2
        <5>3. QED
          BY <5>1, <5>2
      <4>4. QED
        BY <3>2, <4>1, <4>3
    <3>3. QED
      BY <3>1, <3>2
  <2>7. \A u \in Threads : arrived[u] >= r
    BY <2>3
  <2>8. QED
    BY <2>3, <2>4, <2>6, <2>7 DEF Promise!Leave
<1>4. QED
    BY <1>1, <1>2, <1>3, Shape DEF IInv, Promise!Next

\* The barrier implements the promise of a barrier.
THEOREM BarrierRefines == Spec => KeepsPromise
<1>1. Init => Promise!Init
    BY DEF Init, Promise!Init
<1>2. QED
    BY <1>1, PromiseStep, BarrierInvariant, PTL DEF Spec, KeepsPromise, Promise!Spec

-----------------------------------------------------------------------------
(***************************************************************************)
(* Threads that only the barrier keeps apart find every counter at the     *)
(* same value, for any number of threads and waits, in both builds.        *)
(***************************************************************************)

\* The checker numbers its threads from 0, and picks counters by these numbers.
Numbered == Threads = 0..(max - 1)

\* A thread is at most one step behind its waits, and its counter tells how many
\* times it has written; what it read last is what it will write, less one.
CheckerTypes ==
    /\ result_worker \in [Threads -> Nat]
    /\ temp \in [Threads -> Nat]
    /\ done \in [Threads -> Nat]
Steps ==
    \A t \in Threads :
        /\ done[t] <= left[t] /\ left[t] <= done[t] + 1
        /\ pc[t] # "out" => done[t] = left[t]
Counts ==
    \A t \in Threads :
        /\ result_worker[t] = done[t] \div 2
        /\ done[t] % 2 = 1 => temp[t] = done[t] \div 2
CheckInv == CheckerTypes /\ Steps /\ Counts

\* Whoever reads after wait number L finds everybody L - 1 or L steps on.
LEMMA SameFollows ==
    ASSUME IInv, CheckInv
    PROVE  SameAfterEachStep
<1> SUFFICES ASSUME NEW t \in Threads, Reading(t), NEW u \in Threads
             PROVE  result_worker[u] = left[t] \div 2
    BY DEF SameAfterEachStep
<1>1. /\ left[t] \in Nat /\ left[u] \in Nat /\ arrived[t] \in Nat /\ arrived[u] \in Nat
      /\ done[t] \in Nat /\ done[u] \in Nat
    BY BarrierAssumption DEF IInv, TypeOK, CheckInv, CheckerTypes
<1>2. arrived[t] = left[t]
    BY DEF Reading, Due, IInv, RoundInv, Inside, InsidePlaces
<1>3. /\ left[t] <= arrived[u] /\ left[u] <= arrived[t]
      /\ arrived[u] \in {left[u], left[u] + 1}
  <2>1. arrived[u] \in {left[u], left[u] + 1}
    BY DEF IInv, RoundInv
  <2>2. left[t] = left[u] \/ arrived[t] = arrived[u]
    BY DEF IInv, RoundInv
  <2>3. QED
    BY <1>1, <1>2, <2>1, <2>2
<1>4. done[u] \in {left[t] - 1, left[t]}
  <2>1. done[u] <= left[t]
    BY <1>1, <1>2, <1>3 DEF CheckInv, Steps
  <2>2. CASE left[u] >= left[t]
    BY <1>1, <2>1, <2>2 DEF CheckInv, Steps
  <2>3. CASE left[u] < left[t]
    <3>1. left[u] = left[t] - 1 /\ arrived[u] # left[u]
      BY <1>1, <1>3, <2>3
    <3>2. pc[u] # "out"
      BY <3>1 DEF IInv, RoundInv, Inside, InsidePlaces
    <3>3. QED
      BY <3>1, <3>2 DEF CheckInv, Steps
  <2>4. QED
    BY <1>1, <2>2, <2>3
<1>5. left[t] % 2 = 1
    BY DEF Reading
<1>6. done[u] \div 2 = left[t] \div 2
    BY <1>1, <1>4, <1>5
<1>7. QED
    BY <1>6 DEF CheckInv, Counts

LEMMA ReadKeeps ==
    ASSUME Numbered, IInv, CheckInv, NEW t \in Threads, Read(t)
    PROVE  CheckInv'
<1> DEFINE idx == (PRIME_NUMBER * (result_worker[t] + t)) % max
<1>1. /\ done[t] \in Nat /\ left[t] \in Nat /\ result_worker[t] \in Nat /\ t \in Nat
      /\ max \in Nat /\ max > 0
    BY InsideFacts, BarrierAssumption DEF IInv, TypeOK, CheckInv, CheckerTypes, Numbered
<1>2. idx \in Threads
  <2>1. PRIME_NUMBER * (result_worker[t] + t) \in Nat
    BY <1>1 DEF PRIME_NUMBER
  <2> HIDE DEF max, PRIME_NUMBER
  <2>2. idx \in 0..(max - 1)
    BY <1>1, <2>1
  <2>3. QED
    BY <2>2 DEF Numbered
<1>3. Reading(t) /\ temp' = [temp EXCEPT ![t] = result_worker[idx]]
    BY DEF Read
<1>4. temp' = [temp EXCEPT ![t] = left[t] \div 2]
    BY <1>2, <1>3, SameFollows DEF SameAfterEachStep
<1>5. /\ done' = [done EXCEPT ![t] = @ + 1] /\ result_worker' = result_worker
      /\ left' = left /\ pc' = pc
    BY DEF Read, barrierVars, history
<1>6. left[t] = done[t] + 1 /\ left[t] % 2 = 1 /\ pc[t] = "out"
    BY <1>1, <1>3 DEF Reading, Due, CheckInv, Steps
<1>7. (done[t] + 1) \div 2 = done[t] \div 2 /\ left[t] \div 2 \in Nat
    BY <1>1, <1>6
<1>8. CheckerTypes'
    BY <1>1, <1>4, <1>5, <1>7 DEF CheckInv, CheckerTypes
<1>9. Steps'
    BY <1>1, <1>5, <1>6 DEF CheckInv, CheckerTypes, Steps
<1>10. Counts'
    BY <1>4, <1>5, <1>6, <1>7 DEF CheckInv, CheckerTypes, Counts
<1>11. QED
    BY <1>8, <1>9, <1>10 DEF CheckInv

LEMMA WriteKeeps ==
    ASSUME IInv, CheckInv, NEW t \in Threads, Write(t)
    PROVE  CheckInv'
<1>1. /\ done[t] \in Nat /\ left[t] \in Nat /\ temp[t] \in Nat
    BY BarrierAssumption DEF IInv, TypeOK, CheckInv, CheckerTypes
<1>2. /\ done' = [done EXCEPT ![t] = @ + 1] /\ temp' = temp /\ left' = left /\ pc' = pc
      /\ result_worker' = [result_worker EXCEPT ![t] = temp[t] + 1]
    BY DEF Write, barrierVars, history
<1>3. left[t] = done[t] + 1 /\ left[t] % 2 = 0 /\ pc[t] = "out"
    BY <1>1 DEF Write, Writing, Due, CheckInv, Steps
<1>4. done[t] % 2 = 1 /\ (done[t] + 1) % 2 # 1 /\ (done[t] + 1) \div 2 = done[t] \div 2 + 1
    BY <1>1, <1>3
<1>5. temp[t] = done[t] \div 2
    BY <1>4 DEF CheckInv, Counts
<1>6. CheckerTypes'
    BY <1>1, <1>2 DEF CheckInv, CheckerTypes
<1>7. Steps'
    BY <1>1, <1>2, <1>3 DEF CheckInv, CheckerTypes, Steps
<1>8. Counts'
    BY <1>2, <1>4, <1>5 DEF CheckInv, CheckerTypes, Counts
<1>9. QED
    BY <1>6, <1>7, <1>8 DEF CheckInv

\* A step within the barrier returns a thread from its wait, or none.
LEMMA WithinStep ==
    ASSUME TypeOK, NEW t \in Threads, WaitStep(t)
    PROVE  /\ pc[t] # "out" /\ \A u \in Threads \ {t} : pc'[u] = pc[u]
           /\ \/ left' = left /\ pc'[t] # "out"
              \/ left' = [left EXCEPT ![t] = @ + 1] /\ pc'[t] = "out"
<1>1. CASE Lock(t)
    BY <1>1 DEF Lock, Resume, Goto, TypeOK, history
<1>2. CASE Poll(t)
    BY <1>2 DEF Poll, Goto, TypeOK, history
<1>3. CASE Gate(t)
    BY <1>3 DEF Gate, Arrive, Blocked, CondWait, Goto, TypeOK, history
<1>4. CASE Door(t)
    BY <1>4 DEF Door, CondWait, Goto, TypeOK, history
<1>5. CASE Leave(t)
    BY <1>5 DEF Leave, Goto, TypeOK
<1>6. QED
    BY <1>1, <1>2, <1>3, <1>4, <1>5 DEF WaitStep

LEMMA CheckerStep ==
    ASSUME Numbered, IInv, CheckInv, [CheckerNext]_allVars
    PROVE  CheckInv'
<1>1. ASSUME NEW t \in Threads, Within(t) PROVE CheckInv'
  <2>1. UNCHANGED checkerVars /\ TypeOK
    BY <1>1 DEF Within, IInv
  <2>2. /\ pc[t] # "out" /\ \A u \in Threads \ {t} : pc'[u] = pc[u]
        /\ \/ left' = left /\ pc'[t] # "out"
           \/ left' = [left EXCEPT ![t] = @ + 1] /\ pc'[t] = "out"
    BY <1>1, <2>1, WithinStep DEF Within
  <2>3. ASSUME NEW u \in Threads
        PROVE  /\ done'[u] <= left'[u] /\ left'[u] <= done'[u] + 1
               /\ pc'[u] # "out" => done'[u] = left'[u]
    <3>1. /\ done'[u] = done[u] /\ done[u] \in Nat /\ left[u] \in Nat /\ left \in [Threads -> 0..Rounds]
          /\ done[u] <= left[u] /\ left[u] <= done[u] + 1
          /\ pc[u] # "out" => done[u] = left[u]
      BY <2>1, BarrierAssumption DEF CheckInv, CheckerTypes, Steps, TypeOK, checkerVars
    <3>2. CASE u = t
      <4>1. done[u] = left[u]
        BY <2>2, <3>1, <3>2
      <4>2. \/ left'[u] = left[u] /\ pc'[u] # "out"
            \/ left'[u] = left[u] + 1 /\ pc'[u] = "out"
        <5>1. CASE left' = left /\ pc'[t] # "out"
          BY <3>2, <5>1
        <5>2. CASE left' = [left EXCEPT ![t] = @ + 1] /\ pc'[t] = "out"
          BY <3>1, <3>2, <5>2
        <5>3. QED
          BY <2>2, <5>1, <5>2
      <4>3. QED
        BY <3>1, <4>1, <4>2
    <3>3. CASE u # t
      <4>1. left'[u] = left[u] /\ pc'[u] = pc[u]
        BY <2>2, <3>1, <3>3
      <4>2. QED
        BY <3>1, <4>1
    <3>4. QED
      BY <3>2, <3>3
  <2>4. Steps'
    BY <2>3 DEF Steps
  <2>5. QED
    BY <2>1, <2>4 DEF CheckInv, CheckerTypes, Counts, checkerVars
<1>2. ASSUME NEW t \in Threads, CallAgain(t) PROVE CheckInv'
  <2>1. /\ UNCHANGED checkerVars /\ left' = left /\ ~Due(t)
        /\ pc[t] = "out" /\ \A u \in Threads \ {t} : pc'[u] = pc[u]
    BY <1>2 DEF CallAgain, Call, Goto, history, IInv, TypeOK
  <2>2. done[t] = left[t]
    BY <2>1, BarrierAssumption DEF Due, CheckInv, CheckerTypes, Steps, IInv, TypeOK
  <2>3. Steps'
    BY <2>1, <2>2 DEF CheckInv, Steps, checkerVars
  <2>4. QED
    BY <2>1, <2>3 DEF CheckInv, CheckerTypes, Counts, checkerVars
<1>3. CASE (\E t \in Threads : SpuriousWakeup(t) /\ UNCHANGED checkerVars)
           \/ (Terminated /\ UNCHANGED checkerVars) \/ UNCHANGED allVars
  <2>1. UNCHANGED checkerVars /\ left' = left /\ pc' = pc
    BY <1>3 DEF SpuriousWakeup, Terminated, allVars, barrierVars, history
  <2>2. QED
    BY <2>1 DEF CheckInv, CheckerTypes, Steps, Counts, checkerVars
<1>4. QED
    BY <1>1, <1>2, <1>3, ReadKeeps, WriteKeeps DEF CheckerNext, Own

\* The checker takes the steps of the barrier and none that disturbs it.
LEMMA CheckerWithinBarrier ==
    ASSUME [CheckerNext]_allVars
    PROVE  [Next]_barrierVars
BY DEF CheckerNext, Own, Within, CallAgain, Read, Write, Next, allVars

\* For every number of threads and waits: "All counter values are always the
\* same after each step" (the comment above counter_thread), whichever counter a
\* thread picks.
THEOREM CountersAgree == ASSUME Numbered PROVE CheckerSpec => []SameAfterEachStep
<1>1. CheckerInit => Init /\ CheckInv
    BY DEF CheckerInit, Init, CheckInv, CheckerTypes, Steps, Counts
<1>2. [CheckerNext]_allVars => [Next]_barrierVars
    BY CheckerWithinBarrier
<1>3. IInv /\ CheckInv /\ [CheckerNext]_allVars => CheckInv'
    BY CheckerStep
<1>4. IInv /\ CheckInv => SameAfterEachStep
    BY SameFollows
<1>5. QED
    BY <1>1, <1>2, <1>3, <1>4, BarrierInvariant, PTL DEF CheckerSpec, Spec
=============================================================================
