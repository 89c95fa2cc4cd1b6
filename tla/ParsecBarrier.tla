--------------------------- MODULE ParsecBarrier ----------------------------
(***************************************************************************)
(* parsec_barrier.cpp: the two-phase central barrier that the PARSEC       *)
(* programs may use in place of pthread barriers, with the spinning build  *)
(* (ENABLE_SPIN_BARRIER, the default of the header) and the blocking one.  *)
(* A critical section is one action per piece of code between two          *)
(* operations on the mutex or the condition variable; the polls read       *)
(* is_arrival_phase without the mutex, between those.                      *)
(***************************************************************************)
EXTENDS Naturals, FiniteSets

CONSTANTS Threads,       \* the threads the barrier is created for (count)
          Rounds,        \* bound: waits made by each thread
          Spin,          \* ENABLE_SPIN_BARRIER
          MaxSpurious    \* bound: wake-ups of the condition variable nobody asked for

ASSUME BarrierAssumption ==
    /\ IsFiniteSet(Threads) /\ Threads # {}
    /\ Rounds \in Nat /\ Spin \in BOOLEAN /\ MaxSpurious \in Nat

VARIABLES mutex,               \* barrier->mutex: the threads that hold it
          n,                   \* barrier->n
          is_arrival_phase,    \* barrier->is_arrival_phase
          waiting,             \* the threads blocked on barrier->cond
          master,              \* master[t]: the local variable of t's call
          pc,                  \* where each thread is in parsec_barrier_wait
          spurious,            \* unsolicited wake-ups so far
          arrived, left,       \* history: waits entered past the gate, waits returned from
          serials              \* history: the threads each round returned SERIAL_THREAD to

max == Cardinality(Threads)    \* barrier->max

lockVars == <<mutex, waiting, spurious>>
history == <<arrived, left, serials>>
barrierVars == <<mutex, n, is_arrival_phase, waiting, master, pc, spurious, history>>

\* parsec_barrier_init.
Init ==
    /\ mutex = {} /\ waiting = {} /\ spurious = 0
    /\ n = 0 /\ is_arrival_phase = TRUE
    /\ master = [t \in Threads |-> FALSE]
    /\ pc = [t \in Threads |-> "out"]
    /\ arrived = [t \in Threads |-> 0]
    /\ left = [t \in Threads |-> 0]
    /\ serials = [r \in 1..Rounds |-> {}]

-----------------------------------------------------------------------------
(* The mutex and the condition variable. *)

Goto(t, p) == pc' = [pc EXCEPT ![t] = p]

Acquire(t) == mutex = {} /\ mutex' = {t}
Release(t) == mutex' = mutex \ {t}

\* pthread_cond_wait gives the mutex back and sleeps; the caller resumes at p,
\* where it must take the mutex again.
CondWait(t, p) ==
    /\ Release(t)
    /\ waiting' = waiting \cup {t}
    /\ Goto(t, p)

Broadcast == waiting' = {}

\* A waiter may return without a broadcast: the loops around the waits are there
\* for that.
SpuriousWakeup(t) ==
    /\ t \in waiting /\ spurious < MaxSpurious
    /\ waiting' = waiting \ {t}
    /\ spurious' = spurious + 1
    /\ UNCHANGED <<mutex, n, is_arrival_phase, master, pc, history>>

-----------------------------------------------------------------------------
(* parsec_barrier_wait. *)

Call(t) ==
    /\ pc[t] = "out" /\ left[t] < Rounds
    /\ Goto(t, "lock")
    /\ UNCHANGED <<lockVars, n, is_arrival_phase, master, history>>

\* pthread_mutex_lock, and every return from a wait or a trylock loop: "gate"
\* and "door" test the phase with the mutex held.
Resume == [lock |-> "gate", try_in |-> "regate", wait_in |-> "regate",
           try_out |-> "door", wait_out |-> "door"]
Lock(t) ==
    /\ pc[t] \in DOMAIN Resume /\ t \notin waiting
    /\ Acquire(t)
    /\ Goto(t, Resume[pc[t]])
    /\ UNCHANGED <<n, is_arrival_phase, waiting, master, spurious, history>>

\* The polling loops end when the flag changes or the counter runs out, which
\* may be at any time: what the flag is now is not known afterwards.
Poll(t) ==
    /\ \/ pc[t] = "poll_in" /\ Goto(t, "try_in")
       \/ pc[t] = "poll_out" /\ Goto(t, "try_out")
    /\ UNCHANGED <<lockVars, n, is_arrival_phase, master, history>>

\* A departure still under way keeps newcomers out.
Blocked(t) ==
    /\ IF Spin /\ pc[t] = "gate"
       THEN Release(t) /\ Goto(t, "poll_in") /\ UNCHANGED waiting
       ELSE CondWait(t, "wait_in")
    /\ UNCHANGED <<n, is_arrival_phase, master, spurious, history>>

\* The first one in is the master, the last one in starts the departure.
\* Variant: > instead of >=.
FirstIn == n = 0
MustWait_OffByOne == n + 1 <= max
MustWait == n + 1 < max
\* Variant: the last one in starts the counter again, as in a barrier of one phase.
Counted_Afresh == IF MustWait THEN n + 1 ELSE 0
Counted == n + 1
Arrive(t) ==
    /\ master' = [master EXCEPT ![t] = FirstIn]
    /\ n' = Counted
    /\ arrived' = [arrived EXCEPT ![t] = @ + 1]
    /\ IF MustWait
       THEN /\ IF Spin THEN Release(t) /\ Goto(t, "poll_out") /\ UNCHANGED waiting
                       ELSE CondWait(t, "wait_out")
            /\ UNCHANGED is_arrival_phase
       ELSE /\ is_arrival_phase' = FALSE
            /\ Broadcast
            /\ Goto(t, "leave")
            /\ UNCHANGED mutex
    /\ UNCHANGED <<spurious, left, serials>>

\* Variant: the phase is not looked at again after the polling loop.
Gate_NoRecheck(t) ==
    \/ pc[t] = "gate" /\ IF is_arrival_phase THEN Arrive(t) ELSE Blocked(t)
    \/ pc[t] = "regate" /\ Arrive(t)
Gate(t) ==
    /\ pc[t] \in {"gate", "regate"}
    /\ IF is_arrival_phase THEN Arrive(t) ELSE Blocked(t)

\* Back with the mutex: leave, or wait for the rest.  Variant: an if instead of
\* the while around pthread_cond_wait.
Door_If(t) ==
    /\ pc[t] = "door"
    /\ Goto(t, "leave")
    /\ UNCHANGED <<lockVars, n, is_arrival_phase, master, history>>
Door(t) ==
    /\ pc[t] = "door"
    /\ IF is_arrival_phase
       THEN CondWait(t, "wait_out") /\ UNCHANGED spurious
       ELSE Goto(t, "leave") /\ UNCHANGED lockVars
    /\ UNCHANGED <<n, is_arrival_phase, master, history>>

\* The last one out opens the next arrival phase and wakes those at the gate.
\* Variant: without waking them.
Reopen_Silently ==
    is_arrival_phase' = (is_arrival_phase \/ n = 1) /\ UNCHANGED waiting
Reopen ==
    IF n = 1 THEN is_arrival_phase' = TRUE /\ Broadcast
             ELSE UNCHANGED <<is_arrival_phase, waiting>>
Leave(t) ==
    /\ pc[t] = "leave"
    /\ n' = n - 1
    /\ Reopen
    /\ Release(t)
    /\ Goto(t, "out")
    /\ left' = [left EXCEPT ![t] = @ + 1]
    /\ serials' = IF master[t] THEN [serials EXCEPT ![left[t] + 1] = @ \cup {t}] ELSE serials
    /\ UNCHANGED <<spurious, master, arrived>>

WaitStep(t) == Lock(t) \/ Poll(t) \/ Gate(t) \/ Door(t) \/ Leave(t)

AllDone == \A t \in Threads : pc[t] = "out" /\ left[t] = Rounds
Terminated == AllDone /\ UNCHANGED barrierVars

Next ==
    \/ \E t \in Threads : Call(t) \/ WaitStep(t) \/ SpuriousWakeup(t)
    \/ Terminated

Spec == Init /\ [][Next]_barrierVars

-----------------------------------------------------------------------------
(* Properties. *)

InsidePlaces == {"poll_out", "try_out", "wait_out", "door", "leave"}
Inside == {t \in Threads : pc[t] \in InsidePlaces}
HoldPlaces == {"gate", "regate", "door", "leave"}
Places == {"out", "lock", "poll_in", "try_in", "wait_in", "gate", "regate"} \cup InsidePlaces

TypeOK ==
    /\ mutex \subseteq Threads /\ waiting \subseteq Threads
    /\ n \in 0..max /\ is_arrival_phase \in BOOLEAN /\ spurious \in 0..MaxSpurious
    /\ master \in [Threads -> BOOLEAN]
    /\ pc \in [Threads -> Places]
    /\ arrived \in [Threads -> 0..Rounds] /\ left \in [Threads -> 0..Rounds]
    /\ serials \in [1..Rounds -> SUBSET Threads]

\* Nobody leaves a round before everybody has arrived in it, and nobody arrives
\* in the next round before everybody has left this one: the rounds of the one
\* counter n never mix.
RoundsApart ==
    \A t, u \in Threads : left[t] <= arrived[u] /\ arrived[t] <= left[u] + 1

\* n counts the threads between their arrival and their departure, and the
\* phase says which way they are going.
CounterInv ==
    /\ n = Cardinality(Inside)
    /\ is_arrival_phase => n < max
    /\ ~is_arrival_phase => n > 0

\* PARSEC_BARRIER_SERIAL_THREAD is returned to exactly one thread of a round.
OneSerial ==
    \A r \in 1..Rounds :
        /\ Cardinality(serials[r]) <= 1
        /\ (\A t \in Threads : left[t] >= r) => serials[r] # {}

\* Whoever sleeps on the condition variable will be woken: at the gate only
\* while a departure is under way, inside only while arrivals are.
NoLostWakeup ==
    \A t \in waiting :
        /\ pc[t] = "wait_in" => ~is_arrival_phase
        /\ pc[t] = "wait_out" => is_arrival_phase

\* Under these rules every thread gets through all its waits.
EveryoneGetsThrough == <>AllDone

\* The promise of a barrier is kept.
Promise == INSTANCE BarrierPromise
KeepsPromise == Promise!Spec
=============================================================================
