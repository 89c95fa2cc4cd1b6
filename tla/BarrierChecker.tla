--------------------------- MODULE BarrierChecker ---------------------------
(***************************************************************************)
(* counter_thread of the checker program in parsec_barrier.cpp, composed   *)
(* with the barrier it tests.  Between an odd and an even wait a thread    *)
(* reads the counter of some thread, between an even and an odd one it     *)
(* writes its own.  Nothing but the barrier keeps the two apart.           *)
(***************************************************************************)
EXTENDS ParsecBarrier

PRIME_NUMBER == 31

VARIABLES result_worker,   \* the shared counters
          temp,            \* temp[t]: what t has read
          done             \* done[t]: the steps t has made between its waits

checkerVars == <<result_worker, temp, done>>

CheckerInit ==
    /\ Init
    /\ result_worker = [t \in Threads |-> 0]
    /\ temp = [t \in Threads |-> 0]
    /\ done = [t \in Threads |-> 0]

\* The step a thread owes after its last wait.
Due(t) == pc[t] = "out" /\ done[t] < left[t]
Reading(t) == Due(t) /\ left[t] % 2 = 1
Writing(t) == Due(t) /\ left[t] % 2 = 0

\* Step 1: pick a counter and read it.
Read(t) ==
    LET idx == (PRIME_NUMBER * (result_worker[t] + t)) % max
    IN  /\ Reading(t)
        /\ temp' = [temp EXCEPT ![t] = result_worker[idx]]
        /\ done' = [done EXCEPT ![t] = @ + 1]
        /\ UNCHANGED <<barrierVars, result_worker>>

\* Step 2: write it back, plus one, to the thread's own.  Variant: incremented
\* on reading and again on writing.
Write_Again(t) ==
    /\ Writing(t)
    /\ result_worker' = [result_worker EXCEPT ![t] = temp[t] + 2]
    /\ done' = [done EXCEPT ![t] = @ + 1]
    /\ UNCHANGED <<barrierVars, temp>>
Write(t) ==
    /\ Writing(t)
    /\ result_worker' = [result_worker EXCEPT ![t] = temp[t] + 1]
    /\ done' = [done EXCEPT ![t] = @ + 1]
    /\ UNCHANGED <<barrierVars, temp>>

\* One step of counter_thread: a call of the barrier, or its own step after one.
CallAgain(t) == Call(t) /\ ~Due(t) /\ UNCHANGED checkerVars
Own(t) == Read(t) \/ Write(t) \/ CallAgain(t)
Within(t) == WaitStep(t) /\ UNCHANGED checkerVars

CheckerNext ==
    \/ \E t \in Threads :
          \/ Own(t)
          \/ Within(t)
          \/ SpuriousWakeup(t) /\ UNCHANGED checkerVars
    \/ Terminated /\ UNCHANGED checkerVars

allVars == <<barrierVars, checkerVars>>

\* The threads run: each one that can take a step takes it eventually.
CheckerSpec ==
    /\ CheckerInit /\ [][CheckerNext]_allVars
    /\ \A t \in Threads : WF_allVars(Own(t)) /\ WF_allVars(Within(t))

\* "All counter values are always the same after each step, unless there's a
\* race condition" (parsec_barrier.cpp:280): a thread that reads finds every
\* counter at the number of steps made so far, whichever it picks.
SameAfterEachStep ==
    \A t \in Threads :
        Reading(t) => \A u \in Threads : result_worker[u] = left[t] \div 2
=============================================================================
