--------------------------- MODULE BarrierPromise ---------------------------
(***************************************************************************)
(* What a pthread barrier for exactly Threads promises its users: a thread *)
(* returns from its r-th wait only after every thread has made its r-th    *)
(* wait, and of the returns of a round exactly one is the serial one.      *)
(* Nothing is said of how waiting is done, nor of when a thread comes back *)
(* for the next round.                                                     *)
(***************************************************************************)
EXTENDS Naturals

CONSTANTS Threads, Rounds

VARIABLES arrived,    \* arrived[t]: how many waits t has entered
          left,       \* left[t]: how many it has returned from
          serials     \* serials[r]: who was told to be the serial thread of round r

promiseVars == <<arrived, left, serials>>

Init ==
    /\ arrived = [t \in Threads |-> 0]
    /\ left = [t \in Threads |-> 0]
    /\ serials = [r \in 1..Rounds |-> {}]

Arrive(t) ==
    /\ arrived[t] = left[t] /\ arrived[t] < Rounds
    /\ arrived' = [arrived EXCEPT ![t] = @ + 1]
    /\ UNCHANGED <<left, serials>>

\* The last one to leave takes the serial return if nobody has had it.
Leave(t) ==
    LET r == left[t] + 1
        last == \A u \in Threads \ {t} : left[u] >= r
    IN  /\ left[t] < arrived[t]
        /\ \A u \in Threads : arrived[u] >= r
        /\ left' = [left EXCEPT ![t] = r]
        /\ \/ serials[r] = {} /\ serials' = [serials EXCEPT ![r] = {t}]
           \/ ~(last /\ serials[r] = {}) /\ UNCHANGED serials
        /\ UNCHANGED arrived

Next == \E t \in Threads : Arrive(t) \/ Leave(t)

Spec == Init /\ [][Next]_promiseVars
=============================================================================
