------------------------------- MODULE IsKeys -------------------------------
(***************************************************************************)
(* is.c: the keys of the IS benchmark.  randlc multiplies modulo 2^46 with *)
(* doubles, in halves of 23 bits; find_my_seed jumps to where a thread's   *)
(* share of the random sequence begins; create_seq fills the shares of     *)
(* key_array in parallel.  The width of a half is a constant here.         *)
(***************************************************************************)
EXTENDS Naturals

CONSTANTS Half,          \* bits of a half: 23 in the code
          NUM_KEYS, MAX_KEY,
          MaxThreads,    \* bound: teams of 1..MaxThreads threads
          Seeds, Multipliers

VARIABLES seed, a,         \* the arguments of create_seq
          num_threads,
          key_array,
          pc,              \* where each thread of the team is
          s, t2, kk,       \* its random number, and the loop of find_my_seed
          i                \* its next key

vars == <<seed, a, num_threads, key_array, pc, s, t2, kk, i>>

Threads == 0..(MaxThreads - 1)
Team == 0..(num_threads - 1)

\* The loops that start randlc double 1.0 so many times.
Doubled[n \in 0..(2 * Half)] == IF n = 0 THEN 1 ELSE 2 * Doubled[n - 1]
T23 == Doubled[Half]
T46 == Doubled[2 * Half]

\* A1 * X2 + A2 * X1 modulo 2^23, shifted, plus A2 * X2: every intermediate
\* value is an integer below 2^48, which a double holds exactly, and every
\* (int) conversion rounds down.
randlc(x, y) ==
    LET A1 == y \div T23    A2 == y % T23
        X1 == x \div T23    X2 == x % T23
        Z  == (A1 * X2 + A2 * X1) % T23
    IN  (T23 * Z + A2 * X2) % T46

\* The share of a thread, in keys: [k1, k2).
Share(nt) == (NUM_KEYS + nt - 1) \div nt
Smaller(x, y) == IF x < y THEN x ELSE y
k1(t) == Share(num_threads) * t
k2(t) == Smaller(k1(t) + Share(num_threads), NUM_KEYS)

\* find_my_seed: how many random numbers thread t skips, four for each key.
nq(t) == ((((4 * NUM_KEYS) \div 4) + num_threads - 1) \div num_threads) * 4 * t

Init ==
    /\ seed \in Seeds /\ a \in Multipliers /\ num_threads \in 1..MaxThreads
    /\ key_array = [j \in 0..(NUM_KEYS - 1) |-> 0]
    /\ pc = [t \in Threads |-> "start"]
    /\ s = [t \in Threads |-> 0] /\ t2 = [t \in Threads |-> 0]
    /\ kk = [t \in Threads |-> 0] /\ i = [t \in Threads |-> 0]

Enter(t) ==
    /\ pc[t] = "start"
    /\ s' = [s EXCEPT ![t] = seed]
    /\ t2' = [t2 EXCEPT ![t] = a]
    /\ kk' = [kk EXCEPT ![t] = nq(t)]
    /\ i' = [i EXCEPT ![t] = k1(t)]
    /\ pc' = [pc EXCEPT ![t] = IF t = 0 THEN "keys" ELSE "skip"]
    /\ UNCHANGED <<seed, a, num_threads, key_array>>

\* One turn of the while loop: square and halve, or multiply and decrease.
\* Variant: an odd count is halved as well.
SkipTurn_AlwaysHalf(t) ==
    /\ pc[t] = "skip" /\ kk[t] > 1
    /\ t2' = [t2 EXCEPT ![t] = randlc(t2[t], t2[t])]
    /\ kk' = [kk EXCEPT ![t] = kk[t] \div 2]
    /\ UNCHANGED <<seed, a, num_threads, key_array, pc, s, i>>
SkipTurn(t) ==
    /\ pc[t] = "skip" /\ kk[t] > 1
    /\ IF kk[t] % 2 = 0
       THEN /\ t2' = [t2 EXCEPT ![t] = randlc(t2[t], t2[t])]
            /\ kk' = [kk EXCEPT ![t] = kk[t] \div 2]
            /\ UNCHANGED s
       ELSE /\ s' = [s EXCEPT ![t] = randlc(s[t], t2[t])]
            /\ kk' = [kk EXCEPT ![t] = kk[t] - 1]
            /\ UNCHANGED t2
    /\ UNCHANGED <<seed, a, num_threads, key_array, pc, i>>

SkipEnd(t) ==
    /\ pc[t] = "skip" /\ kk[t] <= 1
    /\ s' = [s EXCEPT ![t] = randlc(s[t], t2[t])]
    /\ pc' = [pc EXCEPT ![t] = "keys"]
    /\ UNCHANGED <<seed, a, num_threads, key_array, t2, kk, i>>

\* Four numbers in [0, 1) make one key: k * (x1 + x2 + x3 + x4), rounded down.
Key(x1) ==
    LET x2 == randlc(x1, a)  x3 == randlc(x2, a)  x4 == randlc(x3, a)
    IN  ((MAX_KEY \div 4) * (x1 + x2 + x3 + x4)) \div T46
Next4(x) == randlc(randlc(randlc(randlc(x, a), a), a), a)

MakeKey(t) ==
    /\ pc[t] = "keys" /\ i[t] < k2(t)
    /\ key_array' = [key_array EXCEPT ![i[t]] = Key(randlc(s[t], a))]
    /\ s' = [s EXCEPT ![t] = Next4(s[t])]
    /\ i' = [i EXCEPT ![t] = @ + 1]
    /\ UNCHANGED <<seed, a, num_threads, pc, t2, kk>>

Leave(t) ==
    /\ pc[t] = "keys" /\ i[t] >= k2(t)
    /\ pc' = [pc EXCEPT ![t] = "done"]
    /\ UNCHANGED <<seed, a, num_threads, key_array, s, t2, kk, i>>

Done == \A t \in Team : pc[t] = "done"

Next == \E t \in Team : Enter(t) \/ SkipTurn(t) \/ SkipEnd(t) \/ MakeKey(t) \/ Leave(t)

-----------------------------------------------------------------------------
(* What the keys should be. *)

\* y to the power of n, modulo 2^46, one factor at a time.
Power(y, n) ==
    LET f[j \in 0..n] == IF j = 0 THEN 1 ELSE (f[j - 1] * y) % T46 IN f[n]

\* The keys do not depend on the size of the team: key j is made of the numbers
\* 4j+1 .. 4j+4 of the one sequence, and a single thread makes the same keys.
Sequence(j) == (seed * Power(a, j)) % T46
KeysAsInSequence ==
    Done => \A j \in DOMAIN key_array : key_array[j] = Key(Sequence(4 * j + 1))
=============================================================================
