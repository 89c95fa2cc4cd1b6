------------------------------- MODULE IsRank -------------------------------
(***************************************************************************)
(* is.c: rank and full_verify as built (USE_BUCKETS), run by an OpenMP     *)
(* team, and the main loop around them.  An "omp for" ends in a barrier;   *)
(* work between barriers that touches only a thread's own data is one      *)
(* action, the loops that write shared arrays advance one key at a time.   *)
(***************************************************************************)
EXTENDS Naturals, FiniteSets, FiniteSetsExt

CONSTANTS NT,              \* omp_get_num_threads
          NUM_KEYS, MAX_KEY, NUM_BUCKETS, MAX_ITERATIONS,
          TestIndices,     \* test_index_array
          Arrays           \* the key arrays create_seq may leave

ASSUME IsRankAssumption ==
    /\ NT \in Nat \ {0} /\ NUM_KEYS \in Nat /\ MAX_KEY \in 1..NUM_KEYS
    /\ NUM_BUCKETS \in Nat \ {0} /\ MAX_KEY % NUM_BUCKETS = 0
    /\ MAX_ITERATIONS \in 1..(MAX_KEY - 1) /\ 2 * MAX_ITERATIONS < NUM_KEYS
    \* none of the places that rank overwrites
    /\ TestIndices \subseteq 0..(NUM_KEYS - 1) \ 1..(2 * MAX_ITERATIONS)
    /\ Arrays \subseteq [0..(NUM_KEYS - 1) -> 0..(MAX_KEY - 1)]

VARIABLES key_array, key_buff2, key_buff1,
          bucket_size,     \* bucket_size[t][b], read by every thread
          bucket_ptrs,     \* bucket_ptrs[t][b], threadprivate
          pc,              \* how far each thread is in the parallel region
          i,               \* the next key of its loop
          bucket,          \* the bucket full_verify's loop has given it
          next,            \* the next bucket of the dynamic schedule
          calls,           \* calls of rank made
          passed_verification

shared == <<key_array, key_buff2, key_buff1, bucket_size>>
vars == <<shared, bucket_ptrs, pc, i, bucket, next, calls, passed_verification>>

Threads == 0..(NT - 1)
Slots == 0..(NUM_KEYS - 1)
Keys == 0..(MAX_KEY - 1)
Buckets == 0..(NUM_BUCKETS - 1)
BucketOf(k) == k \div (MAX_KEY \div NUM_BUCKETS)    \* k >> shift
KeysOf(b) == {k \in Keys : BucketOf(k) = b}
Smaller(x, y) == IF x < y THEN x ELSE y

\* schedule(static): contiguous blocks, the same for both loops over the keys.
Block == (NUM_KEYS + NT - 1) \div NT
First(t) == Smaller(t * Block, NUM_KEYS)
Last(t) == Smaller((t + 1) * Block, NUM_KEYS)
ScatterFirst(t) == First(t)
ScatterLast(t) == IF t = NT - 1 THEN NUM_KEYS ELSE ScatterFirst(t + 1)

Order == <<"count", "ptrs", "scatter", "adjust", "rank", "ranked">>
At(p) == CHOOSE n \in 1..6 : Order[n] = p
\* The barrier before p: everyone has come that far.
Barrier(p) == \A u \in Threads : pc[u] \in {Order[n] : n \in At(p)..6}

\* create_seq and alloc_key_buff have run.
Init ==
    /\ key_array \in Arrays
    /\ key_buff2 = [j \in Slots |-> 0] /\ key_buff1 = [k \in Keys |-> 0]
    /\ bucket_size = [t \in Threads |-> [b \in Buckets |-> 0]]
    /\ bucket_ptrs = [t \in Threads |-> [b \in Buckets |-> 0]]
    /\ pc = [t \in Threads |-> "serial"]
    /\ i = [t \in Threads |-> 0] /\ bucket = [t \in Threads |-> 0]
    /\ next = 0 /\ calls = 0 /\ passed_verification = 0

Everyone(p) == \A t \in Threads : pc[t] = p
Step(t, p) == pc' = [pc EXCEPT ![t] = p]

\* main: rank(1) for free, then rank(1) .. rank(MAX_ITERATIONS).
iteration == IF calls = 0 THEN 1 ELSE calls

StartRank ==
    /\ Everyone("serial") /\ calls <= MAX_ITERATIONS
    /\ key_array' = [key_array EXCEPT ![iteration] = iteration,
                                      ![iteration + MAX_ITERATIONS] = MAX_KEY - iteration]
    /\ pc' = [t \in Threads |-> "count"]
    /\ next' = 0
    /\ UNCHANGED <<key_buff2, key_buff1, bucket_size, bucket_ptrs, i, bucket, calls, passed_verification>>

CountKeys(t) ==
    /\ pc[t] = "count"
    /\ bucket_size' = [bucket_size EXCEPT ![t] =
           [b \in Buckets |-> Cardinality({j \in First(t)..(Last(t) - 1) : BucketOf(key_array[j]) = b})]]
    /\ Step(t, "ptrs")
    /\ UNCHANGED <<key_array, key_buff2, key_buff1, bucket_ptrs, i, bucket, next, calls, passed_verification>>

Sizes(T, b) == MapThenSumSet(LAMBDA k : bucket_size[k][b], T)

\* Where the keys of t go in bucket b: after all smaller buckets and after the
\* keys of the threads before it.  Variant of Pointers: without the barrier.
Pointer(t) ==
    LET before == 0..(t - 1)  rest == t..(NT - 1)
        f[b \in Buckets] == IF b = 0 THEN Sizes(before, 0)
                            ELSE f[b - 1] + Sizes(before, b) + Sizes(rest, b - 1)
    IN  f
Pointers_Nowait(t) ==
    /\ pc[t] = "ptrs"
    /\ bucket_ptrs' = [bucket_ptrs EXCEPT ![t] = Pointer(t)]
    /\ i' = [i EXCEPT ![t] = ScatterFirst(t)]
    /\ Step(t, "scatter")
    /\ UNCHANGED <<shared, bucket, next, calls, passed_verification>>
Pointers(t) ==
    /\ pc[t] = "ptrs" /\ Barrier("ptrs")
    /\ bucket_ptrs' = [bucket_ptrs EXCEPT ![t] = Pointer(t)]
    /\ i' = [i EXCEPT ![t] = ScatterFirst(t)]
    /\ Step(t, "scatter")
    /\ UNCHANGED <<shared, bucket, next, calls, passed_verification>>

Scatter(t) ==
    LET k == key_array[i[t]]  b == BucketOf(k)
    IN  /\ pc[t] = "scatter" /\ i[t] < ScatterLast(t)
        /\ key_buff2' = [key_buff2 EXCEPT ![bucket_ptrs[t][b]] = k]
        /\ bucket_ptrs' = [bucket_ptrs EXCEPT ![t][b] = @ + 1]
        /\ i' = [i EXCEPT ![t] = @ + 1]
        /\ UNCHANGED <<key_array, key_buff1, bucket_size, pc, bucket, next, calls, passed_verification>>
Scattered(t) ==
    /\ pc[t] = "scatter" /\ i[t] >= ScatterLast(t)
    /\ Step(t, "adjust")
    /\ UNCHANGED <<shared, bucket_ptrs, i, bucket, next, calls, passed_verification>>

\* After the barrier each thread moves its pointers to the end of the buckets:
\* full_verify and the loop below use whichever thread's copy they run on.
\* Variant: its own keys are added a second time.
Later_AndSelf(t) == t..(NT - 1)
Later(t) == (t + 1)..(NT - 1)
Adjust(t) ==
    /\ pc[t] = "adjust" /\ Barrier("adjust")
    /\ bucket_ptrs' = [bucket_ptrs EXCEPT ![t] = [b \in Buckets |-> @[b] + Sizes(Later(t), b)]]
    /\ Step(t, "rank")
    /\ UNCHANGED <<shared, i, bucket, next, calls, passed_verification>>

Start(t, b) == IF b > 0 THEN bucket_ptrs[t][b - 1] ELSE 0
InBucket(t, b) == Start(t, b)..(bucket_ptrs[t][b] - 1)

\* Clear the bucket's part of key_buff1, count its keys, add them up from the
\* number of smaller keys m.
Population(t, b) ==
    [k \in Keys |-> (IF k \in KeysOf(b) THEN 0 ELSE key_buff1[k])
                    + Cardinality({j \in InBucket(t, b) : key_buff2[j] = k})]
FirstRank(m, n) == m + n
Ranks(t, b) ==
    LET p == Population(t, b)
        f[k \in Keys] == IF k \notin KeysOf(b) THEN p[k]
                         ELSE IF k - 1 \in KeysOf(b) THEN f[k - 1] + p[k]
                         ELSE FirstRank(Start(t, b), p[k])
    IN  f
RankBucket(t) ==
    /\ pc[t] = "rank" /\ next \in Buckets
    /\ key_buff1' = Ranks(t, next)
    /\ next' = next + 1
    /\ UNCHANGED <<key_array, key_buff2, bucket_size, bucket_ptrs, pc, i, bucket, calls, passed_verification>>
RankLeave(t) ==
    /\ pc[t] = "rank" /\ next \notin Buckets
    /\ Step(t, "ranked")
    /\ UNCHANGED <<shared, bucket_ptrs, i, bucket, next, calls, passed_verification>>

\* The published ranks of the test keys; the rank of k is read at k - 1.
TestRank(k) == Cardinality({j \in Slots : key_array[j] < k})
PartialVerify ==
    {j \in TestIndices : LET k == key_array[j]
                         IN  0 < k /\ k <= NUM_KEYS - 1 /\ key_buff1[k - 1] = TestRank(k)}
EndRank ==
    /\ Everyone("ranked")
    /\ passed_verification' = IF calls = 0 THEN 0 ELSE passed_verification + Cardinality(PartialVerify)
    /\ calls' = calls + 1
    /\ pc' = [t \in Threads |-> "serial"]
    /\ UNCHANGED <<shared, bucket_ptrs, i, bucket, next>>

-----------------------------------------------------------------------------
(* full_verify: the keys are put back in order, bucket by bucket. *)

StartVerify ==
    /\ Everyone("serial") /\ calls = MAX_ITERATIONS + 1
    /\ pc' = [t \in Threads |-> "take"]
    /\ next' = 0
    /\ UNCHANGED <<shared, bucket_ptrs, i, bucket, calls, passed_verification>>

TakeBucket(t) ==
    /\ pc[t] = "take" /\ next \in Buckets
    /\ bucket' = [bucket EXCEPT ![t] = next]
    /\ next' = next + 1
    /\ i' = [i EXCEPT ![t] = Start(t, next)]
    /\ Step(t, "place")
    /\ UNCHANGED <<shared, bucket_ptrs, calls, passed_verification>>

\* k = --key_buff_ptr_global[key].  Variant: the rank is used before it is
\* decreased, and the first key of the array is never written.
Place_PostDecrement(t) ==
    LET key == key_buff2[i[t]]
    IN  /\ pc[t] = "place" /\ i[t] < bucket_ptrs[t][bucket[t]]
        /\ key_buff1' = [key_buff1 EXCEPT ![key] = @ - 1]
        /\ key_array' = [key_array EXCEPT ![key_buff1[key]] = key]
        /\ i' = [i EXCEPT ![t] = @ + 1]
        /\ UNCHANGED <<key_buff2, bucket_size, bucket_ptrs, pc, bucket, next, calls, passed_verification>>
Place(t) ==
    LET key == key_buff2[i[t]]
    IN  /\ pc[t] = "place" /\ i[t] < bucket_ptrs[t][bucket[t]]
        /\ key_buff1' = [key_buff1 EXCEPT ![key] = @ - 1]
        /\ key_array' = [key_array EXCEPT ![key_buff1[key] - 1] = key]
        /\ i' = [i EXCEPT ![t] = @ + 1]
        /\ UNCHANGED <<key_buff2, bucket_size, bucket_ptrs, pc, bucket, next, calls, passed_verification>>
Placed(t) ==
    /\ pc[t] = "place" /\ i[t] >= bucket_ptrs[t][bucket[t]]
    /\ Step(t, "take")
    /\ UNCHANGED <<shared, bucket_ptrs, i, bucket, next, calls, passed_verification>>

OutOfSort == {j \in Slots \ {0} : key_array[j - 1] > key_array[j]}
EndVerify ==
    LET passed == passed_verification + (IF OutOfSort = {} THEN 1 ELSE 0)
    IN  /\ Everyone("take") /\ next \notin Buckets
        /\ passed_verification' =
               IF passed = Cardinality(TestIndices) * MAX_ITERATIONS + 1 THEN passed ELSE 0
        /\ pc' = [t \in Threads |-> "end"]
        /\ UNCHANGED <<shared, bucket_ptrs, i, bucket, next, calls>>

Done == Everyone("end")
Terminated == Done /\ UNCHANGED vars

Work(t) ==
    \/ CountKeys(t) \/ Pointers(t) \/ Scatter(t) \/ Scattered(t) \/ Adjust(t)
    \/ RankBucket(t) \/ RankLeave(t) \/ TakeBucket(t) \/ Place(t) \/ Placed(t)

Next ==
    \/ \E t \in Threads : Work(t)
    \/ StartRank \/ EndRank \/ StartVerify \/ EndVerify
    \/ Terminated

-----------------------------------------------------------------------------
(* Properties. *)

HowMany(A, S) == Cardinality({j \in Slots : A[j] \in S})

\* The threadprivate pointers agree when they are used, during the ranking and
\* in full_verify: each is the number of keys in its bucket and those before.
PointersAgree ==
    \A t \in Threads : pc[t] \in {"rank", "ranked", "take", "place"} =>
        \A b \in Buckets :
            bucket_ptrs[t][b] = HowMany(key_buff2, {k \in Keys : BucketOf(k) <= b})

\* "The rank of a key" as the partial verification reads it: key_buff1[k] is the
\* number of keys up to k, with any team and any order of the buckets.
RanksRight ==
    Everyone("ranked") => \A k \in Keys : key_buff1[k] = HowMany(key_array, 0..k)

\* In the end the keys are sorted, none is lost, and the run counts as verified
\* unless one of its test keys was 0, which the partial verification skips.
Verified ==
    Done =>
        /\ OutOfSort = {}
        /\ \A k \in Keys : HowMany(key_array, {k}) = HowMany(key_buff2, {k})
        /\ passed_verification = 0 => HowMany(key_array, {0}) > 0
=============================================================================
