---------------------------- MODULE IsBenchmark -----------------------------
(***************************************************************************)
(* is.c: main puts its parts together.  A team fills key_array in          *)
(* create_seq; rank and full_verify then work on the same array.  So that  *)
(* the sort meets every array, and not the few that short sequences make,  *)
(* a run may also start after create_seq, with any array (num_threads 0).  *)
(***************************************************************************)
EXTENDS IsRank

CONSTANTS Half, MaxThreads, Seeds, Multipliers

VARIABLES seed, a, num_threads,
          at,              \* where each thread is in create_seq
          s, t2, kk, j

ownOfKeys == <<seed, a, num_threads, at, s, t2, kk, j>>
ownOfRank == <<key_buff2, key_buff1, bucket_size, bucket_ptrs, pc, i, bucket, next,
               calls, passed_verification>>

Create == INSTANCE IsKeys WITH pc <- at, i <- j

ASSUME IsKeysAssumption ==
    /\ Half \in Nat \ {0} /\ MaxThreads \in Nat \ {0}
    /\ MAX_KEY % 4 = 0
    /\ Seeds \cup Multipliers \subseteq 0..(Create!T46 - 1)

GivenArray ==
    /\ Init
    /\ seed = 0 /\ a = 0 /\ num_threads = 0
    /\ at = [t \in Create!Threads |-> "done"]
    /\ s = [t \in Create!Threads |-> 0] /\ t2 = [t \in Create!Threads |-> 0]
    /\ kk = [t \in Create!Threads |-> 0] /\ j = [t \in Create!Threads |-> 0]

BenchInit == (Create!Init /\ Init) \/ GivenArray

BenchNext ==
    \/ Create!Next /\ UNCHANGED ownOfRank
    \/ Create!Done /\ Next /\ UNCHANGED ownOfKeys

BenchSpec == BenchInit /\ [][BenchNext]_<<vars, ownOfKeys>>

\* What rank is given does not depend on the team: when create_seq returns, the
\* keys are those of the one random sequence, however the skips were made up.
KeysAsInSequence == num_threads > 0 /\ calls = 0 /\ Everyone("serial") => Create!KeysAsInSequence
=============================================================================
