----------------------------- MODULE ThreadPool -----------------------------
(***************************************************************************)
(* concurrent.futures.ThreadPoolExecutor as the batch drivers use it       *)
(* (scripts/emulate_all.py, profile_all.py, dlmul_runner.py and the        *)
(* analysis stage of experiment/vf-performance): a driver submits every    *)
(* job, at most MaxWorkers of them run at a time, and the main thread      *)
(* takes each finished future once, in completion order (as_completed).    *)
(* The library is external; only what the drivers rely on is here.  The    *)
(* work queue is FIFO in the library; which pending job starts next is     *)
(* left open, so nothing below depends on the order.                       *)
(***************************************************************************)
EXTENDS Naturals, FiniteSets

CONSTANTS Jobs,        \* every job a driver could submit
          MaxWorkers   \* ThreadPoolExecutor(max_workers=args.concurrency)

\* A future is "none" until its job is scheduled, "scheduled" until submit(),
\* and "yielded" once as_completed has handed it to the main thread.
FutureState == {"none", "scheduled", "pending", "running", "finished", "yielded"}

NoFutures == [j \in Jobs |-> "none"]

Scheduled(fut) == {j \in Jobs : fut[j] # "none"}
Busy(fut)      == {j \in Jobs : fut[j] = "running"}
Yielded(fut)   == {j \in Jobs : fut[j] = "yielded"}

Schedule(fut, S) == [j \in Jobs |-> IF j \in S THEN "scheduled" ELSE fut[j]]

SubmitAll(fut) == [j \in Jobs |-> IF fut[j] = "scheduled" THEN "pending" ELSE fut[j]]

CanStart(fut, j) == /\ fut[j] = "pending"
                    /\ Cardinality(Busy(fut)) < MaxWorkers

\* shutdown(wait=True), reached by leaving the with block, waits for this.
Drained(fut) == \A j \in Jobs : fut[j] \notin {"pending", "running"}

AllYielded(fut) == \A j \in Jobs : fut[j] \in {"none", "yielded"}
=============================================================================
