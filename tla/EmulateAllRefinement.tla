------------------------ MODULE EmulateAllRefinement ------------------------
(***************************************************************************)
(* A lone emulate_all invocation implements BatchPromise.  The mapping     *)
(* reads the abstract verdicts from the rows on disk and the abstract      *)
(* report from the exported aggregate, never from the driver's memory.     *)
(***************************************************************************)
EXTENDS EmulateAll

Run == CHOOSE p \in Procs : TRUE

EmulateRowsOf(file, j) == {r \in file.rows : r.stage = "emulate" /\ r.bench = j[1] /\ r.use_vf = j[2]}

RecordedVerdict(j) ==
    LET rows == IF run_id[Run] = 0 THEN {} ELSE EmulateRowsOf(workload_db[run_id[Run]][j[1]], j)
    IN  IF rows = {} THEN "unknown" ELSE (CHOOSE r \in rows : TRUE).failure

AbstractStatus == IF pc[Run] # "done" THEN "open"
                  ELSE CASE exit[Run] = "success" -> "clean"
                         [] exit[Run] = "failure" -> "dirty"
                         [] OTHER                 -> "abandoned"

PublishedReport ==
    IF AbstractStatus \in {"clean", "dirty"}
    THEN {<<<<r.bench, r.use_vf>>, r.failure>> :
              r \in {row \in aggregate_db[AggregateKey(Run)].rows : row.stage = "emulate"}}
    ELSE {}

Promise == INSTANCE BatchPromise
           WITH Verdicts <- Failure, Good <- "none", Unknown <- "unknown",
                wanted   <- Scheduled(future_map[Run]),
                verdict  <- [j \in Jobs |-> RecordedVerdict(j)],
                status   <- AbstractStatus,
                report   <- PublishedReport

\* Every behaviour of the driver is a behaviour of the promise: no row on disk
\* ever changes its verdict, nothing is published while a scheduled job has none,
\* the aggregate is exactly what the workload files hold, and the exit status is
\* the conjunction of the published verdicts.
KeepsPromise == Promise!Spec
=============================================================================
