----------------------------- MODULE EmulateAll -----------------------------
(***************************************************************************)
(* scripts/emulate_all.py: one "emulate-all" invocation plans a job for    *)
(* every VF candidate of every workload plus one default (baseline) job,   *)
(* runs them on a thread pool, records one row per job in the workload's   *)
(* SQLite file and finally exports all workload files into one aggregate.  *)
(*                                                                         *)
(* Several invocations (Procs) share the artifacts directory: they overlap *)
(* in time, or a later one follows an earlier one that was killed.  Files  *)
(* are named by a run id of minute granularity, so two invocations of the  *)
(* same minute share the workload files.                                   *)
(***************************************************************************)
EXTENDS Naturals, FiniteSets

CONSTANTS Procs,       \* invocations of emulate_all.py
          ArchOf,      \* --arch of each invocation, part of the aggregate's name
          Benches,     \* the workloads discover_benches returns
          VFs,         \* vplan-use-vf values a VFS database can hold
          Default,     \* use_vf = "", the baseline job
          MaxWorkers,  \* --concurrency
          Outcomes,    \* the ways an emulation job may end (bound)
          MaxMinute    \* wall-clock minutes of a behaviour (bound)

Jobs == Benches \X (VFs \cup {Default})

INSTANCE ThreadPool

\* How run_emulate_job ends: a result (failed, complete, or without its build
\* artifacts), an Exception, or a SystemExit raised by emulate.fail.
JobOutcome == {"ok", "failed", "no_artifacts", "exception", "systemexit"}

Archs == {ArchOf[p] : p \in Procs}

ASSUME EmulateAssumption ==
    /\ IsFiniteSet(Benches) /\ IsFiniteSet(VFs)
    /\ Default \notin VFs
    /\ MaxWorkers \in Nat \ {0}
    /\ MaxMinute \in Nat \ {0}
    /\ Outcomes \subseteq JobOutcome

VARIABLES
    vfs,        \* the VFS input of each invocation: its source and what it holds
    minute,     \* wall clock, the granularity of run_id
    pc,         \* where each invocation is in main()
    run_id,     \* 0 until the invocation takes it from the clock
    todo,       \* workloads the current loop of main() has still to visit
    future_map, \* state of every job's future
    result,     \* how a finished job ended
    emulate_failures,
    exit,       \* how the process ended
    before,     \* history: the invocations that had ended when this one started
    workload_db,       \* rows of emulate-result-<bench>-<run_id>.sqlite
    aggregate_db,      \* rows of emulate-result-<arch>-...-<run_id>.sqlite
    aggregate_creator  \* the process whose connection writes to that file

procVars == <<vfs, pc, run_id, todo, future_map, result, emulate_failures, exit, before>>
fileVars == <<workload_db, aggregate_db, aggregate_creator>>
vars == <<minute, procVars, fileVars>>

Minutes == 1..MaxMinute
NoProc == "none"
NoResult == "none"

Failure == {"none", "emulate_exception", "emulate_failed", "artifact_capture_failed",
            "vplan_failed", "missing_vfs_db", "missing_vfs_entry"}

\* A result row; "by" stands for the columns that tell invocations apart
\* (run_id, created_at, simul, ...).
Row == [stage : {"vplan", "emulate"}, bench : Benches, use_vf : VFs \cup {Default},
        failure : Failure, by : Procs]

\* What the VFS input says of one workload.  vplan_explain_all writes either one
\* failure row or at least one candidate row per workload; killed after it has
\* created a workload's file, it leaves a table without rows.
VfsEntry == {e \in [present : BOOLEAN, failed : BOOLEAN, cands : SUBSET VFs] :
                /\ e.failed => e.present
                /\ e.cands # {} => e.present /\ ~e.failed}

\* main() reads the per-workload files ("dir") if that directory exists, else
\* the aggregate --vfs-db ("db") if it exists, else it has no VFS input.  In the
\* aggregate a workload is present by its rows.
VfsInput == {i \in [source : {"dir", "db", "none"}, entry : [Benches -> VfsEntry]] :
                \A b \in Benches :
                    /\ i.source = "none" => ~i.entry[b].present
                    /\ i.source = "db" => (i.entry[b].present <=> i.entry[b].failed \/ i.entry[b].cands # {})}
NoInput == [source |-> "none",
            entry |-> [b \in Benches |-> [present |-> FALSE, failed |-> FALSE, cands |-> {}]]]

\* Variant: a key that does not tell the jobs of a workload apart.
RowKey_WithoutVf(row) == <<row.stage, row.bench>>

\* PRIMARY KEY (stage, bench, use_vf) with INSERT OR REPLACE.
RowKey(row) == <<row.stage, row.bench, row.use_vf>>
File == [exists : BOOLEAN, rows : SUBSET Row]
NoFile == [exists |-> FALSE, rows |-> {}]
Holding(rows) == [exists |-> TRUE, rows |-> rows]
InsertRow(file, row) == Holding({r \in file.rows : RowKey(r) # RowKey(row)} \cup {row})

\* load_workload_vfs_records: the candidates and the failure of a workload.
VfsFailure(p, b) ==
    LET e == vfs[p].entry[b] IN
    CASE e.failed                             -> "vplan_failed"
      [] ~e.present /\ vfs[p].source = "db"      -> "missing_vfs_entry"
      [] ~e.present /\ vfs[p].source # "db"      -> "missing_vfs_db"
      [] OTHER                                -> "none"

Candidates(p, b) == vfs[p].entry[b].cands

\* The jobs appended to "scheduled" for a workload: its candidates and, after
\* them and whatever the VFS input says, the default run.
JobsOf(p, b) == {<<b, v>> : v \in Candidates(p, b) \cup {Default}}

\* Variant: the status text of the summary in place of the failure's category.
JobFailure_StatusText(o) ==
    CASE o = "exception"    -> "emulate_exception"
      [] o = "failed"       -> "TIMEOUT"
      [] o = "no_artifacts" -> "artifact_capture_failed"
      [] OTHER              -> "none"

\* The failure column of a finished job's row.
JobFailure(o) ==
    CASE o = "exception"    -> "emulate_exception"
      [] o = "failed"       -> "emulate_failed"
      [] o = "no_artifacts" -> "artifact_capture_failed"
      [] OTHER              -> "none"

\* Variant: missing artifacts are recorded but not counted.
CountFailure_NotArtifacts(n, o) == IF o \in {"failed", "exception"} THEN n + 1 ELSE n

\* emulate_failures after a job has ended with outcome o.
CountFailure(n, o) == IF JobFailure(o) = "none" THEN n ELSE n + 1

VplanRow(p, b) == [stage |-> "vplan", bench |-> b, use_vf |-> Default,
                   failure |-> VfsFailure(p, b), by |-> p]

EmulateRow(p, j, o) == [stage |-> "emulate", bench |-> j[1], use_vf |-> j[2],
                        failure |-> JobFailure(o), by |-> p]

AggregateKey(p) == <<ArchOf[p], run_id[p]>>

-----------------------------------------------------------------------------
Init ==
    /\ vfs = [p \in Procs |-> NoInput]
    /\ minute = 1
    /\ pc = [p \in Procs |-> "idle"]
    /\ run_id = [p \in Procs |-> 0]
    /\ todo = [p \in Procs |-> {}]
    /\ future_map = [p \in Procs |-> NoFutures]
    /\ result = [p \in Procs |-> [j \in Jobs |-> NoResult]]
    /\ emulate_failures = [p \in Procs |-> 0]
    /\ exit = [p \in Procs |-> "none"]
    /\ before = [p \in Procs |-> {}]
    /\ workload_db = [m \in Minutes |-> [b \in Benches |-> NoFile]]
    /\ aggregate_db = [k \in Archs \X Minutes |-> NoFile]
    /\ aggregate_creator = [k \in Archs \X Minutes |-> NoProc]

Tick == /\ minute < MaxMinute
        /\ minute' = minute + 1
        /\ UNCHANGED <<procVars, fileVars>>

\* parse_args .. discover_benches and the choice of the VFS input: the run id is
\* the current minute.
Start(p) ==
    /\ pc[p] = "idle"
    /\ pc' = [pc EXCEPT ![p] = "plan"]
    /\ run_id' = [run_id EXCEPT ![p] = minute]
    /\ todo' = [todo EXCEPT ![p] = Benches]
    /\ \E i \in VfsInput : vfs' = [vfs EXCEPT ![p] = i]
    /\ before' = [before EXCEPT ![p] = {q \in Procs : pc[q] = "done"}]
    /\ UNCHANGED <<minute, future_map, result, emulate_failures, exit, fileVars>>

\* A bad argument, a broken catalog or a missing image ends the process with
\* emulate.fail before it has touched a database.
Refuse(p) ==
    /\ pc[p] = "idle"
    /\ pc' = [pc EXCEPT ![p] = "done"]
    /\ exit' = [exit EXCEPT ![p] = "refused"]
    /\ UNCHANGED <<vfs, before, minute, run_id, todo, future_map, result, emulate_failures, fileVars>>

\* Variant: a file of the same minute is kept and added to.
PlanWorkload_KeepsFile(p, b) ==
    /\ pc[p] = "plan"
    /\ b \in todo[p]
    /\ todo' = [todo EXCEPT ![p] = @ \ {b}]
    /\ workload_db' = [workload_db EXCEPT ![run_id[p]][b] =
                         IF VfsFailure(p, b) = "none" THEN @ ELSE InsertRow(@, VplanRow(p, b))]
    /\ future_map' = [future_map EXCEPT ![p] = Schedule(@, JobsOf(p, b))]
    /\ UNCHANGED <<vfs, before, minute, pc, run_id, result, emulate_failures, exit,
                   aggregate_db, aggregate_creator>>

\* One turn of the planning loop: unlink the workload's file, record a VFS
\* failure in a fresh one, and schedule the workload's jobs.
PlanWorkload(p, b) ==
    /\ pc[p] = "plan"
    /\ b \in todo[p]
    /\ todo' = [todo EXCEPT ![p] = @ \ {b}]
    /\ workload_db' = [workload_db EXCEPT ![run_id[p]][b] =
                         IF VfsFailure(p, b) = "none" THEN NoFile ELSE Holding({VplanRow(p, b)})]
    /\ future_map' = [future_map EXCEPT ![p] = Schedule(@, JobsOf(p, b))]
    /\ UNCHANGED <<vfs, before, minute, pc, run_id, result, emulate_failures, exit,
                   aggregate_db, aggregate_creator>>

SubmitJobs(p) ==
    /\ pc[p] = "plan"
    /\ todo[p] = {}
    /\ pc' = [pc EXCEPT ![p] = "pool"]
    /\ future_map' = [future_map EXCEPT ![p] = SubmitAll(@)]
    /\ UNCHANGED <<vfs, before, minute, run_id, todo, result, emulate_failures, exit, fileVars>>

\* A worker takes a job.  Leaving the with block on an exception waits for the
\* pool without cancelling it, so jobs still start while pc is "drain".
StartJob(p, j) ==
    /\ pc[p] \in {"pool", "drain"}
    /\ CanStart(future_map[p], j)
    /\ future_map' = [future_map EXCEPT ![p][j] = "running"]
    /\ UNCHANGED <<vfs, before, minute, pc, run_id, todo, result, emulate_failures, exit, fileVars>>

FinishJob(p, j) ==
    /\ pc[p] \in {"pool", "drain"}
    /\ future_map[p][j] = "running"
    /\ \E o \in Outcomes : result' = [result EXCEPT ![p][j] = o]
    /\ future_map' = [future_map EXCEPT ![p][j] = "finished"]
    /\ UNCHANGED <<vfs, before, minute, pc, run_id, todo, emulate_failures, exit, fileVars>>

\* Variant: every row starts the workload's file again.
CollectJob_RecreatesFile(p, j) ==
    /\ pc[p] = "pool"
    /\ future_map[p][j] = "finished"
    /\ result[p][j] # "systemexit"
    /\ future_map' = [future_map EXCEPT ![p][j] = "yielded"]
    /\ emulate_failures' = [emulate_failures EXCEPT ![p] = CountFailure(@, result[p][j])]
    /\ workload_db' = [workload_db EXCEPT ![run_id[p]][j[1]] =
                         Holding({EmulateRow(p, j, result[p][j])})]
    /\ UNCHANGED <<vfs, before, minute, pc, run_id, todo, result, exit,
                   aggregate_db, aggregate_creator>>

\* One turn of the as_completed loop for a job that returned or raised an
\* Exception: count it and insert its row.
CollectJob(p, j) ==
    /\ pc[p] = "pool"
    /\ future_map[p][j] = "finished"
    /\ result[p][j] # "systemexit"
    /\ future_map' = [future_map EXCEPT ![p][j] = "yielded"]
    /\ emulate_failures' = [emulate_failures EXCEPT ![p] = CountFailure(@, result[p][j])]
    /\ workload_db' = [workload_db EXCEPT ![run_id[p]][j[1]] =
                         InsertRow(@, EmulateRow(p, j, result[p][j]))]
    /\ UNCHANGED <<vfs, before, minute, pc, run_id, todo, result, exit,
                   aggregate_db, aggregate_creator>>

\* future.result() re-raises SystemExit, which "except Exception" lets through:
\* the loop is abandoned and the with block waits for the remaining jobs.
CollectSystemExit(p, j) ==
    /\ pc[p] = "pool"
    /\ future_map[p][j] = "finished"
    /\ result[p][j] = "systemexit"
    /\ future_map' = [future_map EXCEPT ![p][j] = "yielded"]
    /\ pc' = [pc EXCEPT ![p] = "drain"]
    /\ UNCHANGED <<vfs, before, minute, run_id, todo, result, emulate_failures, exit, fileVars>>

\* Variant: the with block waits for results that nobody collects any more.
LeaveDrainedPool_Collected(p) ==
    /\ pc[p] = "drain"
    /\ AllYielded(future_map[p])
    /\ pc' = [pc EXCEPT ![p] = "done"]
    /\ exit' = [exit EXCEPT ![p] = "systemexit"]
    /\ UNCHANGED <<vfs, before, minute, run_id, todo, future_map, result, emulate_failures, fileVars>>

LeaveDrainedPool(p) ==
    /\ pc[p] = "drain"
    /\ Drained(future_map[p])
    /\ pc' = [pc EXCEPT ![p] = "done"]
    /\ exit' = [exit EXCEPT ![p] = "systemexit"]
    /\ UNCHANGED <<vfs, before, minute, run_id, todo, future_map, result, emulate_failures, fileVars>>

\* Variant: the pool is left when the jobs have finished, recorded or not.
LeavePool_Drained(p) ==
    /\ pc[p] = "pool"
    /\ Drained(future_map[p])
    /\ pc' = [pc EXCEPT ![p] = "export"]
    /\ UNCHANGED <<vfs, before, minute, run_id, todo, future_map, result, emulate_failures, exit, fileVars>>

LeavePool(p) ==
    /\ pc[p] = "pool"
    /\ AllYielded(future_map[p])
    /\ pc' = [pc EXCEPT ![p] = "export"]
    /\ UNCHANGED <<vfs, before, minute, run_id, todo, future_map, result, emulate_failures, exit, fileVars>>

\* export_aggregate_db unlinks the aggregate and creates it again; another
\* process that still holds the old file now writes to an unlinked inode.
ExportOpen(p) ==
    /\ pc[p] = "export"
    /\ pc' = [pc EXCEPT ![p] = "copy"]
    /\ todo' = [todo EXCEPT ![p] = Benches]
    /\ aggregate_db' = [aggregate_db EXCEPT ![AggregateKey(p)] = Holding({})]
    /\ aggregate_creator' = [aggregate_creator EXCEPT ![AggregateKey(p)] = p]
    /\ UNCHANGED <<vfs, before, minute, run_id, future_map, result, emulate_failures, exit, workload_db>>

\* Copy and commit the rows of one workload file.
ExportWorkload(p, b) ==
    /\ pc[p] = "copy"
    /\ b \in todo[p]
    /\ workload_db[run_id[p]][b].exists
    /\ todo' = [todo EXCEPT ![p] = @ \ {b}]
    /\ aggregate_db' =
         IF aggregate_creator[AggregateKey(p)] = p
         THEN [aggregate_db EXCEPT ![AggregateKey(p)] = Holding(@.rows \cup workload_db[run_id[p]][b].rows)]
         ELSE aggregate_db
    /\ UNCHANGED <<vfs, before, minute, pc, run_id, future_map, result, emulate_failures, exit,
                   workload_db, aggregate_creator>>

\* SELECT on a file without the table raises OperationalError; connecting has
\* created the (empty) file, which later planning would unlink again.
ExportError(p, b) ==
    /\ pc[p] = "copy"
    /\ b \in todo[p]
    /\ ~workload_db[run_id[p]][b].exists
    /\ pc' = [pc EXCEPT ![p] = "done"]
    /\ exit' = [exit EXCEPT ![p] = "export_error"]
    /\ UNCHANGED <<vfs, before, minute, run_id, todo, future_map, result, emulate_failures, fileVars>>

Finish(p) ==
    /\ pc[p] = "copy"
    /\ todo[p] = {}
    /\ pc' = [pc EXCEPT ![p] = "done"]
    /\ exit' = [exit EXCEPT ![p] = IF emulate_failures[p] = 0 THEN "success" ELSE "failure"]
    /\ UNCHANGED <<vfs, before, minute, run_id, todo, future_map, result, emulate_failures, fileVars>>

\* The process is killed (or the machine goes down) at any point.
Kill(p) ==
    /\ pc[p] \notin {"idle", "done"}
    /\ pc' = [pc EXCEPT ![p] = "done"]
    /\ exit' = [exit EXCEPT ![p] = "killed"]
    /\ UNCHANGED <<vfs, before, minute, run_id, todo, future_map, result, emulate_failures, fileVars>>

Worker(p) == \E j \in Jobs : StartJob(p, j) \/ FinishJob(p, j)

Main(p) ==
    \/ \E b \in Benches : PlanWorkload(p, b) \/ ExportWorkload(p, b) \/ ExportError(p, b)
    \/ \E j \in Jobs : CollectJob(p, j) \/ CollectSystemExit(p, j)
    \/ SubmitJobs(p) \/ LeaveDrainedPool(p) \/ LeavePool(p) \/ ExportOpen(p) \/ Finish(p)

AllDone == \A p \in Procs : pc[p] = "done"

\* Every invocation has ended; the files stay.
Terminated == AllDone /\ UNCHANGED vars

Next == \/ Tick
        \/ \E p \in Procs : Start(p) \/ Refuse(p) \/ Kill(p) \/ Main(p) \/ Worker(p)
        \/ Terminated

Spec == Init /\ [][Next]_vars

\* The main thread and the pool's threads are scheduled by the OS, and every
\* container ends by itself: run-sim.sh bounds each simulation by --timeout.
Fairness == \A p \in Procs : WF_vars(Main(p)) /\ WF_vars(Worker(p))

FairSpec == Spec /\ Fairness

-----------------------------------------------------------------------------
TypeOK ==
    /\ vfs \in [Procs -> VfsInput]
    /\ minute \in Minutes
    /\ pc \in [Procs -> {"idle", "plan", "pool", "drain", "export", "copy", "done"}]
    /\ run_id \in [Procs -> Minutes \cup {0}]
    /\ \A p \in Procs : run_id[p] = 0 => pc[p] \in {"idle", "done"}
    /\ todo \in [Procs -> SUBSET Benches]
    /\ future_map \in [Procs -> [Jobs -> FutureState]]
    /\ result \in [Procs -> [Jobs -> JobOutcome \cup {NoResult}]]
    /\ emulate_failures \in [Procs -> Nat]
    /\ exit \in [Procs -> {"none", "refused", "systemexit", "export_error",
                           "success", "failure", "killed"}]
    /\ before \in [Procs -> SUBSET Procs]
    /\ workload_db \in [Minutes -> [Benches -> File]]
    /\ aggregate_db \in [Archs \X Minutes -> File]
    /\ aggregate_creator \in [Archs \X Minutes -> Procs \cup {NoProc}]

\* Every other invocation that took the same run id had ended (by itself or
\* killed) before this one started.
Undisturbed(p) == \A q \in Procs \ {p} : run_id[q] = run_id[p] => q \in before[p]

Reported(p) == exit[p] \in {"success", "failure"}

\* The jobs whose results the as_completed loop has turned into rows.
Collected(p) == {j \in Yielded(future_map[p]) : result[p][j] # "systemexit"}

VplanRows(p, b) == IF VfsFailure(p, b) = "none" THEN {} ELSE {VplanRow(p, b)}

FailedJobs(p) == {j \in Collected(p) : JobFailure(result[p][j]) # "none"}

\* The runs a user asked for: each candidate of each workload, and a baseline.
Due(p) == {j \in Jobs : j[2] = Default \/ j[2] \in vfs[p].entry[j[1]].cands}

\* What the aggregate of a finished run has to hold, told from the VFS input
\* and the outcome of each job alone.
UnusableInputs(p) == UNION {VplanRows(p, b) : b \in Benches}
DueRows(p) == {EmulateRow(p, j, result[p][j]) : j \in Due(p)}
Promised(p) == UnusableInputs(p) \cup DueRows(p)

\* A run that reports (exit status 0 or 1), and that no other run of its minute
\* overlapped or followed, has published exactly one row per job, with that job's
\* own verdict, the baseline run of every workload among them, and one failure
\* row for each workload whose VFS input was unusable: nothing is lost between
\* the pool, the workload files and the aggregate, and nothing a killed run of
\* the same minute left in those files survives.
AggregateComplete ==
    \A p \in Procs : Reported(p) /\ Undisturbed(p) => aggregate_db[AggregateKey(p)] = Holding(Promised(p))

\* The exit status speaks for the rows: 0 exactly when no published emulate row
\* carries a failure.  VFS failures alone never fail the run.
ExitMatchesRows ==
    \A p \in Procs : Reported(p) /\ Undisturbed(p) =>
        (exit[p] = "success" <=>
            \A r \in aggregate_db[AggregateKey(p)].rows : r.stage = "emulate" => r.failure = "none")

\* The counter behind the exit status agrees with the outcomes at every turn of
\* the loop, in whatever order the pool delivers them, with or without company.
FailuresCounted ==
    \A p \in Procs : emulate_failures[p] = Cardinality(FailedJobs(p))

\* Exporting finds a table in every workload file (each workload has at least the
\* row of its baseline run) unless another invocation of the same minute has
\* unlinked one.
ExportFindsTables ==
    \A p \in Procs : pc[p] \in {"export", "copy"} /\ Undisturbed(p) =>
        \A b \in Benches : workload_db[run_id[p]][b].exists

KeepsRows(p) ==
    pc[p] \notin {"idle", "plan", "done"} /\ Undisturbed(p)' =>
        \A b \in Benches : workload_db[run_id[p]][b].rows \subseteq workload_db[run_id[p]][b].rows'

\* Once planning is over, a run never loses or rewrites a row it has recorded:
\* INSERT OR REPLACE never meets an existing key, whatever invocations of other
\* minutes do and wherever they are killed.
RowsOnlyGrow == [][\A p \in Procs : KeepsRows(p)]_vars

\* Every invocation that has started ends: the pool drains even when a job
\* raised SystemExit, and no future is waited for that nobody runs.
EveryRunEnds == \A p \in Procs : pc[p] # "idle" ~> pc[p] = "done"

-----------------------------------------------------------------------------
(* The inductive invariant behind the safety properties, in four parts.    *)

Active(p) == pc[p] \notin {"idle", "done"}

\* Who has ended before whom, and what an exit value says of the control point.
ControlInv ==
    \A p \in Procs :
        /\ pc[p] = "idle" => run_id[p] = 0 /\ emulate_failures[p] = 0
        /\ exit[p] = "none" <=> pc[p] # "done"
        /\ Reported(p) => run_id[p] # 0
        /\ \A q \in before[p] : pc[q] = "done"

\* Which jobs have futures, and how far these can be at each control point.
FuturesInv ==
    \A p \in Procs : \A j \in Jobs :
        /\ pc[p] = "idle" => future_map[p][j] = "none"
        /\ pc[p] = "plan" =>
             future_map[p][j] = IF j \in Due(p) /\ j[1] \notin todo[p] THEN "scheduled" ELSE "none"
        /\ pc[p] \in {"pool", "drain"} =>
             /\ future_map[p][j] # "scheduled"
             /\ future_map[p][j] # "none" <=> j \in Due(p)
        /\ pc[p] \in {"export", "copy"} \/ Reported(p) =>
             future_map[p][j] = IF j \in Due(p) THEN "yielded" ELSE "none"
        /\ future_map[p][j] = "yielded" /\ result[p][j] = "systemexit" =>
             pc[p] \in {"drain", "done"} /\ ~Reported(p)

\* Rows are in files: a workload file is created by its first row.
TablesInv ==
    \A m \in Minutes, b \in Benches : ~workload_db[m][b].exists => workload_db[m][b].rows = {}

\* The rows of one workload that the invocation has produced so far.
LedgerRows(p, b) ==
    VplanRows(p, b) \cup {EmulateRow(p, j, result[p][j]) : j \in {k \in Collected(p) : k[1] = b}}

AllRows(p) == UNION {LedgerRows(p, b) : b \in Benches}

CopiedRows(p) == UNION {LedgerRows(p, b) : b \in Benches \ todo[p]}

\* A workload file holds the rows its undisturbed owner has produced, no more
\* and no less, from the moment the owner has planned the workload.
LedgerInv ==
    \A p \in Procs : Active(p) /\ Undisturbed(p) =>
        \A b \in Benches : ~(pc[p] = "plan" /\ b \in todo[p]) =>
            workload_db[run_id[p]][b].rows = LedgerRows(p, b)

\* The aggregate holds the rows of the workloads exported so far, and a
\* reported status is the one the counter gives.
ExportInv ==
    \A p \in Procs : Undisturbed(p) =>
        /\ pc[p] = "copy" =>
             /\ aggregate_creator[AggregateKey(p)] = p
             /\ aggregate_db[AggregateKey(p)] = Holding(CopiedRows(p))
        /\ Reported(p) =>
             /\ aggregate_db[AggregateKey(p)] = Holding(AllRows(p))
             /\ exit[p] = "success" <=> emulate_failures[p] = 0
=============================================================================
