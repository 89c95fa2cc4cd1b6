-------------------------- MODULE EmulateAllProofs --------------------------
(***************************************************************************)
(* Theorems about EmulateAll, for any number of invocations, workloads,    *)
(* VF candidates, workers and minutes.                                     *)
(***************************************************************************)
EXTENDS EmulateAllRefinement, FiniteSetTheorems, TLAPS

\* A job is a pair of a workload and a use_vf.
LEMMA JobParts ==
    ASSUME NEW j \in Jobs
    PROVE  j[1] \in Benches /\ j[2] \in VFs \cup {Default} /\ j = <<j[1], j[2]>>
BY DEF Jobs

\* Every row the driver writes is a row of the table.
LEMMA EmulateRowType ==
    ASSUME NEW p \in Procs, NEW j \in Jobs, NEW o
    PROVE  EmulateRow(p, j, o) \in Row
<1>1. JobFailure(o) \in Failure
    BY DEF JobFailure, Failure
<1>2. QED
    BY <1>1, JobParts DEF EmulateRow, Row

LEMMA VplanRowType ==
    ASSUME NEW p \in Procs, NEW b \in Benches
    PROVE  VplanRow(p, b) \in Row
<1>1. VfsFailure(p, b) \in Failure
    BY DEF VfsFailure, Failure
<1>2. QED
    BY <1>1 DEF VplanRow, Row

LEMMA InsertRowType ==
    ASSUME NEW file \in File, NEW row \in Row
    PROVE  InsertRow(file, row) \in File
BY DEF InsertRow, Holding, File

\* The pool operators map futures to futures.
LEMMA PoolTypes ==
    ASSUME NEW fut \in [Jobs -> FutureState], NEW S
    PROVE  /\ NoFutures \in [Jobs -> FutureState]
           /\ Schedule(fut, S) \in [Jobs -> FutureState]
           /\ SubmitAll(fut) \in [Jobs -> FutureState]
BY DEF NoFutures, Schedule, SubmitAll, FutureState

\* The jobs planned for a workload are the due jobs of that workload.
LEMMA JobsOfDue ==
    ASSUME NEW p \in Procs, NEW b \in Benches, NEW j \in Jobs
    PROVE  j \in JobsOf(p, b) <=> j[1] = b /\ j \in Due(p)
BY JobParts DEF JobsOf, Candidates, Due

LEMMA NoInputType == NoInput \in VfsInput
BY DEF NoInput, VfsInput, VfsEntry

\* The state stays of its type: every row that reaches a workload file or the
\* aggregate is a row of the table, with a failure value the readers know.
THEOREM TypeCorrect == Spec => []TypeOK
<1>1. Init => TypeOK
    BY NoInputType, EmulateAssumption
       DEF Init, TypeOK, Minutes, NoFutures, FutureState, NoResult, NoProc, NoFile, File
<1>2. TypeOK /\ [Next]_vars => TypeOK'
  <2> SUFFICES ASSUME TypeOK, [Next]_vars PROVE TypeOK'
    OBVIOUS
  <2> USE DEF TypeOK
  <2>1. CASE Tick
    BY <2>1, EmulateAssumption DEF Tick, Minutes, procVars, fileVars
  <2>2. ASSUME NEW p \in Procs, Start(p) PROVE TypeOK'
    BY <2>2, EmulateAssumption DEF Start, Minutes, fileVars
  <2>3. ASSUME NEW p \in Procs, Refuse(p) PROVE TypeOK'
    BY <2>3 DEF Refuse, fileVars
  <2>4. ASSUME NEW p \in Procs, Kill(p) PROVE TypeOK'
    BY <2>4 DEF Kill, fileVars
  <2>5. ASSUME NEW p \in Procs, NEW b \in Benches, PlanWorkload(p, b) PROVE TypeOK'
    <3>1. run_id[p] \in Minutes
      BY <2>5 DEF PlanWorkload
    <3>2. (IF VfsFailure(p, b) = "none" THEN NoFile ELSE Holding({VplanRow(p, b)})) \in File
      BY VplanRowType DEF NoFile, Holding, File
    <3>3. workload_db' \in [Minutes -> [Benches -> File]]
      BY <2>5, <3>1, <3>2 DEF PlanWorkload
    <3>4. future_map' \in [Procs -> [Jobs -> FutureState]]
      BY <2>5, PoolTypes DEF PlanWorkload
    <3>5. QED
      BY <2>5, <3>3, <3>4 DEF PlanWorkload
  <2>6. ASSUME NEW p \in Procs, NEW b \in Benches, ExportWorkload(p, b) PROVE TypeOK'
    <3>1. run_id[p] \in Minutes /\ AggregateKey(p) \in Archs \X Minutes
      BY <2>6 DEF ExportWorkload, AggregateKey, Archs
    <3>2. workload_db[run_id[p]][b].rows \in SUBSET Row
      BY <2>6, <3>1 DEF File
    <3>3. CASE aggregate_creator[AggregateKey(p)] = p
      <4>1. Holding(aggregate_db[AggregateKey(p)].rows \cup workload_db[run_id[p]][b].rows) \in File
        BY <3>1, <3>2 DEF Holding, File
      <4>2. QED
        BY <2>6, <3>1, <3>3, <4>1 DEF ExportWorkload
    <3>4. CASE aggregate_creator[AggregateKey(p)] # p
      BY <2>6, <3>4 DEF ExportWorkload
    <3>5. QED
      BY <3>3, <3>4
  <2>7. ASSUME NEW p \in Procs, NEW b \in Benches, ExportError(p, b) PROVE TypeOK'
    BY <2>7 DEF ExportError, fileVars
  <2>8. ASSUME NEW p \in Procs, NEW j \in Jobs, CollectJob(p, j) PROVE TypeOK'
    <3>1. run_id[p] \in Minutes /\ j[1] \in Benches
      BY <2>8, JobParts DEF CollectJob
    <3>2. InsertRow(workload_db[run_id[p]][j[1]], EmulateRow(p, j, result[p][j])) \in File
      BY <3>1, EmulateRowType, InsertRowType
    <3>3. workload_db' \in [Minutes -> [Benches -> File]]
      BY <2>8, <3>1, <3>2 DEF CollectJob
    <3>4. emulate_failures' \in [Procs -> Nat] /\ future_map' \in [Procs -> [Jobs -> FutureState]]
      BY <2>8 DEF CountFailure, CollectJob, FutureState
    <3>5. QED
      BY <2>8, <3>3, <3>4 DEF CollectJob
  <2>9. ASSUME NEW p \in Procs, NEW j \in Jobs, CollectSystemExit(p, j) PROVE TypeOK'
    BY <2>9 DEF CollectSystemExit, FutureState, fileVars
  <2>10. ASSUME NEW p \in Procs, SubmitJobs(p) PROVE TypeOK'
    BY <2>10, PoolTypes DEF SubmitJobs, fileVars
  <2>11. ASSUME NEW p \in Procs, LeaveDrainedPool(p) PROVE TypeOK'
    BY <2>11 DEF LeaveDrainedPool, fileVars
  <2>12. ASSUME NEW p \in Procs, LeavePool(p) PROVE TypeOK'
    BY <2>12 DEF LeavePool, fileVars
  <2>13. ASSUME NEW p \in Procs, ExportOpen(p) PROVE TypeOK'
    BY <2>13 DEF ExportOpen, AggregateKey, Archs, Holding, File
  <2>14. ASSUME NEW p \in Procs, Finish(p) PROVE TypeOK'
    BY <2>14 DEF Finish, fileVars
  <2>15. ASSUME NEW p \in Procs, NEW j \in Jobs, StartJob(p, j) PROVE TypeOK'
    BY <2>15 DEF StartJob, FutureState, fileVars
  <2>16. ASSUME NEW p \in Procs, NEW j \in Jobs, FinishJob(p, j) PROVE TypeOK'
    BY <2>16, EmulateAssumption DEF FinishJob, FutureState, fileVars
  <2>17. CASE UNCHANGED vars
    BY <2>17 DEF vars, procVars, fileVars
  <2>18. QED
    BY <2>1, <2>2, <2>3, <2>4, <2>5, <2>6, <2>7, <2>8, <2>9, <2>10, <2>11, <2>12,
       <2>13, <2>14, <2>15, <2>16, <2>17 DEF Next, Main, Worker, Terminated
<1>3. QED
    BY <1>1, <1>2, PTL DEF Spec

\* An exit value is set exactly when the process ends, and "before" only ever names
\* invocations that have ended, which stay so.
THEOREM ControlCorrect == Spec => []ControlInv
<1>1. Init => ControlInv
    BY DEF Init, ControlInv, Reported
<1>2. TypeOK /\ ControlInv /\ [Next]_vars => ControlInv'
  <2> SUFFICES ASSUME TypeOK, ControlInv, [Next]_vars PROVE ControlInv'
    OBVIOUS
  <2>1. CASE Tick
    BY <2>1 DEF TypeOK, ControlInv, Reported, Tick, procVars, fileVars
  <2>2. ASSUME NEW p \in Procs, Start(p) PROVE ControlInv'
    BY <2>2 DEF TypeOK, ControlInv, Reported, Start, procVars, fileVars
  <2>3. ASSUME NEW p \in Procs, Refuse(p) PROVE ControlInv'
    BY <2>3 DEF TypeOK, ControlInv, Reported, Refuse, procVars, fileVars
  <2>4. ASSUME NEW p \in Procs, Kill(p) PROVE ControlInv'
    BY <2>4 DEF TypeOK, ControlInv, Reported, Kill, procVars, fileVars
  <2>5. ASSUME NEW p \in Procs, NEW b \in Benches, PlanWorkload(p, b) PROVE ControlInv'
    BY <2>5 DEF TypeOK, ControlInv, Reported, PlanWorkload, procVars, fileVars
  <2>6. ASSUME NEW p \in Procs, NEW b \in Benches, ExportWorkload(p, b) PROVE ControlInv'
    BY <2>6 DEF TypeOK, ControlInv, Reported, ExportWorkload, procVars, fileVars
  <2>7. ASSUME NEW p \in Procs, NEW b \in Benches, ExportError(p, b) PROVE ControlInv'
    BY <2>7 DEF TypeOK, ControlInv, Reported, ExportError, procVars, fileVars
  <2>8. ASSUME NEW p \in Procs, NEW j \in Jobs, CollectJob(p, j) PROVE ControlInv'
    BY <2>8 DEF TypeOK, ControlInv, Reported, CollectJob, procVars, fileVars
  <2>9. ASSUME NEW p \in Procs, NEW j \in Jobs, CollectSystemExit(p, j) PROVE ControlInv'
    BY <2>9 DEF TypeOK, ControlInv, Reported, CollectSystemExit, procVars, fileVars
  <2>10. ASSUME NEW p \in Procs, SubmitJobs(p) PROVE ControlInv'
    BY <2>10 DEF TypeOK, ControlInv, Reported, SubmitJobs, procVars, fileVars
  <2>11. ASSUME NEW p \in Procs, LeaveDrainedPool(p) PROVE ControlInv'
    BY <2>11 DEF TypeOK, ControlInv, Reported, LeaveDrainedPool, procVars, fileVars
  <2>12. ASSUME NEW p \in Procs, LeavePool(p) PROVE ControlInv'
    BY <2>12 DEF TypeOK, ControlInv, Reported, LeavePool, procVars, fileVars
  <2>13. ASSUME NEW p \in Procs, ExportOpen(p) PROVE ControlInv'
    BY <2>13 DEF TypeOK, ControlInv, Reported, ExportOpen, procVars, fileVars
  <2>14. ASSUME NEW p \in Procs, Finish(p) PROVE ControlInv'
    BY <2>14 DEF TypeOK, ControlInv, Reported, Finish, procVars, fileVars
  <2>15. ASSUME NEW p \in Procs, NEW j \in Jobs, StartJob(p, j) PROVE ControlInv'
    BY <2>15 DEF TypeOK, ControlInv, Reported, StartJob, procVars, fileVars
  <2>16. ASSUME NEW p \in Procs, NEW j \in Jobs, FinishJob(p, j) PROVE ControlInv'
    BY <2>16 DEF TypeOK, ControlInv, Reported, FinishJob, procVars, fileVars
  <2>17. CASE UNCHANGED vars
    BY <2>17 DEF TypeOK, ControlInv, Reported, vars, procVars, fileVars
  <2>18. QED
    BY <2>1, <2>2, <2>3, <2>4, <2>5, <2>6, <2>7, <2>8, <2>9, <2>10, <2>11, <2>12, <2>13, <2>14, <2>15, <2>16, <2>17 DEF Next, Main, Worker, Terminated
<1>3. QED
    BY <1>1, <1>2, TypeCorrect, PTL DEF Spec

\* A job has a future exactly when it is due, and a run that exports or reports has
\* taken every one of them, none of which raised SystemExit.
THEOREM FuturesCorrect == Spec => []FuturesInv
<1>1. Init => FuturesInv
    BY DEF Init, FuturesInv, NoFutures, Reported
<1>2. TypeOK /\ ControlInv /\ FuturesInv /\ [Next]_vars => FuturesInv'
  <2> SUFFICES ASSUME TypeOK /\ ControlInv, FuturesInv, [Next]_vars PROVE FuturesInv'
    OBVIOUS
  <2>1. CASE Tick
    BY <2>1 DEF TypeOK, ControlInv, FuturesInv, Tick, Reported, Due, procVars, fileVars
  <2>2. ASSUME NEW p \in Procs, Start(p) PROVE FuturesInv'
    <3> SUFFICES ASSUME NEW q \in Procs, NEW k \in Jobs PROVE FuturesInv!(q)!(k)'
      BY DEF FuturesInv
    <3>1. CASE q = p
      BY <2>2, <3>1, JobParts DEF TypeOK, ControlInv, FuturesInv, Start, Reported
    <3>2. CASE q # p
      BY <2>2, <3>2 DEF TypeOK, FuturesInv, Start, Reported, Due
    <3>3. QED
      BY <3>1, <3>2
  <2>3. ASSUME NEW p \in Procs, Refuse(p) PROVE FuturesInv'
    BY <2>3 DEF TypeOK, ControlInv, FuturesInv, Refuse, Reported, Due, procVars, fileVars
  <2>4. ASSUME NEW p \in Procs, Kill(p) PROVE FuturesInv'
    BY <2>4 DEF TypeOK, ControlInv, FuturesInv, Kill, Reported, Due, procVars, fileVars
  <2>5. ASSUME NEW p \in Procs, NEW b \in Benches, PlanWorkload(p, b) PROVE FuturesInv'
    <3> SUFFICES ASSUME NEW q \in Procs, NEW k \in Jobs PROVE FuturesInv!(q)!(k)'
      BY DEF FuturesInv
    <3>1. CASE q = p
      BY <2>5, <3>1, JobParts, JobsOfDue DEF TypeOK, ControlInv, FuturesInv, PlanWorkload, Reported, Due, Schedule
    <3>2. CASE q # p
      BY <2>5, <3>2 DEF TypeOK, FuturesInv, PlanWorkload, Reported, Due
    <3>3. QED
      BY <3>1, <3>2
  <2>6. ASSUME NEW p \in Procs, NEW b \in Benches, ExportWorkload(p, b) PROVE FuturesInv'
    BY <2>6 DEF TypeOK, ControlInv, FuturesInv, ExportWorkload, Reported, Due, procVars, fileVars
  <2>7. ASSUME NEW p \in Procs, NEW b \in Benches, ExportError(p, b) PROVE FuturesInv'
    BY <2>7 DEF TypeOK, ControlInv, FuturesInv, ExportError, Reported, Due, procVars, fileVars
  <2>8. ASSUME NEW p \in Procs, NEW j \in Jobs, CollectJob(p, j) PROVE FuturesInv'
    BY <2>8 DEF TypeOK, ControlInv, FuturesInv, CollectJob, Reported, Due, procVars, fileVars
  <2>9. ASSUME NEW p \in Procs, NEW j \in Jobs, CollectSystemExit(p, j) PROVE FuturesInv'
    BY <2>9 DEF TypeOK, ControlInv, FuturesInv, CollectSystemExit, Reported, Due, procVars, fileVars
  <2>10. ASSUME NEW p \in Procs, SubmitJobs(p) PROVE FuturesInv'
    <3> SUFFICES ASSUME NEW q \in Procs, NEW k \in Jobs PROVE FuturesInv!(q)!(k)'
      BY DEF FuturesInv
    <3>1. CASE q = p
      BY <2>10, <3>1, JobParts DEF TypeOK, ControlInv, FuturesInv, SubmitJobs, Reported, Due, SubmitAll
    <3>2. CASE q # p
      BY <2>10, <3>2 DEF TypeOK, FuturesInv, SubmitJobs, Reported, Due
    <3>3. QED
      BY <3>1, <3>2
  <2>11. ASSUME NEW p \in Procs, LeaveDrainedPool(p) PROVE FuturesInv'
    BY <2>11 DEF TypeOK, ControlInv, FuturesInv, LeaveDrainedPool, Reported, Due, procVars, fileVars
  <2>12. ASSUME NEW p \in Procs, LeavePool(p) PROVE FuturesInv'
    <3> SUFFICES ASSUME NEW q \in Procs, NEW k \in Jobs PROVE FuturesInv!(q)!(k)'
      BY DEF FuturesInv
    <3>1. CASE q = p
      <4>1. pc[p] = "pool" /\ future_map[p][k] \in {"none", "yielded"}
        BY <2>12 DEF LeavePool, AllYielded
      <4>2. future_map[p][k] = IF k \in Due(p) THEN "yielded" ELSE "none"
        BY <4>1 DEF FuturesInv
      <4>3. ~(future_map[p][k] = "yielded" /\ result[p][k] = "systemexit")
        BY <4>1 DEF FuturesInv
      <4>4. pc'[p] = "export" /\ UNCHANGED <<vfs, todo, future_map, result>>
        BY <2>12 DEF LeavePool, TypeOK
      <4>5. Due(p)' = Due(p)
        BY <4>4 DEF Due
      <4>6. QED
        BY <3>1, <4>2, <4>3, <4>4, <4>5
    <3>2. CASE q # p
      BY <2>12, <3>2 DEF TypeOK, FuturesInv, LeavePool, Reported, Due
    <3>3. QED
      BY <3>1, <3>2
  <2>13. ASSUME NEW p \in Procs, ExportOpen(p) PROVE FuturesInv'
    BY <2>13 DEF TypeOK, ControlInv, FuturesInv, ExportOpen, Reported, Due, procVars, fileVars
  <2>14. ASSUME NEW p \in Procs, Finish(p) PROVE FuturesInv'
    BY <2>14 DEF TypeOK, ControlInv, FuturesInv, Finish, Reported, Due, procVars, fileVars
  <2>15. ASSUME NEW p \in Procs, NEW j \in Jobs, StartJob(p, j) PROVE FuturesInv'
    <3> SUFFICES ASSUME NEW q \in Procs, NEW k \in Jobs PROVE FuturesInv!(q)!(k)'
      BY DEF FuturesInv
    <3>1. CASE q = p
      <4>1. future_map[p][j] = "pending" /\ pc[p] \in {"pool", "drain"}
        BY <2>15 DEF StartJob, CanStart
      <4>2. future_map'[p][k] = IF k = j THEN "running" ELSE future_map[p][k]
        BY <2>15 DEF StartJob, TypeOK
      <4>3. Due(p)' = Due(p) /\ exit' = exit /\ pc' = pc /\ result' = result
        BY <2>15 DEF StartJob, Due
      <4>4. exit[p] = "none"
        BY <4>1 DEF ControlInv
      <4>5. QED
        BY <3>1, <4>1, <4>2, <4>3, <4>4 DEF FuturesInv, Reported
    <3>2. CASE q # p
      BY <2>15, <3>2 DEF TypeOK, FuturesInv, StartJob, Reported, Due
    <3>3. QED
      BY <3>1, <3>2
  <2>16. ASSUME NEW p \in Procs, NEW j \in Jobs, FinishJob(p, j) PROVE FuturesInv'
    BY <2>16 DEF TypeOK, ControlInv, FuturesInv, FinishJob, Reported, Due, procVars, fileVars
  <2>17. CASE UNCHANGED vars
    BY <2>17 DEF TypeOK, ControlInv, FuturesInv, vars, Reported, Due, procVars, fileVars
  <2>18. QED
    BY <2>1, <2>2, <2>3, <2>4, <2>5, <2>6, <2>7, <2>8, <2>9, <2>10, <2>11, <2>12, <2>13, <2>14, <2>15, <2>16, <2>17 DEF Next, Main, Worker, Terminated
<1>3. QED
    BY <1>1, <1>2, TypeCorrect, ControlCorrect, PTL DEF Spec


LEMMA FailedJobsFinite == \A p \in Procs : IsFiniteSet(FailedJobs(p))
<1>1. IsFiniteSet(VFs \cup {Default})
    BY EmulateAssumption, FS_AddElement
<1>2. IsFiniteSet(Jobs)
    BY <1>1, EmulateAssumption, FS_Product DEF Jobs
<1>3. \A p \in Procs : FailedJobs(p) \subseteq Jobs
    BY DEF FailedJobs, Collected, Yielded
<1>4. QED
    BY <1>2, <1>3, FS_Subset

\* Only the as_completed loop of an invocation adds to its collected jobs, and a
\* collected job's result is final.
LEMMA CollectedStep ==
    ASSUME TypeOK, FuturesInv, [Next]_vars, NEW q \in Procs,
           \A j \in Jobs : ~CollectJob(q, j)
    PROVE  /\ Collected(q)' = Collected(q)
           /\ \A j \in Collected(q) : result'[q][j] = result[q][j]
<1> DEFINE Same == /\ Collected(q)' = Collected(q)
                   /\ \A j \in Collected(q) : result'[q][j] = result[q][j]
<1>1. ASSUME future_map'[q] = future_map[q], result'[q] = result[q] PROVE Same
    BY <1>1 DEF Collected, Yielded
<1>2. ASSUME Yielded(future_map'[q]) = Yielded(future_map[q]),
             \A k \in Yielded(future_map[q]) : result'[q][k] = result[q][k]
      PROVE  Same
    BY <1>2 DEF Collected
<1>3. ASSUME NEW p \in Procs, NEW b \in Benches, PlanWorkload(p, b) PROVE Same
  <2>1. CASE q = p
    <3>1. \A k \in Jobs : future_map[q][k] # "yielded" /\ future_map'[q][k] # "yielded"
      <4>1. future_map'[p] = Schedule(future_map[p], JobsOf(p, b))
        BY <1>3 DEF PlanWorkload, TypeOK
      <4>2. \A k \in Jobs : future_map[p][k] \in {"none", "scheduled"}
        BY <1>3 DEF PlanWorkload, FuturesInv
      <4>3. QED
        BY <2>1, <4>1, <4>2 DEF Schedule
    <3>2. QED
      BY <1>2, <1>3, <3>1 DEF PlanWorkload, Yielded
  <2>2. CASE q # p
    BY <1>1, <1>3, <2>2 DEF PlanWorkload, TypeOK
  <2>3. QED
    BY <2>1, <2>2
<1>4. ASSUME NEW p \in Procs, SubmitJobs(p) PROVE Same
  <2>1. Yielded(future_map'[q]) = Yielded(future_map[q])
    BY <1>4 DEF SubmitJobs, Yielded, SubmitAll, TypeOK, FuturesInv
  <2>2. QED
    BY <1>2, <1>4, <2>1 DEF SubmitJobs
<1>5. ASSUME NEW p \in Procs, NEW j \in Jobs, StartJob(p, j) PROVE Same
  <2>1. future_map[p][j] = "pending"
    BY <1>5 DEF StartJob, CanStart
  <2>2. Yielded(future_map'[q]) = Yielded(future_map[q])
    BY <1>5, <2>1 DEF StartJob, Yielded, TypeOK
  <2>3. QED
    BY <1>2, <1>5, <2>2 DEF StartJob
<1>6. ASSUME NEW p \in Procs, NEW j \in Jobs, FinishJob(p, j) PROVE Same
  <2>1. Yielded(future_map'[q]) = Yielded(future_map[q])
    BY <1>6 DEF FinishJob, Yielded, TypeOK
  <2>2. \A k \in Yielded(future_map[q]) : result'[q][k] = result[q][k]
    BY <1>6 DEF FinishJob, Yielded, TypeOK
  <2>3. QED
    BY <1>2, <2>1, <2>2
<1>7. ASSUME NEW p \in Procs, NEW j \in Jobs, CollectSystemExit(p, j) PROVE Same
  <2>1. \A k \in Jobs : k # j \/ q # p => future_map'[q][k] = future_map[q][k]
    BY <1>7 DEF CollectSystemExit, TypeOK
  <2>2. q = p => j \notin Collected(q) /\ j \notin Collected(q)'
    BY <1>7 DEF CollectSystemExit, Collected, Yielded
  <2>3. Collected(q)' = Collected(q)
    BY <1>7, <2>1, <2>2 DEF CollectSystemExit, Collected, Yielded
  <2>4. QED
    BY <1>7, <2>3 DEF CollectSystemExit
<1>8. ASSUME NEW p \in Procs, NEW j \in Jobs, CollectJob(p, j) PROVE Same
  <2>1. q # p
    BY <1>8
  <2>2. QED
    BY <1>1, <1>8, <2>1 DEF CollectJob, TypeOK
<1>9. QED
    BY <1>1, <1>3, <1>4, <1>5, <1>6, <1>7, <1>8
       DEF Next, Main, Worker, Terminated, vars, procVars, Tick, Start, Refuse, Kill,
           ExportWorkload, ExportError, LeaveDrainedPool, LeavePool, ExportOpen, Finish

\* The counter behind the exit status counts each failed job once, however the
\* pool orders the results and whatever other invocations do.
THEOREM FailuresCountedCorrect == Spec => []FailuresCounted
<1>1. Init => FailuresCounted
  <2> SUFFICES ASSUME Init, NEW p \in Procs PROVE emulate_failures[p] = Cardinality(FailedJobs(p))
    BY DEF FailuresCounted
  <2>1. FailedJobs(p) = {}
    BY DEF Init, FailedJobs, Collected, Yielded, NoFutures
  <2>2. QED
    BY <2>1, FS_EmptySet DEF Init
<1>2. TypeOK /\ FuturesInv /\ FailuresCounted /\ [Next]_vars => FailuresCounted'
  <2> SUFFICES ASSUME TypeOK, FuturesInv, FailuresCounted, [Next]_vars,
                      NEW q \in Procs
               PROVE  emulate_failures'[q] = Cardinality(FailedJobs(q)')
    BY DEF FailuresCounted
  <2>1. CASE \A j \in Jobs : ~CollectJob(q, j)
    <3>1. FailedJobs(q)' = FailedJobs(q)
      BY <2>1, CollectedStep DEF FailedJobs
    <3>2. emulate_failures'[q] = emulate_failures[q]
      <4>1. ASSUME NEW p \in Procs, NEW j \in Jobs, CollectJob(p, j)
            PROVE  emulate_failures'[q] = emulate_failures[q]
        <5>1. p # q
          BY <2>1, <4>1
        <5>2. QED
          BY <4>1, <5>1 DEF CollectJob, TypeOK
      <4>2. QED
        BY <4>1, ZenonT(60) DEF Next, Main, Worker, Terminated, vars, procVars, Tick, Start, Refuse, Kill,
           PlanWorkload, SubmitJobs, StartJob, FinishJob, CollectSystemExit,
           ExportWorkload, ExportError, LeaveDrainedPool, LeavePool, ExportOpen, Finish
    <3>3. QED
      BY <3>1, <3>2 DEF FailuresCounted
  <2>2. ASSUME NEW j \in Jobs, CollectJob(q, j)
        PROVE  emulate_failures'[q] = Cardinality(FailedJobs(q)')
    <3>1. j \notin FailedJobs(q)
      BY <2>2 DEF CollectJob, FailedJobs, Collected, Yielded
    <3>2. \A k \in Jobs : future_map'[q][k] = "yielded" <=> k = j \/ future_map[q][k] = "yielded"
      BY <2>2 DEF CollectJob, TypeOK
    <3>3. Collected(q)' = Collected(q) \cup {j}
      BY <2>2, <3>2 DEF CollectJob, Collected, Yielded
    <3>4. CASE JobFailure(result[q][j]) = "none"
      <4>1. FailedJobs(q)' = FailedJobs(q)
        BY <2>2, <3>3, <3>4 DEF CollectJob, FailedJobs
      <4>2. emulate_failures'[q] = emulate_failures[q]
        BY <2>2, <3>4 DEF CountFailure, CollectJob, TypeOK
      <4>3. QED
        BY <4>1, <4>2 DEF FailuresCounted
    <3>5. CASE JobFailure(result[q][j]) # "none"
      <4>1. FailedJobs(q)' = FailedJobs(q) \cup {j}
        BY <2>2, <3>3, <3>5 DEF CollectJob, FailedJobs
      <4>2. emulate_failures'[q] = emulate_failures[q] + 1
        BY <2>2, <3>5 DEF CountFailure, CollectJob, TypeOK
      <4>3. Cardinality(FailedJobs(q) \cup {j}) = Cardinality(FailedJobs(q)) + 1
        BY <3>1, FailedJobsFinite, FS_AddElement
      <4>4. QED
        BY <4>1, <4>2, <4>3 DEF FailuresCounted
    <3>6. QED
      BY <3>4, <3>5
  <2>3. QED
    BY <2>1, <2>2
<1>3. QED
    BY <1>1, <1>2, TypeCorrect, FuturesCorrect, PTL DEF Spec

\* An invocation's control point is moved by its own main thread (or its end) only.
LEMMA ControlStep ==
    ASSUME TypeOK, [Next]_vars, NEW p \in Procs
    PROVE  \/ /\ pc'[p] = pc[p] /\ todo'[p] = todo[p]
              /\ exit'[p] = exit[p] /\ emulate_failures'[p] = emulate_failures[p]
           \/ Start(p) \/ Refuse(p) \/ Kill(p) \/ Main(p)
<1> DEFINE Own(q) == Start(q) \/ Refuse(q) \/ Kill(q) \/ Main(q)
<1> DEFINE Still == /\ pc'[p] = pc[p] /\ todo'[p] = todo[p]
                    /\ exit'[p] = exit[p] /\ emulate_failures'[p] = emulate_failures[p]
<1>1. CASE Tick \/ UNCHANGED vars
    BY <1>1 DEF Tick, vars, procVars
<1>2. ASSUME NEW q \in Procs, Worker(q) PROVE Still
    BY <1>2 DEF Worker, StartJob, FinishJob
<1>3. ASSUME NEW q \in Procs, q # p, Start(q) \/ Refuse(q) \/ Kill(q) PROVE Still
    BY <1>3 DEF TypeOK, Start, Refuse, Kill
<1>4. ASSUME NEW q \in Procs, q # p, Main(q) PROVE Still
  <2>1. ASSUME NEW b \in Benches, PlanWorkload(q, b) \/ ExportWorkload(q, b) \/ ExportError(q, b)
        PROVE  Still
    BY <1>4, <2>1 DEF TypeOK, PlanWorkload, ExportWorkload, ExportError
  <2>2. ASSUME NEW j \in Jobs, CollectJob(q, j) \/ CollectSystemExit(q, j)
        PROVE  Still
    BY <1>4, <2>2 DEF TypeOK, CollectJob, CollectSystemExit
  <2>3. ASSUME SubmitJobs(q) \/ LeaveDrainedPool(q) \/ LeavePool(q) \/ ExportOpen(q) \/ Finish(q)
        PROVE  Still
    BY <1>4, <2>3 DEF TypeOK, SubmitJobs, LeaveDrainedPool, LeavePool, ExportOpen, Finish
  <2>4. QED
    BY <1>4, <2>1, <2>2, <2>3 DEF Main
<1>5. QED
    BY <1>1, <1>2, <1>3, <1>4 DEF Next, Terminated

\* The main thread acts only between the start and the end of its process, and
\* leaves planning only when every workload is planned.
LEMMA MainActive ==
    ASSUME NEW p \in Procs, Main(p)
    PROVE  /\ Active(p)
           /\ pc[p] = "plan" => SubmitJobs(p) \/ \E b \in Benches : PlanWorkload(p, b)
BY DEF Main, Active, PlanWorkload, ExportWorkload, ExportError, CollectJob, CollectSystemExit,
       SubmitJobs, LeaveDrainedPool, LeavePool, ExportOpen, Finish

\* An active invocation never has the run id of an undisturbed other one.
LEMMA Apart ==
    ASSUME ControlInv, NEW p \in Procs, NEW q \in Procs, q # p, Undisturbed(p), Active(q)
    PROVE  run_id[q] # run_id[p]
BY DEF ControlInv, Undisturbed, Active

\* An invocation that has a run id cannot become undisturbed again.
LEMMA UndisturbedBefore ==
    ASSUME TypeOK, ControlInv, [Next]_vars, NEW p \in Procs, run_id[p] # 0, Undisturbed(p)'
    PROVE  Undisturbed(p) /\ run_id'[p] = run_id[p]
<1>1. ASSUME NEW q \in Procs, Start(q) PROVE Undisturbed(p) /\ run_id'[p] = run_id[p]
  <2>1. q # p /\ pc[q] = "idle" /\ run_id[q] = 0
    BY <1>1 DEF Start, ControlInv
  <2>2. \A r \in Procs : r # q => run_id'[r] = run_id[r] /\ before'[r] = before[r]
    BY <1>1 DEF Start, TypeOK
  <2>3. QED
    BY <2>1, <2>2 DEF Undisturbed
<1>2. CASE UNCHANGED <<run_id, before>>
    BY <1>2 DEF Undisturbed
<1>3. QED
    BY <1>1, <1>2, ZenonT(60)
       DEF Next, Main, Worker, Terminated, vars, procVars, Tick, Refuse, Kill, PlanWorkload,
           SubmitJobs, StartJob, FinishJob, CollectJob, CollectSystemExit, ExportWorkload,
           ExportError, LeaveDrainedPool, LeavePool, ExportOpen, Finish

\* The workload files of an undisturbed invocation change only by its own
\* planning and its own as_completed loop.
LEMMA FilesStep ==
    ASSUME TypeOK, ControlInv, [Next]_vars, NEW p \in Procs, Undisturbed(p),
           \A b \in Benches : ~PlanWorkload(p, b), \A j \in Jobs : ~CollectJob(p, j)
    PROVE  workload_db'[run_id[p]] = workload_db[run_id[p]]
<1>1. ASSUME NEW q \in Procs, NEW b \in Benches, PlanWorkload(q, b)
      PROVE  workload_db'[run_id[p]] = workload_db[run_id[p]]
  <2>1. q # p /\ Active(q)
    BY <1>1 DEF PlanWorkload, Active
  <2>2. run_id[q] # run_id[p]
    BY <2>1, Apart
  <2>3. QED
    BY <1>1, <2>2 DEF PlanWorkload, TypeOK
<1>2. ASSUME NEW q \in Procs, NEW j \in Jobs, CollectJob(q, j)
      PROVE  workload_db'[run_id[p]] = workload_db[run_id[p]]
  <2>1. q # p /\ Active(q)
    BY <1>2 DEF CollectJob, Active
  <2>2. run_id[q] # run_id[p]
    BY <2>1, Apart
  <2>3. QED
    BY <1>2, <2>2 DEF CollectJob, TypeOK
<1>3. QED
    BY <1>1, <1>2
       DEF Next, Main, Worker, Terminated, vars, fileVars, Tick, Start, Refuse, Kill,
           SubmitJobs, StartJob, FinishJob, CollectSystemExit, ExportWorkload,
           ExportError, LeaveDrainedPool, LeavePool, ExportOpen, Finish

\* What an active invocation was given on its command line stays.
LEMMA InputStep ==
    ASSUME TypeOK, [Next]_vars, NEW p \in Procs, pc[p] # "idle"
    PROVE  vfs'[p] = vfs[p]
<1>1. ASSUME NEW q \in Procs, Start(q) PROVE vfs'[p] = vfs[p]
    BY <1>1 DEF Start, TypeOK
<1>2. QED
    BY <1>1, ZenonT(60)
       DEF Next, Main, Worker, Terminated, vars, procVars, Tick, Refuse, Kill, PlanWorkload,
           SubmitJobs, StartJob, FinishJob, CollectJob, CollectSystemExit, ExportWorkload,
           ExportError, LeaveDrainedPool, LeavePool, ExportOpen, Finish

\* Hence so do the rows it has produced, except in its own as_completed loop.
LEMMA LedgerStep ==
    ASSUME TypeOK, FuturesInv, [Next]_vars, NEW p \in Procs, pc[p] # "idle",
           \A j \in Jobs : ~CollectJob(p, j)
    PROVE  \A b \in Benches : LedgerRows(p, b)' = LedgerRows(p, b)
<1>1. /\ Collected(p)' = Collected(p)
      /\ \A j \in Collected(p) : result'[p][j] = result[p][j]
    BY CollectedStep
<1>2. \A b \in Benches : VplanRows(p, b)' = VplanRows(p, b)
    BY InputStep DEF VplanRows, VplanRow, VfsFailure
<1>3. \A j \in Collected(p) : EmulateRow(p, j, result[p][j])' = EmulateRow(p, j, result[p][j])
    BY <1>1 DEF EmulateRow
<1>4. QED
    BY <1>1, <1>2, <1>3 DEF LedgerRows

\* Rows of different jobs have different keys, and no baseline row has the key
\* of a VFS failure row: INSERT OR REPLACE replaces nothing.
LEMMA FreshKey ==
    ASSUME NEW p \in Procs, NEW b \in Benches, NEW j \in Jobs, j \notin Collected(p), NEW o
    PROVE  \A r \in LedgerRows(p, b) : RowKey(r) # RowKey(EmulateRow(p, j, o))
<1>1. \A r \in VplanRows(p, b) : RowKey(r) # RowKey(EmulateRow(p, j, o))
    BY DEF VplanRows, VplanRow, EmulateRow, RowKey
<1>2. ASSUME NEW k \in Collected(p)
      PROVE  RowKey(EmulateRow(p, k, result[p][k])) # RowKey(EmulateRow(p, j, o))
  <2>1. k \in Jobs /\ k # j
    BY DEF Collected, Yielded
  <2>2. k[1] # j[1] \/ k[2] # j[2]
    BY <2>1, JobParts
  <2>3. QED
    BY <2>2 DEF RowKey, EmulateRow
<1>3. QED
    BY <1>1, <1>2 DEF LedgerRows

\* A turn of the as_completed loop adds exactly the job's row to its workload.
LEMMA CollectAddsRow ==
    ASSUME TypeOK, FuturesInv, NEW p \in Procs, NEW j \in Jobs, CollectJob(p, j)
    PROVE  \A b \in Benches : LedgerRows(p, b)' =
             IF b = j[1] THEN LedgerRows(p, b) \cup {EmulateRow(p, j, result[p][j])}
                         ELSE LedgerRows(p, b)
<1>1. \A k \in Jobs : future_map'[p][k] = "yielded" <=> k = j \/ future_map[p][k] = "yielded"
    BY DEF CollectJob, TypeOK
<1>2. Collected(p)' = Collected(p) \cup {j}
    BY <1>1 DEF CollectJob, Collected, Yielded
<1>3. UNCHANGED <<vfs, result>>
    BY DEF CollectJob
<1>4. \A b \in Benches : VplanRows(p, b)' = VplanRows(p, b)
    BY <1>3 DEF VplanRows, VplanRow, VfsFailure
<1>5. \A k \in Jobs : EmulateRow(p, k, result[p][k])' = EmulateRow(p, k, result[p][k])
    BY <1>3 DEF EmulateRow
<1>6. Collected(p) \subseteq Jobs
    BY DEF Collected, Yielded
<1>7. QED
    BY <1>2, <1>4, <1>5, <1>6 DEF LedgerRows

\* A workload file of an undisturbed invocation holds exactly the rows the
\* invocation has produced for it.
THEOREM LedgerCorrect == Spec => []LedgerInv
<1>1. Init => LedgerInv
    BY DEF Init, LedgerInv, Active
<1>2. TypeOK /\ ControlInv /\ FuturesInv /\ LedgerInv /\ [Next]_vars => LedgerInv'
  <2> SUFFICES ASSUME TypeOK, ControlInv, FuturesInv, LedgerInv, [Next]_vars,
                      NEW p \in Procs, Active(p)', Undisturbed(p)',
                      NEW b \in Benches, ~(pc'[p] = "plan" /\ b \in todo'[p])
               PROVE  workload_db'[run_id'[p]][b].rows = LedgerRows(p, b)'
    BY DEF LedgerInv
  <2>1. CASE pc[p] = "idle"
    <3>1. Start(p)
      BY <2>1, ControlStep, MainActive DEF Active, Refuse, Kill, TypeOK
    <3>2. QED
      BY <3>1 DEF Start, TypeOK
  <2>2. CASE pc[p] # "idle"
    <3>1. Active(p)
      BY <2>2, ControlStep, MainActive DEF Active, Start, Refuse, Kill
    <3>2. run_id[p] \in Minutes
      BY <3>1 DEF TypeOK, Active
    <3>3. Undisturbed(p) /\ run_id'[p] = run_id[p]
      BY <3>2, UndisturbedBefore DEF Minutes
    <3>4. CASE \E b0 \in Benches : PlanWorkload(p, b0)
      <4>1. PICK b0 \in Benches : PlanWorkload(p, b0)
        BY <3>4
      <4>2. \A j \in Jobs : ~CollectJob(p, j)
        BY <4>1 DEF PlanWorkload, CollectJob
      <4>3. LedgerRows(p, b)' = LedgerRows(p, b)
        BY <2>2, <4>2, LedgerStep
      <4>4. CASE b = b0
        <5>1. Collected(p) = {}
          BY <4>1 DEF PlanWorkload, FuturesInv, Collected, Yielded
        <5>2. LedgerRows(p, b) = VplanRows(p, b)
          BY <5>1 DEF LedgerRows
        <5>3. workload_db'[run_id[p]][b] =
                IF VfsFailure(p, b) = "none" THEN NoFile ELSE Holding({VplanRow(p, b)})
          BY <3>2, <4>1, <4>4 DEF PlanWorkload, TypeOK
        <5>4. QED
          BY <3>3, <4>3, <5>2, <5>3 DEF VplanRows, NoFile, Holding
      <4>5. CASE b # b0
        <5>1. workload_db'[run_id[p]][b] = workload_db[run_id[p]][b]
          BY <3>2, <4>1, <4>5 DEF PlanWorkload, TypeOK
        <5>2. ~(pc[p] = "plan" /\ b \in todo[p])
          BY <4>1, <4>5 DEF PlanWorkload, TypeOK
        <5>3. QED
          BY <3>1, <3>3, <4>3, <5>1, <5>2 DEF LedgerInv
      <4>6. QED
        BY <4>4, <4>5
    <3>5. CASE \E j \in Jobs : CollectJob(p, j)
      <4>1. PICK j \in Jobs : CollectJob(p, j)
        BY <3>5
      <4> DEFINE row == EmulateRow(p, j, result[p][j])
      <4>2. workload_db[run_id[p]][b].rows = LedgerRows(p, b)
        BY <3>1, <3>3, <4>1 DEF LedgerInv, CollectJob
      <4>3. CASE b = j[1]
        <5>1. workload_db'[run_id[p]][b] = InsertRow(workload_db[run_id[p]][b], row)
          BY <3>2, <4>1, <4>3 DEF CollectJob, TypeOK
        <5>2. j \notin Collected(p)
          BY <4>1 DEF CollectJob, Collected, Yielded
        <5>3. InsertRow(workload_db[run_id[p]][b], row).rows = LedgerRows(p, b) \cup {row}
          BY <4>2, <5>2, FreshKey DEF InsertRow, Holding
        <5>4. LedgerRows(p, b)' = LedgerRows(p, b) \cup {row}
          BY <4>1, <4>3, CollectAddsRow
        <5>5. QED
          BY <3>3, <5>1, <5>3, <5>4
      <4>4. CASE b # j[1]
        <5>1. workload_db'[run_id[p]][b] = workload_db[run_id[p]][b]
          BY <3>2, <4>1, <4>4 DEF CollectJob, TypeOK
        <5>2. LedgerRows(p, b)' = LedgerRows(p, b)
          BY <4>1, <4>4, CollectAddsRow
        <5>3. QED
          BY <3>3, <4>2, <5>1, <5>2
      <4>5. QED
        BY <4>3, <4>4
    <3>6. CASE /\ \A b0 \in Benches : ~PlanWorkload(p, b0)
               /\ \A j \in Jobs : ~CollectJob(p, j)
      <4>1. workload_db'[run_id[p]] = workload_db[run_id[p]]
        BY <3>3, <3>6, FilesStep
      <4>2. LedgerRows(p, b)' = LedgerRows(p, b)
        BY <2>2, <3>6, LedgerStep
      <4>3. ~(pc[p] = "plan" /\ b \in todo[p])
        <5>1. CASE pc'[p] = pc[p] /\ todo'[p] = todo[p]
          BY <5>1
        <5>2. CASE Main(p)
          BY <3>6, <5>2, MainActive DEF SubmitJobs
        <5>3. CASE Start(p) \/ Refuse(p) \/ Kill(p)
          BY <2>2, <5>3 DEF Start, Refuse, Kill, Active, TypeOK
        <5>4. QED
          BY <5>1, <5>2, <5>3, ControlStep
      <4>4. QED
        BY <3>1, <3>3, <4>1, <4>2, <4>3 DEF LedgerInv
    <3>7. QED
      BY <3>4, <3>5, <3>6
  <2>3. QED
    BY <2>1, <2>2
<1>3. QED
    BY <1>1, <1>2, TypeCorrect, ControlCorrect, FuturesCorrect, PTL DEF Spec

\* The aggregate of an undisturbed invocation changes only by its own export.
LEMMA AggregateStep ==
    ASSUME TypeOK, ControlInv, [Next]_vars, NEW p \in Procs, Undisturbed(p),
           ~ExportOpen(p), \A b \in Benches : ~ExportWorkload(p, b)
    PROVE  /\ aggregate_db'[AggregateKey(p)] = aggregate_db[AggregateKey(p)]
           /\ aggregate_creator'[AggregateKey(p)] = aggregate_creator[AggregateKey(p)]
<1> DEFINE Same == /\ aggregate_db'[AggregateKey(p)] = aggregate_db[AggregateKey(p)]
                   /\ aggregate_creator'[AggregateKey(p)] = aggregate_creator[AggregateKey(p)]
<1>1. ASSUME NEW q \in Procs, ExportOpen(q) PROVE Same
  <2>1. q # p /\ Active(q)
    BY <1>1 DEF ExportOpen, Active
  <2>2. AggregateKey(q) # AggregateKey(p)
    BY <2>1, Apart DEF AggregateKey
  <2>3. QED
    BY <1>1, <2>2 DEF ExportOpen, TypeOK
<1>2. ASSUME NEW q \in Procs, NEW b \in Benches, ExportWorkload(q, b) PROVE Same
  <2>1. q # p /\ Active(q)
    BY <1>2 DEF ExportWorkload, Active
  <2>2. AggregateKey(q) # AggregateKey(p)
    BY <2>1, Apart DEF AggregateKey
  <2>3. QED
    BY <1>2, <2>2 DEF ExportWorkload, TypeOK
<1>3. QED
    BY <1>1, <1>2, ZenonT(60)
       DEF Next, Main, Worker, Terminated, vars, fileVars, Tick, Start, Refuse, Kill,
           PlanWorkload, SubmitJobs, StartJob, FinishJob, CollectJob, CollectSystemExit,
           ExportError, LeaveDrainedPool, LeavePool, Finish

\* While an undisturbed invocation exports, its aggregate holds exactly the rows
\* of the workloads it has copied, and after a report exactly those of all.
THEOREM ExportCorrect == Spec => []ExportInv
<1>1. Init => ExportInv
    BY DEF Init, ExportInv, Reported
<1>2. TypeOK /\ ControlInv /\ FuturesInv /\ LedgerInv /\ ExportInv /\ [Next]_vars => ExportInv'
  <2> SUFFICES ASSUME TypeOK, ControlInv, FuturesInv, LedgerInv, ExportInv, [Next]_vars,
                      NEW p \in Procs, Undisturbed(p)'
               PROVE  ExportInv!(p)!2'
    BY DEF ExportInv
  <2>1. CASE pc[p] = "idle"
    <3>1. pc'[p] # "copy"
      BY <2>1, ControlStep, MainActive DEF Active, Start, Refuse, Kill, TypeOK
    <3>2. ~Reported(p)'
      BY <2>1, ControlStep, MainActive DEF Active, Start, Refuse, Kill, TypeOK, Reported, ControlInv
    <3>3. QED
      BY <3>1, <3>2
  <2>2. CASE pc[p] # "idle" /\ ~Reported(p) /\ pc[p] \notin {"export", "copy"}
    <3>1. pc'[p] # "copy" /\ ~Reported(p)'
      <4>1. CASE Main(p)
        BY <2>2, <4>1 DEF Main, PlanWorkload, ExportWorkload, ExportError, CollectJob,
           CollectSystemExit, SubmitJobs, LeaveDrainedPool, LeavePool, ExportOpen, Finish,
           TypeOK, Reported
      <4>2. QED
        BY <2>2, <4>1, ControlStep DEF Start, Refuse, Kill, TypeOK, Reported
    <3>2. QED
      BY <3>1
  <2>3. CASE Reported(p) \/ pc[p] \in {"export", "copy"}
    <3>1. run_id[p] \in Minutes /\ pc[p] # "idle"
      BY <2>3 DEF TypeOK, ControlInv, Reported
    <3>2. Undisturbed(p) /\ run_id'[p] = run_id[p]
      BY <3>1, UndisturbedBefore DEF Minutes
    <3>3. AggregateKey(p)' = AggregateKey(p) /\ AggregateKey(p) \in Archs \X Minutes
      BY <3>1, <3>2 DEF AggregateKey, Archs
    <3>4. \A j \in Jobs : ~CollectJob(p, j)
      BY <2>3 DEF CollectJob, ControlInv, Reported
    <3>5. \A b \in Benches : LedgerRows(p, b)' = LedgerRows(p, b)
      BY <3>1, <3>4, LedgerStep
    <3>6. CASE ExportOpen(p)
      <4>1. /\ pc'[p] = "copy" /\ todo'[p] = Benches /\ exit'[p] = "none"
            /\ aggregate_db'[AggregateKey(p)] = Holding({})
            /\ aggregate_creator'[AggregateKey(p)] = p
        BY <3>3, <3>6 DEF ExportOpen, TypeOK, ControlInv
      <4>2. CopiedRows(p)' = {}
        BY <4>1 DEF CopiedRows
      <4>3. QED
        BY <3>3, <4>1, <4>2 DEF Reported, Holding
    <3>7. ASSUME NEW b \in Benches, ExportWorkload(p, b) PROVE ExportInv!(p)!2'
      <4>1. /\ pc'[p] = "copy" /\ todo'[p] = todo[p] \ {b} /\ exit'[p] = "none"
            /\ aggregate_creator' = aggregate_creator
            /\ b \in todo[p]
        BY <3>7 DEF ExportWorkload, TypeOK, ControlInv
      <4>2. /\ aggregate_creator[AggregateKey(p)] = p
            /\ aggregate_db[AggregateKey(p)] = Holding(CopiedRows(p))
        BY <3>2, <3>7 DEF ExportWorkload, ExportInv
      <4>3. workload_db[run_id[p]][b].rows = LedgerRows(p, b)
        BY <3>2, <3>7 DEF ExportWorkload, LedgerInv, Active
      <4>4. aggregate_db'[AggregateKey(p)] = Holding(CopiedRows(p) \cup LedgerRows(p, b))
        BY <3>3, <3>7, <4>2, <4>3 DEF ExportWorkload, TypeOK, Holding
      <4>5. CopiedRows(p)' = CopiedRows(p) \cup LedgerRows(p, b)
        BY <3>5, <4>1 DEF CopiedRows
      <4>6. QED
        BY <3>3, <4>1, <4>2, <4>4, <4>5 DEF Reported
    <3>8. CASE ~ExportOpen(p) /\ \A b \in Benches : ~ExportWorkload(p, b)
      <4>1. /\ aggregate_db'[AggregateKey(p)] = aggregate_db[AggregateKey(p)]
            /\ aggregate_creator'[AggregateKey(p)] = aggregate_creator[AggregateKey(p)]
        BY <3>2, <3>8, AggregateStep
      <4>2. /\ AllRows(p)' = AllRows(p)
            /\ todo'[p] = todo[p] => CopiedRows(p)' = CopiedRows(p)
        BY <3>5 DEF AllRows, CopiedRows
      <4>3. CASE /\ pc'[p] = pc[p] /\ todo'[p] = todo[p]
                 /\ exit'[p] = exit[p] /\ emulate_failures'[p] = emulate_failures[p]
        BY <3>2, <3>3, <4>1, <4>2, <4>3 DEF ExportInv, Reported
      <4>4. CASE Finish(p)
        <5>1. /\ todo[p] = {} /\ pc[p] = "copy" /\ pc'[p] = "done"
              /\ exit'[p] = IF emulate_failures'[p] = 0 THEN "success" ELSE "failure"
          BY <4>4 DEF Finish, TypeOK
        <5>2. CopiedRows(p) = AllRows(p)
          BY <5>1 DEF CopiedRows, AllRows
        <5>3. aggregate_db[AggregateKey(p)] = Holding(AllRows(p))
          BY <3>2, <5>1, <5>2 DEF ExportInv
        <5>4. QED
          BY <3>3, <4>1, <4>2, <5>1, <5>3
      <4>5. CASE \E b \in Benches : ExportError(p, b)
        BY <4>5 DEF ExportError, TypeOK, Reported
      <4>6. CASE Start(p) \/ Refuse(p) \/ Kill(p)
        BY <3>1, <4>6 DEF Start, Refuse, Kill, TypeOK, Reported
      <4>7. CASE Main(p) /\ ~Finish(p) /\ ~\E b \in Benches : ExportError(p, b)
        <5>1. pc[p] \in {"export", "copy"}
          BY <2>3, <4>7, MainActive DEF Active, ControlInv, Reported
        <5>2. QED
          BY <3>8, <4>7, <5>1 DEF Main, PlanWorkload, CollectJob, CollectSystemExit,
             SubmitJobs, LeaveDrainedPool, LeavePool
      <4>8. QED
        BY <4>3, <4>4, <4>5, <4>6, <4>7, ControlStep
    <3>9. QED
      BY <3>6, <3>7, <3>8
  <2>4. QED
    BY <2>1, <2>2, <2>3
<1>3. QED
    BY <1>1, <1>2, TypeCorrect, ControlCorrect, FuturesCorrect, LedgerCorrect, PTL DEF Spec

\* What the promised rows are, one by one.
LEMMA PromisedParts ==
    ASSUME NEW p \in Procs
    PROVE  \A r : r \in Promised(p) <=> \/ \E b \in Benches : r \in VplanRows(p, b)
                                        \/ \E j \in Due(p) : r = EmulateRow(p, j, result[p][j])
<1>1. \A r : r \in UnusableInputs(p) <=> \E b \in Benches : r \in VplanRows(p, b)
    BY DEF UnusableInputs
<1>2. \A r : r \in DueRows(p) <=> \E j \in Due(p) : r = EmulateRow(p, j, result[p][j])
    BY DEF DueRows
<1>3. QED
    BY <1>1, <1>2 DEF Promised

\* When a run reports, the rows it has produced are those it owes.
LEMMA ReportedRows ==
    ASSUME TypeOK, FuturesInv, NEW p \in Procs, Reported(p)
    PROVE  Collected(p) = Due(p) /\ AllRows(p) = Promised(p)
<1>1. Collected(p) = Due(p)
    BY DEF FuturesInv, Collected, Yielded, Due
<1>2. \A j \in Due(p) : j[1] \in Benches
    BY JobParts DEF Due
<1>3. \A r : r \in AllRows(p) <=>
        \/ \E b \in Benches : r \in VplanRows(p, b)
        \/ \E b \in Benches : \E j \in Due(p) : j[1] = b /\ r = EmulateRow(p, j, result[p][j])
    BY <1>1 DEF AllRows, LedgerRows
<1>4. AllRows(p) = Promised(p)
    BY <1>2, <1>3, PromisedParts
<1>5. QED
    BY <1>1, <1>4

\* For every instance: a reporting, undisturbed run has published exactly one
\* row per job, with the job's verdict, and one row per unusable VFS input.
THEOREM AggregateCompleteCorrect == Spec => []AggregateComplete
<1>1. TypeOK /\ FuturesInv /\ ExportInv => AggregateComplete
    BY ReportedRows DEF AggregateComplete, ExportInv
<1>2. QED
    BY <1>1, TypeCorrect, FuturesCorrect, ExportCorrect, PTL

\* For every instance: the exit status is 0 exactly when no published emulate
\* row carries a failure.
THEOREM ExitMatchesRowsCorrect == Spec => []ExitMatchesRows
<1>1. TypeOK /\ FuturesInv /\ ExportInv /\ FailuresCounted => ExitMatchesRows
  <2> SUFFICES ASSUME TypeOK, FuturesInv, ExportInv, FailuresCounted,
                      NEW p \in Procs, Reported(p), Undisturbed(p)
               PROVE  exit[p] = "success" <=>
                        \A r \in aggregate_db[AggregateKey(p)].rows :
                            r.stage = "emulate" => r.failure = "none"
    BY DEF ExitMatchesRows
  <2>1. exit[p] = "success" <=> Cardinality(FailedJobs(p)) = 0
    BY DEF ExportInv, FailuresCounted
  <2>2. Cardinality(FailedJobs(p)) = 0 <=> FailedJobs(p) = {}
    BY FailedJobsFinite, FS_EmptySet
  <2>3. aggregate_db[AggregateKey(p)] = Holding(AllRows(p))
    BY DEF ExportInv
  <2>4. Collected(p) = Due(p) /\ AllRows(p) = Promised(p)
    BY ReportedRows
  <2>5. \A b \in Benches : \A r \in VplanRows(p, b) : r.stage = "vplan"
    BY DEF VplanRows, VplanRow
  <2>6. \A j \in Due(p) : /\ EmulateRow(p, j, result[p][j]).stage = "emulate"
                          /\ EmulateRow(p, j, result[p][j]).failure = JobFailure(result[p][j])
    BY DEF EmulateRow
  <2>7. ASSUME \A r \in Promised(p) : r.stage = "emulate" => r.failure = "none"
        PROVE  \A j \in Due(p) : JobFailure(result[p][j]) = "none"
    <3>1. \A j \in Due(p) : EmulateRow(p, j, result[p][j]) \in Promised(p)
      BY PromisedParts
    <3>2. QED
      BY <2>6, <2>7, <3>1
  <2>8. ASSUME \A j \in Due(p) : JobFailure(result[p][j]) = "none",
               NEW r \in Promised(p), r.stage = "emulate"
        PROVE  r.failure = "none"
    <3>1. PICK j \in Due(p) : r = EmulateRow(p, j, result[p][j])
      BY <2>5, <2>8, PromisedParts
    <3>2. QED
      BY <2>6, <2>8, <3>1
  <2>9. (\A r \in aggregate_db[AggregateKey(p)].rows : r.stage = "emulate" => r.failure = "none")
          <=> \A j \in Due(p) : JobFailure(result[p][j]) = "none"
    BY <2>3, <2>4, <2>7, <2>8 DEF Holding
  <2>10. QED
    BY <2>1, <2>2, <2>4, <2>9 DEF FailedJobs
<1>2. QED
    BY <1>1, TypeCorrect, FuturesCorrect, ExportCorrect, FailuresCountedCorrect, PTL

\* For every instance: no step loses or rewrites a row that an undisturbed run
\* has recorded since it left planning.
THEOREM RowsOnlyGrowCorrect == Spec => RowsOnlyGrow
<1>1. TypeOK /\ ControlInv /\ FuturesInv /\ LedgerInv /\ [Next]_vars => \A p \in Procs : KeepsRows(p)
  <2> SUFFICES ASSUME TypeOK, ControlInv, FuturesInv, LedgerInv, [Next]_vars,
                      NEW p \in Procs, pc[p] \notin {"idle", "plan", "done"}, Undisturbed(p)',
                      NEW b \in Benches
               PROVE  workload_db[run_id[p]][b].rows \subseteq workload_db'[run_id'[p]][b].rows
    BY DEF KeepsRows
  <2>1. run_id[p] \in Minutes
    BY DEF TypeOK
  <2>2. Undisturbed(p) /\ run_id'[p] = run_id[p]
    BY <2>1, UndisturbedBefore DEF Minutes
  <2>3. ASSUME NEW j \in Jobs, CollectJob(p, j)
        PROVE  workload_db[run_id[p]][b].rows \subseteq workload_db'[run_id'[p]][b].rows
    <3> DEFINE row == EmulateRow(p, j, result[p][j])
    <3>1. workload_db[run_id[p]][b].rows = LedgerRows(p, b)
      BY <2>2 DEF LedgerInv, Active
    <3>2. workload_db'[run_id[p]][b] = IF b = j[1] THEN InsertRow(workload_db[run_id[p]][b], row)
                                                   ELSE workload_db[run_id[p]][b]
      BY <2>1, <2>3, JobParts DEF CollectJob, TypeOK
    <3>3. j \notin Collected(p)
      BY <2>3 DEF CollectJob, Collected, Yielded
    <3>4. \A r \in LedgerRows(p, b) : r \in InsertRow(workload_db[run_id[p]][b], row).rows
      BY <3>1, <3>3, FreshKey DEF InsertRow, Holding
    <3>5. QED
      BY <2>2, <3>1, <3>2, <3>4
  <2>4. CASE \A j \in Jobs : ~CollectJob(p, j)
    <3>1. \A c \in Benches : ~PlanWorkload(p, c)
      BY DEF PlanWorkload
    <3>2. workload_db'[run_id[p]] = workload_db[run_id[p]]
      BY <2>2, <2>4, <3>1, FilesStep
    <3>3. QED
      BY <2>2, <3>2
  <2>5. QED
    BY <2>3, <2>4
<1>2. QED
    BY <1>1, TypeCorrect, ControlCorrect, FuturesCorrect, LedgerCorrect, PTL
       DEF Spec, RowsOnlyGrow

\* No step leaves rows in a file that does not exist.
THEOREM TablesCorrect == Spec => []TablesInv
<1>1. Init => TablesInv
    BY DEF Init, TablesInv, NoFile
<1>2. TypeOK /\ TablesInv /\ [Next]_vars => TablesInv'
  <2> SUFFICES ASSUME TypeOK, TablesInv, [Next]_vars PROVE TablesInv'
    OBVIOUS
  <2>1. ASSUME NEW p \in Procs, NEW b \in Benches, PlanWorkload(p, b) PROVE TablesInv'
    <3> DEFINE new == IF VfsFailure(p, b) = "none" THEN NoFile ELSE Holding({VplanRow(p, b)})
    <3>1. ~new.exists => new.rows = {}
      BY DEF NoFile, Holding
    <3>2. workload_db' = [workload_db EXCEPT ![run_id[p]][b] = new]
      BY <2>1 DEF PlanWorkload
    <3> HIDE DEF new
    <3>3. QED
      BY <3>1, <3>2 DEF TablesInv, TypeOK
  <2>2. ASSUME NEW p \in Procs, NEW j \in Jobs, CollectJob(p, j) PROVE TablesInv'
    <3> DEFINE new == InsertRow(workload_db[run_id[p]][j[1]], EmulateRow(p, j, result[p][j]))
    <3>1. new.exists
      BY DEF InsertRow, Holding
    <3>2. workload_db' = [workload_db EXCEPT ![run_id[p]][j[1]] = new]
      BY <2>2 DEF CollectJob
    <3> HIDE DEF new
    <3>3. QED
      BY <3>1, <3>2 DEF TablesInv, TypeOK
  <2>3. CASE workload_db' = workload_db
    BY <2>3 DEF TablesInv
  <2>4. QED
    BY <2>1, <2>2, <2>3
       DEF Next, Main, Worker, Terminated, vars, fileVars, Tick, Start, Refuse, Kill,
           SubmitJobs, StartJob, FinishJob, CollectSystemExit, ExportWorkload,
           ExportError, LeaveDrainedPool, LeavePool, ExportOpen, Finish
<1>3. QED
    BY <1>1, <1>2, TypeCorrect, PTL DEF Spec

\* For every instance: the export of an undisturbed run finds a table in every
\* workload file, since each holds the row of the workload's baseline at least.
THEOREM ExportFindsTablesCorrect == Spec => []ExportFindsTables
<1>1. TypeOK /\ FuturesInv /\ LedgerInv /\ TablesInv => ExportFindsTables
  <2> SUFFICES ASSUME TypeOK, FuturesInv, LedgerInv, TablesInv,
                      NEW p \in Procs, pc[p] \in {"export", "copy"}, Undisturbed(p),
                      NEW b \in Benches
               PROVE  workload_db[run_id[p]][b].exists
    BY DEF ExportFindsTables
  <2> DEFINE baseline == <<b, Default>>
  <2>1. baseline \in Due(p) /\ baseline \in Jobs /\ baseline[1] = b
    BY DEF Due, Jobs
  <2>2. future_map[p][baseline] = "yielded" /\ result[p][baseline] # "systemexit"
    BY <2>1 DEF FuturesInv
  <2>3. baseline \in Collected(p)
    BY <2>1, <2>2 DEF Collected, Yielded
  <2>4. EmulateRow(p, baseline, result[p][baseline]) \in LedgerRows(p, b)
    BY <2>1, <2>3 DEF LedgerRows
  <2>5. workload_db[run_id[p]][b].rows = LedgerRows(p, b)
    BY DEF LedgerInv, Active
  <2>6. run_id[p] \in Minutes
    BY DEF TypeOK
  <2>7. QED
    BY <2>4, <2>5, <2>6 DEF TablesInv
<1>2. QED
    BY <1>1, TypeCorrect, FuturesCorrect, LedgerCorrect, TablesCorrect, PTL

-----------------------------------------------------------------------------
(***************************************************************************)
(* A lone invocation of emulate_all keeps BatchPromise, for every number   *)
(* of workloads, VF candidates, workers and minutes.                       *)
(***************************************************************************)

\* No other invocation shares the artifacts directory.
Alone == Procs = {Run}

\* Files the run has not planned yet hold nothing.
FreshInv ==
    /\ pc[Run] = "idle" => \A m \in Minutes, b \in Benches : workload_db[m][b].rows = {}
    /\ pc[Run] = "plan" => \A b \in todo[Run] : workload_db[run_id[Run]][b].rows = {}

\* While the run is active, a verdict is on disk exactly for the collected jobs.
VerdictsInv ==
    Active(Run) => \A j \in Jobs :
        RecordedVerdict(j) = IF j \in Collected(Run) THEN JobFailure(result[Run][j]) ELSE "unknown"

LEMMA Company ==
    ASSUME Alone
    PROVE  Run \in Procs /\ Undisturbed(Run) /\ \A q \in Procs : q = Run
BY DEF Alone, Undisturbed

LEMMA InitFresh == ASSUME Alone, Init PROVE FreshInv
BY Company DEF Init, FreshInv, NoFile

LEMMA StepFresh ==
    ASSUME Alone, TypeOK, ControlInv, FreshInv, [Next]_vars
    PROVE  FreshInv'
<1> USE Company
<1>1. CASE Tick \/ UNCHANGED vars
    BY <1>1 DEF Tick, vars, procVars, fileVars, FreshInv
<1>2. CASE Start(Run)
  <2>1. pc[Run] = "idle" /\ pc'[Run] = "plan" /\ workload_db' = workload_db /\ run_id'[Run] = minute
    BY <1>2 DEF Start, fileVars, TypeOK
  <2>2. minute \in Minutes /\ todo'[Run] = Benches
    BY <1>2 DEF Start, TypeOK
  <2>3. QED
    BY <2>1, <2>2 DEF FreshInv
<1>3. ASSUME NEW b \in Benches, PlanWorkload(Run, b) PROVE FreshInv'
  <2>1. /\ pc' = pc /\ pc[Run] = "plan" /\ run_id' = run_id /\ todo'[Run] = todo[Run] \ {b}
        /\ \E f : workload_db' = [workload_db EXCEPT ![run_id[Run]][b] = f]
    BY <1>3 DEF PlanWorkload, TypeOK
  <2>2. \A c \in Benches \ {b} : workload_db'[run_id[Run]][c] = workload_db[run_id[Run]][c]
    BY <2>1 DEF TypeOK
  <2>3. QED
    BY <2>1, <2>2 DEF FreshInv, TypeOK
<1>4. CASE Refuse(Run) \/ Kill(Run)
    BY <1>4 DEF Refuse, Kill, FreshInv, TypeOK
<1>5. ASSUME NEW b \in Benches, ExportWorkload(Run, b) \/ ExportError(Run, b) PROVE FreshInv'
    BY <1>5 DEF ExportWorkload, ExportError, FreshInv, TypeOK
<1>6. ASSUME NEW j \in Jobs, CollectJob(Run, j) \/ CollectSystemExit(Run, j) PROVE FreshInv'
    BY <1>6 DEF CollectJob, CollectSystemExit, FreshInv, TypeOK
<1>7. CASE SubmitJobs(Run) \/ LeaveDrainedPool(Run) \/ LeavePool(Run) \/ ExportOpen(Run) \/ Finish(Run)
    BY <1>7 DEF SubmitJobs, LeaveDrainedPool, LeavePool, ExportOpen, Finish, FreshInv, TypeOK
<1>8. CASE Worker(Run)
    BY <1>8 DEF Worker, StartJob, FinishJob, FreshInv, TypeOK
<1>9. CASE Terminated
    BY <1>9, <1>1 DEF Terminated
<1>10. QED
    BY <1>1, <1>2, <1>3, <1>4, <1>5, <1>6, <1>7, <1>8, <1>9 DEF Next, Main

LEMMA VerdictsFollow ==
    ASSUME Alone, TypeOK, FuturesInv, LedgerInv, FreshInv
    PROVE  VerdictsInv
<1> USE Company
<1> SUFFICES ASSUME Active(Run), NEW j \in Jobs
             PROVE  RecordedVerdict(j) = IF j \in Collected(Run) THEN JobFailure(result[Run][j])
                                                                 ELSE "unknown"
    BY DEF VerdictsInv
<1> DEFINE rows == EmulateRowsOf(workload_db[run_id[Run]][j[1]], j)
           mine == EmulateRow(Run, j, result[Run][j])
<1>1. run_id[Run] # 0
    BY DEF TypeOK, Active
<1>2. RecordedVerdict(j) = IF rows = {} THEN "unknown" ELSE (CHOOSE r \in rows : TRUE).failure
    BY <1>1 DEF RecordedVerdict
<1>3. rows = IF j \in Collected(Run) THEN {mine} ELSE {}
  <2>1. CASE pc[Run] = "plan" /\ j[1] \in todo[Run]
    <3>1. rows = {}
      BY <2>1 DEF FreshInv, EmulateRowsOf
    <3>2. j \notin Collected(Run)
      BY <2>1 DEF FuturesInv, Collected, Yielded
    <3>3. QED
      BY <3>1, <3>2
  <2>2. CASE ~(pc[Run] = "plan" /\ j[1] \in todo[Run])
    <3>1. rows = {r \in LedgerRows(Run, j[1]) : r.stage = "emulate" /\ r.bench = j[1] /\ r.use_vf = j[2]}
      BY <2>2, JobParts DEF LedgerInv, EmulateRowsOf
    <3>2. \A r \in VplanRows(Run, j[1]) : r.stage # "emulate"
      BY DEF VplanRows, VplanRow
    <3>3. ASSUME NEW k \in Jobs, NEW r, r = EmulateRow(Run, k, result[Run][k]),
                 r.bench = j[1], r.use_vf = j[2]
          PROVE  k = j
      BY <3>3, JobParts DEF EmulateRow
    <3>4. \A r \in rows : j \in Collected(Run) /\ r = mine
      BY <3>1, <3>2, <3>3 DEF LedgerRows, Collected, Yielded
    <3>5. j \in Collected(Run) => mine \in rows
      <4>1. mine.stage = "emulate" /\ mine.bench = j[1] /\ mine.use_vf = j[2]
        BY DEF EmulateRow
      <4>2. QED
        BY <3>1, <4>1 DEF LedgerRows
    <3>6. QED
      BY <3>4, <3>5
  <2>3. QED
    BY <2>1, <2>2
<1>4. mine.failure = JobFailure(result[Run][j])
    BY DEF EmulateRow
<1>5. QED
    BY <1>2, <1>3, <1>4

-----------------------------------------------------------------------------
\* The abstract state: what the promise's variables stand for.
SameVerdicts == \A j \in Jobs : RecordedVerdict(j)' = RecordedVerdict(j)

LEMMA FilesKept ==
    ASSUME workload_db' = workload_db, run_id'[Run] = run_id[Run]
    PROVE  SameVerdicts
BY DEF SameVerdicts, RecordedVerdict

\* A step within the batch that takes on no job and records nothing.
LEMMA Stutters ==
    ASSUME SameVerdicts, pc[Run] # "done", pc'[Run] # "done",
           Scheduled(future_map[Run])' = Scheduled(future_map[Run])
    PROVE  UNCHANGED Promise!vars
<1>1. AbstractStatus = "open" /\ AbstractStatus' = "open"
    BY DEF AbstractStatus
<1>2. PublishedReport = {} /\ PublishedReport' = {}
    BY <1>1 DEF PublishedReport
<1>3. [j \in Jobs |-> RecordedVerdict(j)]' = [j \in Jobs |-> RecordedVerdict(j)]
    BY DEF SameVerdicts
<1>4. QED
    BY <1>1, <1>2, <1>3 DEF Promise!vars

\* A step that ends the process without a report.
LEMMA Abandons ==
    ASSUME SameVerdicts, pc[Run] # "done", pc'[Run] = "done", ~Reported(Run)',
           Scheduled(future_map[Run])' = Scheduled(future_map[Run])
    PROVE  Promise!Abandon
<1>1. AbstractStatus = "open" /\ AbstractStatus' = "abandoned"
    BY DEF AbstractStatus, Reported
<1>2. PublishedReport = {} /\ PublishedReport' = {}
    BY <1>1 DEF PublishedReport
<1>3. [j \in Jobs |-> RecordedVerdict(j)]' = [j \in Jobs |-> RecordedVerdict(j)]
    BY DEF SameVerdicts
<1>4. QED
    BY <1>1, <1>2, <1>3 DEF Promise!Abandon

LEMMA StartStutters ==
    ASSUME Alone, TypeOK, ControlInv, FreshInv, Start(Run)
    PROVE  UNCHANGED Promise!vars
<1> USE Company
<1>1. /\ pc[Run] = "idle" /\ run_id[Run] = 0 /\ workload_db' = workload_db
      /\ pc'[Run] = "plan" /\ run_id'[Run] = minute /\ minute \in Minutes
      /\ future_map' = future_map
    BY DEF Start, ControlInv, TypeOK, fileVars
<1>2. ASSUME NEW j \in Jobs PROVE RecordedVerdict(j) = "unknown" /\ RecordedVerdict(j)' = "unknown"
  <2>1. RecordedVerdict(j) = "unknown"
    BY <1>1 DEF RecordedVerdict
  <2>2. workload_db[minute][j[1]].rows = {}
    BY <1>1, JobParts DEF FreshInv
  <2>3. EmulateRowsOf(workload_db'[run_id'[Run]][j[1]], j) = {}
    BY <1>1, <2>2 DEF EmulateRowsOf
  <2>4. QED
    BY <2>1, <2>3 DEF RecordedVerdict
<1>3. SameVerdicts
    BY <1>2 DEF SameVerdicts
<1>4. Scheduled(future_map[Run])' = Scheduled(future_map[Run])
    BY <1>1 DEF Scheduled
<1>5. QED
    BY <1>1, <1>3, <1>4, Stutters

LEMMA PlanWants ==
    ASSUME Alone, TypeOK, FuturesInv, FuturesInv', VerdictsInv, VerdictsInv',
           NEW b \in Benches, PlanWorkload(Run, b)
    PROVE  Promise!Want
<1> USE Company
<1>1. /\ pc[Run] = "plan" /\ pc'[Run] = "plan"
      /\ future_map'[Run] = Schedule(future_map[Run], JobsOf(Run, b))
    BY DEF PlanWorkload, TypeOK
<1>2. ASSUME NEW j \in Jobs PROVE RecordedVerdict(j) = "unknown" /\ RecordedVerdict(j)' = "unknown"
  <2>1. j \notin Collected(Run) /\ j \notin Collected(Run)'
    BY <1>1 DEF FuturesInv, Collected, Yielded
  <2>2. QED
    BY <1>1, <2>1 DEF VerdictsInv, Active
<1>3. AbstractStatus = "open" /\ AbstractStatus' = "open"
    BY <1>1 DEF AbstractStatus
<1>4. PublishedReport = {} /\ PublishedReport' = {}
    BY <1>3 DEF PublishedReport
<1>5. [j \in Jobs |-> RecordedVerdict(j)]' = [j \in Jobs |-> RecordedVerdict(j)]
    BY <1>2
<1>6. /\ Scheduled(future_map'[Run]) = Scheduled(future_map[Run]) \cup (JobsOf(Run, b) \cap Jobs)
      /\ JobsOf(Run, b) \cap Jobs \in SUBSET Jobs
  <2>1. ASSUME NEW j \in Jobs
        PROVE  future_map'[Run][j] # "none" <=> j \in JobsOf(Run, b) \/ future_map[Run][j] # "none"
    BY <1>1 DEF Schedule
  <2>2. QED
    BY <2>1 DEF Scheduled
<1>7. QED
    BY <1>2, <1>3, <1>4, <1>5, <1>6 DEF Promise!Want

LEMMA CollectRecords ==
    ASSUME Alone, TypeOK, FuturesInv, VerdictsInv, VerdictsInv',
           NEW j \in Jobs, CollectJob(Run, j)
    PROVE  Promise!Record(j)
<1> USE Company
<1>1. /\ pc[Run] = "pool" /\ pc'[Run] = "pool" /\ result' = result
      /\ future_map[Run][j] = "finished"
      /\ future_map'[Run] = [future_map[Run] EXCEPT ![j] = "yielded"]
      /\ result[Run][j] # "systemexit"
    BY DEF CollectJob, TypeOK
<1>2. Scheduled(future_map'[Run]) = Scheduled(future_map[Run]) /\ j \in Scheduled(future_map[Run])
    BY <1>1 DEF Scheduled, TypeOK
<1>3. j \notin Collected(Run) /\ Collected(Run)' = Collected(Run) \cup {j}
    BY <1>1 DEF Collected, Yielded, TypeOK
<1> DEFINE verdict == [k \in Jobs |-> RecordedVerdict(k)]
           told == JobFailure(result[Run][j])
<1>4. \A k \in Jobs : verdict[k] = IF k \in Collected(Run) THEN JobFailure(result[Run][k]) ELSE "unknown"
    BY <1>1 DEF VerdictsInv, Active
<1>5. \A k \in Jobs : verdict'[k] = IF k \in Collected(Run)' THEN JobFailure(result[Run][k]) ELSE "unknown"
    BY <1>1 DEF VerdictsInv, Active
<1>6. verdict' = [verdict EXCEPT ![j] = told] /\ verdict[j] = "unknown"
    BY <1>3, <1>4, <1>5
<1>7. told \in Failure
    BY DEF JobFailure, Failure
<1>8. AbstractStatus = "open" /\ AbstractStatus' = "open"
    BY <1>1 DEF AbstractStatus
<1>9. PublishedReport = {} /\ PublishedReport' = {}
    BY <1>8 DEF PublishedReport
<1>10. QED
    BY <1>2, <1>6, <1>7, <1>8, <1>9 DEF Promise!Record

\* The verdicts on disk when the run reports are those of its due jobs.
LEMMA FinishPublishes ==
    ASSUME Alone, TypeOK, ControlInv, FuturesInv, VerdictsInv,
           TypeOK', FuturesInv', AggregateComplete', ExitMatchesRows', Undisturbed(Run)',
           Finish(Run)
    PROVE  Promise!Publish
<1> USE Company
<1>1. /\ pc[Run] = "copy" /\ pc'[Run] = "done"
      /\ exit'[Run] = IF emulate_failures[Run] = 0 THEN "success" ELSE "failure"
      /\ workload_db' = workload_db /\ run_id' = run_id /\ aggregate_db' = aggregate_db
      /\ future_map' = future_map /\ result' = result /\ vfs' = vfs
    BY DEF Finish, TypeOK, fileVars
<1>2. Reported(Run)'
    BY <1>1 DEF Reported
<1>3. Scheduled(future_map[Run]) = Due(Run) /\ Collected(Run) = Due(Run)
  <2>1. \A j \in Jobs : future_map[Run][j] = IF j \in Due(Run) THEN "yielded" ELSE "none"
    BY <1>1 DEF FuturesInv
  <2>2. \A j \in Jobs : future_map[Run][j] = "yielded" => result[Run][j] # "systemexit"
    BY <1>1 DEF FuturesInv
  <2>3. QED
    BY <2>1, <2>2 DEF Scheduled, Collected, Yielded, Due
<1> DEFINE told(j) == JobFailure(result[Run][j])
           verdict == [j \in Jobs |-> RecordedVerdict(j)]
<1>4. \A j \in Due(Run) : j \in Jobs /\ verdict[j] = told(j) /\ told(j) # "unknown"
  <2>1. \A j \in Due(Run) : j \in Jobs /\ RecordedVerdict(j) = told(j)
    BY <1>1, <1>3 DEF VerdictsInv, Active, Due
  <2>2. \A o : JobFailure(o) # "unknown"
    BY DEF JobFailure
  <2>3. QED
    BY <2>1, <2>2
<1>5. verdict' = verdict
    BY <1>1, FilesKept DEF SameVerdicts
<1>6. aggregate_db'[AggregateKey(Run)'].rows = Promised(Run)
  <2>1. aggregate_db'[AggregateKey(Run)'] = Holding(Promised(Run)')
    BY <1>2 DEF AggregateComplete
  <2>2. Promised(Run)' = Promised(Run)
    BY <1>1 DEF Promised, UnusableInputs, DueRows, VplanRows, VfsFailure, VplanRow, EmulateRow, Due
  <2>3. QED
    BY <2>1, <2>2 DEF Holding
<1>7. {r \in Promised(Run) : r.stage = "emulate"} = DueRows(Run)
  <2>1. \A r \in UnusableInputs(Run) : r.stage # "emulate"
    BY DEF UnusableInputs, VplanRows, VplanRow
  <2>2. \A r \in DueRows(Run) : r.stage = "emulate"
    BY DEF DueRows, EmulateRow
  <2>3. QED
    BY <2>1, <2>2 DEF Promised
<1>8. \A j \in Due(Run) :
        LET r == EmulateRow(Run, j, result[Run][j])
        IN  <<r.bench, r.use_vf>> = j /\ r.failure = told(j)
    BY <1>4, JobParts DEF EmulateRow
<1>9. PublishedReport' = {<<j, verdict[j]>> : j \in Due(Run)}
  <2>1. AbstractStatus' \in {"clean", "dirty"}
    BY <1>1 DEF AbstractStatus
  <2>2. PublishedReport' = {<<<<r.bench, r.use_vf>>, r.failure>> : r \in DueRows(Run)}
    BY <1>6, <1>7, <2>1 DEF PublishedReport
  <2> DEFINE row(j) == EmulateRow(Run, j, result[Run][j])
  <2>3. \A j \in Due(Run) : <<<<row(j).bench, row(j).use_vf>>, row(j).failure>> = <<j, verdict[j]>>
    BY <1>4, <1>8
  <2>4. PublishedReport' = {<<<<row(j).bench, row(j).use_vf>>, row(j).failure>> : j \in Due(Run)}
    BY <2>2 DEF DueRows
  <2> HIDE DEF row, verdict
  <2>5. QED
    BY <2>3, <2>4
<1>10. AbstractStatus = "open"
    BY <1>1 DEF AbstractStatus
<1>11. AbstractStatus' = IF \A j \in Due(Run) : verdict[j] = "none" THEN "clean" ELSE "dirty"
  <2>1. exit'[Run] = "success" <=> \A r \in DueRows(Run) : r.failure = "none"
    <3>1. exit'[Run] = "success" <=>
            \A r \in aggregate_db'[AggregateKey(Run)'].rows : r.stage = "emulate" => r.failure = "none"
      BY <1>2 DEF ExitMatchesRows
    <3>2. QED
      BY <1>6, <1>7, <3>1
  <2>2. (\A r \in DueRows(Run) : r.failure = "none") <=> \A j \in Due(Run) : verdict[j] = "none"
    BY <1>4, <1>8 DEF DueRows
  <2>3. QED
    BY <1>1, <2>1, <2>2 DEF AbstractStatus
<1>12. QED
    BY <1>1, <1>3, <1>4, <1>5, <1>9, <1>10, <1>11 DEF Promise!Publish, Scheduled

\* Every step of the driver is a step of the promise, or stutters.
LEMMA StepKeeps ==
    ASSUME Alone, TypeOK, ControlInv, FuturesInv, FreshInv, VerdictsInv,
           TypeOK', FuturesInv', VerdictsInv', AggregateComplete', ExitMatchesRows',
           [Next]_vars
    PROVE  [Promise!Next]_(Promise!vars)
<1> USE Company
<1> DEFINE wanted == Scheduled(future_map[Run])
<1>1. CASE Tick \/ UNCHANGED vars
  <2>1. SameVerdicts
    BY <1>1, FilesKept DEF Tick, vars, procVars, fileVars
  <2>2. /\ AbstractStatus' = AbstractStatus /\ wanted' = wanted
        /\ PublishedReport' = PublishedReport
    BY <1>1 DEF Tick, vars, procVars, fileVars, AbstractStatus, PublishedReport, AggregateKey,
                Scheduled
  <2>3. [j \in Jobs |-> RecordedVerdict(j)]' = [j \in Jobs |-> RecordedVerdict(j)]
    BY <2>1 DEF SameVerdicts
  <2>4. QED
    BY <2>2, <2>3 DEF Promise!vars
<1>2. CASE Start(Run)
    BY <1>2, StartStutters
<1>3. CASE Refuse(Run) \/ Kill(Run) \/ LeaveDrainedPool(Run) \/ \E b \in Benches : ExportError(Run, b)
  <2>1. /\ pc[Run] # "done" /\ pc'[Run] = "done" /\ ~Reported(Run)'
        /\ workload_db' = workload_db /\ run_id' = run_id /\ future_map' = future_map
    BY <1>3 DEF Refuse, Kill, LeaveDrainedPool, ExportError, Reported, TypeOK, fileVars
  <2>2. SameVerdicts /\ wanted' = wanted
    BY <2>1, FilesKept DEF Scheduled
  <2>3. QED
    BY <2>1, <2>2, Abandons DEF Promise!Next
<1>4. ASSUME NEW b \in Benches, PlanWorkload(Run, b) PROVE Promise!Next
    BY <1>4, PlanWants DEF Promise!Next
<1>5. ASSUME NEW j \in Jobs, CollectJob(Run, j) PROVE Promise!Next
    BY <1>5, CollectRecords DEF Promise!Next
<1>6. CASE Finish(Run)
  <2>1. Undisturbed(Run)'
    BY DEF Alone, Undisturbed
  <2>2. QED
    BY <1>6, <2>1, FinishPublishes DEF Promise!Next
<1>7. CASE \/ SubmitJobs(Run) \/ LeavePool(Run) \/ ExportOpen(Run) \/ Worker(Run)
           \/ \E j \in Jobs : CollectSystemExit(Run, j)
           \/ \E b \in Benches : ExportWorkload(Run, b)
  <2>1. /\ pc[Run] # "done" /\ pc'[Run] # "done"
        /\ workload_db' = workload_db /\ run_id' = run_id
    BY <1>7 DEF SubmitJobs, LeavePool, ExportOpen, Worker, StartJob, FinishJob,
                CollectSystemExit, ExportWorkload, TypeOK, fileVars
  <2>2. \A j \in Jobs : future_map'[Run][j] # "none" <=> future_map[Run][j] # "none"
    <3>1. CASE SubmitJobs(Run)
        BY <3>1 DEF SubmitJobs, SubmitAll, TypeOK
    <3>2. CASE Worker(Run) \/ \E j \in Jobs : CollectSystemExit(Run, j)
        BY <3>2 DEF Worker, StartJob, CanStart, FinishJob, CollectSystemExit, TypeOK
    <3>3. CASE LeavePool(Run) \/ ExportOpen(Run) \/ \E b \in Benches : ExportWorkload(Run, b)
        BY <3>3 DEF LeavePool, ExportOpen, ExportWorkload
    <3>4. QED
        BY <1>7, <3>1, <3>2, <3>3
  <2>3. SameVerdicts /\ wanted' = wanted
    BY <2>1, <2>2, FilesKept DEF Scheduled
  <2>4. QED
    BY <2>1, <2>3, Stutters
<1>8. CASE Terminated
    BY <1>1, <1>8 DEF Terminated
<1>9. QED
    BY <1>1, <1>2, <1>3, <1>4, <1>5, <1>6, <1>7, <1>8 DEF Next, Main

\* For every number of workloads, candidates, workers and minutes, a run that has
\* the artifacts directory to itself keeps the promise: recorded verdicts never
\* change, and a report is published once, whole, with the status they give.
THEOREM AloneKeepsPromise == ASSUME Alone PROVE Spec => KeepsPromise
<1>1. Init => Promise!Init
  <2> SUFFICES ASSUME Init PROVE Promise!Init
    OBVIOUS
  <2>1. pc[Run] = "idle" /\ run_id[Run] = 0 /\ Scheduled(future_map[Run]) = {}
    BY Company DEF Init, Scheduled, NoFutures
  <2>2. AbstractStatus = "open" /\ PublishedReport = {}
    BY <2>1 DEF AbstractStatus, PublishedReport
  <2>3. [j \in Jobs |-> RecordedVerdict(j)] = [j \in Jobs |-> "unknown"]
    BY <2>1 DEF RecordedVerdict
  <2>4. QED
    BY <2>1, <2>2, <2>3 DEF Promise!Init
<1>2. Init => FreshInv
    BY InitFresh
<1>3. TypeOK /\ ControlInv /\ FreshInv /\ [Next]_vars => FreshInv'
    BY StepFresh
<1>4. TypeOK /\ FuturesInv /\ LedgerInv /\ FreshInv => VerdictsInv
    BY VerdictsFollow
<1>5. /\ TypeOK /\ ControlInv /\ FuturesInv /\ FreshInv /\ VerdictsInv
      /\ TypeOK' /\ FuturesInv' /\ VerdictsInv' /\ AggregateComplete' /\ ExitMatchesRows'
      /\ [Next]_vars
      => [Promise!Next]_(Promise!vars)
    BY StepKeeps
<1>6. QED
    BY <1>1, <1>2, <1>3, <1>4, <1>5, TypeCorrect, ControlCorrect, FuturesCorrect, LedgerCorrect,
       AggregateCompleteCorrect, ExitMatchesRowsCorrect, PTL
    DEF Spec, KeepsPromise, Promise!Spec
=============================================================================
