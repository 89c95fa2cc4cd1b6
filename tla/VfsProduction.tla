--------------------------- MODULE VfsProduction ---------------------------
(* make emulate-all and make profile-all: first vplan_explain_all.py asks    *)
(* LLVM, in one container per workload, for the vectorization factors it     *)
(* considers and writes them to vfs-<workload>.sqlite, to an aggregate and   *)
(* to the copy vfs-<arch>.db; then emulate_all.py reads the files of the     *)
(* workloads, or profile_all.py the copy.  Several invocations, each for one *)
(* architecture, use the same directories: they overlap, or follow one that  *)
(* was killed.  The aggregate carries architecture and minute in its name;   *)
(* the invocations modelled differ in one of them.                           *)
EXTENDS Naturals

CONSTANTS
    Procs,        \* invocations of make
    ArchOf,       \* ARCH of each invocation
    Benches,      \* number of workloads, visited in the order of the catalog
    VFs           \* the vectorization factors LLVM may consider

Nobody == "nobody"

ASSUME ProductionAssumption ==
    /\ Benches \in Nat \ {0}
    /\ Nobody \notin Procs
    /\ ArchOf \in [Procs -> {"rvv", "intel"}]

Workloads == 1..Benches

VARIABLES
    pc,           \* where each invocation is
    at,           \* the workload it is at
    result,       \* what run_vplan_explain returned for that workload
    pending,      \* the rows still to be inserted, one commit each
    vplan_log,    \* vplan-explain.log of each workload: the factors in it
    workload_db,  \* vfs-<workload>.sqlite: who made it, its table, its rows
    aggregate,    \* the aggregate of each invocation
    compat,       \* vfs-<arch>.db
    got,          \* what the second half of each invocation read
    answer,       \* history: what each container really said
    disturbed     \* history: invocations that saw another one's production

vars == << pc, at, result, pending, vplan_log, workload_db, aggregate, compat,
           got, answer, disturbed >>

\* A row: the inserting invocation stands for created_at; what it says.
Failure == {"vplan_failed", "no_vf", "missing_vfs_db", "missing_vfs_entry"}
Row(p, what) == [by |-> p, what |-> what]
Rows == [by : Procs, what : VFs \cup Failure]

NoFile == [by |-> Nobody, table |-> FALSE, rows |-> {}]
NoResult == [exit |-> 0, ran |-> FALSE]
Producing == {"container", "record", "create", "insert", "export", "copy"}
Active == Producing \cup {"copying", "read"}

Init ==
    /\ pc = [p \in Procs |-> "off"]
    /\ at = [p \in Procs |-> 1]
    /\ result = [p \in Procs |-> NoResult]
    /\ pending = [p \in Procs |-> {}]
    /\ vplan_log = [w \in Workloads |-> {}]
    /\ workload_db = [w \in Workloads |-> NoFile]
    /\ aggregate = [p \in Procs |-> [w \in Workloads |-> {}]]
    /\ compat = [a \in {"rvv", "intel"} |-> [state |-> "none",
                                             rows |-> [w \in Workloads |-> {}]]]
    /\ got = [p \in Procs |-> [w \in Workloads |-> {}]]
    /\ answer = [p \in Procs |-> [w \in Workloads |-> {}]]
    /\ disturbed = {}

Goto(p, place) == pc' = [pc EXCEPT ![p] = place]

\* p changes a file: whoever else is under way may see it.
Touches(p) == disturbed' = disturbed \cup { q \in Procs \ {p} : pc[q] \in Active }

\* An invocation that begins while another produces is disturbed from the start.
Start(p) ==
    /\ pc[p] = "off"
    /\ Goto(p, "container")
    /\ disturbed' = IF \E q \in Procs : pc[q] \in Active THEN disturbed \cup {p} ELSE disturbed
    /\ UNCHANGED << at, result, pending, vplan_log, workload_db, aggregate, compat, got, answer >>

Kill(p) ==
    /\ pc[p] \in Active
    /\ Goto(p, "killed")
    /\ UNCHANGED << at, result, pending, vplan_log, workload_db, aggregate, compat,
                    got, answer, disturbed >>

-----------------------------------------------------------------------------
(* One workload: the container, then its file.                               *)

Said(p, found) == IF found = {} THEN {Row(p, "no_vf")} ELSE { Row(p, v) : v \in found }

(* The output directory of a workload is the same in every invocation.  A    *)
(* container that fails before "opt | tee" leaves the log that was there; a  *)
(* failing opt does not fail the pipe; one killed later leaves a cut log.    *)
Container(p) ==
    /\ pc[p] = "container"
    /\ \/ /\ UNCHANGED << vplan_log, disturbed >>
          /\ result' = [result EXCEPT ![p] = [exit |-> 1, ran |-> TRUE]]
          /\ answer' = [answer EXCEPT ![p][at[p]] = {Row(p, "vplan_failed")}]
       \/ \E found \in SUBSET VFs, exit \in {0, 1} :
             /\ vplan_log' = [vplan_log EXCEPT ![at[p]] = found]
             /\ Touches(p)
             /\ result' = [result EXCEPT ![p] = [exit |-> exit, ran |-> TRUE]]
             /\ answer' = [answer EXCEPT ![p][at[p]] =
                             IF exit = 0 THEN Said(p, found) ELSE {Row(p, "vplan_failed")}]
    /\ Goto(p, "record")
    /\ UNCHANGED << at, pending, workload_db, aggregate, compat, got >>

\* A workload without a source LLVM could analyse needs no container.
NoAnalysisSource(p) ==
    /\ pc[p] = "container"
    /\ result' = [result EXCEPT ![p] = [exit |-> 0, ran |-> FALSE]]
    /\ answer' = [answer EXCEPT ![p][at[p]] = Said(p, {})]
    /\ Goto(p, "record")
    /\ UNCHANGED << at, pending, vplan_log, workload_db, aggregate, compat, got, disturbed >>

\* Variant: a log that is there is parsed whatever the exit code.
RowsOf_IgnoringExit(p) ==
    IF ~result[p].ran THEN Said(p, {}) ELSE Said(p, vplan_log[at[p]])

\* The rows write_workload_db makes of the result and the log.
RowsOf(p) == IF result[p].exit # 0 THEN {Row(p, "vplan_failed")}
             ELSE IF ~result[p].ran THEN Said(p, {}) ELSE Said(p, vplan_log[at[p]])

Unlinked(w) == [workload_db EXCEPT ![w] = NoFile]

Record(p) ==
    /\ pc[p] = "record"
    /\ pending' = [pending EXCEPT ![p] = RowsOf(p)]
    /\ workload_db' = Unlinked(at[p])
    /\ Touches(p) /\ Goto(p, "create")
    /\ UNCHANGED << at, result, vplan_log, aggregate, compat, got, answer >>

\* Variant: CREATE TABLE IF NOT EXISTS, as emulate_all.py has it.
Create_IfNotExists(p) ==
    LET f == workload_db[at[p]] IN
    /\ pc[p] = "create"
    /\ workload_db' = [workload_db EXCEPT ![at[p]] = [by |-> p, table |-> TRUE, rows |-> f.rows]]
    /\ Goto(p, "insert")
    /\ Touches(p)
    /\ UNCHANGED << at, result, pending, vplan_log, aggregate, compat, got, answer >>

(* CREATE TABLE: an error when another invocation made the file since it was *)
(* unlinked.                                                                 *)
Create(p) ==
    /\ pc[p] = "create"
    /\ IF workload_db[at[p]].table
          THEN Goto(p, "error") /\ UNCHANGED workload_db
          ELSE /\ workload_db' = [workload_db EXCEPT ![at[p]] =
                                    [by |-> p, table |-> TRUE, rows |-> {}]]
               /\ Goto(p, "insert")
    /\ Touches(p)
    /\ UNCHANGED << at, result, pending, vplan_log, aggregate, compat, got, answer >>

\* The connection stays with the file it opened, even when that is unlinked.
Insert(p) ==
    /\ pc[p] = "insert"
    /\ \E row \in pending[p] :
          /\ pending' = [pending EXCEPT ![p] = @ \ {row}]
          /\ workload_db' = IF workload_db[at[p]].by = p
                               THEN [workload_db EXCEPT ![at[p]].rows = @ \cup {row}]
                               ELSE workload_db
    /\ Touches(p)
    /\ UNCHANGED << pc, at, result, vplan_log, aggregate, compat, got, answer >>

NextWorkload(p) ==
    /\ pc[p] = "insert" /\ pending[p] = {}
    /\ IF at[p] < Benches
          THEN at' = [at EXCEPT ![p] = @ + 1] /\ Goto(p, "container")
          ELSE at' = [at EXCEPT ![p] = 1] /\ Goto(p, "export")
    /\ UNCHANGED << result, pending, vplan_log, workload_db, aggregate, compat,
                    got, answer, disturbed >>

-----------------------------------------------------------------------------
(* export_aggregate_db and the copy.                                         *)

\* A file without a table, or one that is not there, is an sqlite error.
Export(p) ==
    /\ pc[p] = "export"
    /\ IF workload_db[at[p]].table
          THEN /\ aggregate' = [aggregate EXCEPT ![p][at[p]] = workload_db[at[p]].rows]
               /\ IF at[p] < Benches
                     THEN at' = [at EXCEPT ![p] = @ + 1] /\ UNCHANGED pc
                     ELSE at' = [at EXCEPT ![p] = 1] /\ Goto(p, "copy")
          ELSE Goto(p, "error") /\ UNCHANGED << aggregate, at >>
    /\ UNCHANGED << result, pending, vplan_log, workload_db, compat, got, answer, disturbed >>

\* shutil.copyfile truncates its target before it writes.
CopyBegins(p) ==
    /\ pc[p] = "copy"
    /\ compat' = [compat EXCEPT ![ArchOf[p]].state = "cut"]
    /\ Touches(p) /\ Goto(p, "copying")
    /\ UNCHANGED << at, result, pending, vplan_log, workload_db, aggregate, got, answer >>

CopyEnds(p) ==
    /\ pc[p] = "copying"
    /\ compat' = IF \E q \in Procs \ {p} : pc[q] = "copying" /\ ArchOf[q] = ArchOf[p]
                    THEN compat
                    ELSE [compat EXCEPT ![ArchOf[p]] = [state |-> "whole",
                                                        rows |-> aggregate[p]]]
    /\ Touches(p) /\ Goto(p, "read")
    /\ UNCHANGED << at, result, pending, vplan_log, workload_db, aggregate, got, answer >>

-----------------------------------------------------------------------------
(* The second half of the make: main() of emulate_all.py, which reads file   *)
(* by file, or of profile_all.py, which reads the copy.                      *)

ReadWorkload(p) ==
    /\ pc[p] = "read" /\ ArchOf[p] = "rvv"
    /\ LET f == workload_db[at[p]] IN
       IF f.by # Nobody /\ ~f.table THEN Goto(p, "error") /\ UNCHANGED << got, at >>
       ELSE /\ got' = [got EXCEPT ![p][at[p]] =
                         IF f.by = Nobody THEN {Row(p, "missing_vfs_db")} ELSE f.rows]
            /\ IF at[p] < Benches
                  THEN at' = [at EXCEPT ![p] = @ + 1] /\ UNCHANGED pc
                  ELSE Goto(p, "done") /\ UNCHANGED at
    /\ UNCHANGED << result, pending, vplan_log, workload_db, aggregate, compat, answer, disturbed >>

ReadCopy(p) ==
    /\ pc[p] = "read" /\ ArchOf[p] = "intel"
    /\ IF compat["intel"].state = "whole"
          THEN /\ got' = [got EXCEPT ![p] = [w \in Workloads |->
                            IF compat["intel"].rows[w] = {} THEN {Row(p, "missing_vfs_entry")}
                            ELSE compat["intel"].rows[w]]]
               /\ Goto(p, "done")
          ELSE Goto(p, "error") /\ UNCHANGED got
    /\ UNCHANGED << at, result, pending, vplan_log, workload_db, aggregate, compat, answer, disturbed >>

Next ==
    \E p \in Procs :
        \/ Start(p) \/ Kill(p)
        \/ Container(p) \/ NoAnalysisSource(p) \/ Record(p) \/ Create(p) \/ Insert(p)
        \/ NextWorkload(p) \/ Export(p) \/ CopyBegins(p) \/ CopyEnds(p)
        \/ ReadWorkload(p) \/ ReadCopy(p)

Spec == Init /\ [][Next]_vars

-----------------------------------------------------------------------------
TypeOK ==
    /\ pc \in [Procs -> Active \cup {"off", "done", "killed", "error"}]
    /\ at \in [Procs -> Workloads]
    /\ result \in [Procs -> [exit : {0, 1}, ran : BOOLEAN]]
    /\ pending \in [Procs -> SUBSET Rows]
    /\ vplan_log \in [Workloads -> SUBSET VFs]
    /\ workload_db \in [Workloads -> [by : Procs \cup {Nobody}, table : BOOLEAN,
                                      rows : SUBSET Rows]]

\* Candidates only, or a single row.
OneAnswer(rows) == (\A row \in rows : row.what \in VFs) \/ \E row \in rows : rows = {row}

(* Overlapping or killed, no two invocations ever mix their rows in one      *)
(* workload's file, and a file holds candidates or one failure and never     *)
(* both: emulate_all.py would schedule the candidates beside the failure.    *)
(* (unlink, CREATE TABLE and one connection in write_workload_db.)           *)
OneWriter ==
    \A w \in Workloads :
        LET rows == workload_db[w].rows IN
        /\ \A row \in rows : row.by = workload_db[w].by
        /\ OneAnswer(rows)

(* The second half of an undisturbed make reads, for every workload, exactly *)
(* what the containers of its first half said: nothing of a log, a workload  *)
(* file or a copy that earlier, killed or foreign invocations left, and      *)
(* nothing is missing.                                                       *)
ReadsItsOwn ==
    \A p \in Procs :
        /\ pc[p] = "done" /\ p \notin disturbed => got[p] = answer[p]
        /\ pc[p] = "error" => p \in disturbed
=============================================================================
