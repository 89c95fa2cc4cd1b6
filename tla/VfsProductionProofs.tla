------------------------ MODULE VfsProductionProofs ------------------------
(* However many invocations of make overlap, for however many workloads and  *)
(* factors, a workload's file never holds rows of two of them, nor           *)
(* candidates beside a failure.                                              *)
EXTENDS VfsProduction, TLAPS

(* What the rows still to be inserted have to do with the file: they are the *)
(* inserting invocation's own, and together with what it has inserted so far *)
(* they are one answer, as long as the file is still the one it made.        *)
PendingOwn == \A p \in Procs : \A row \in pending[p] : row.by = p

Writing ==
    \A p \in Procs :
        /\ pc[p] = "create" => OneAnswer(pending[p])
        /\ pc[p] = "insert" /\ workload_db[at[p]].by = p =>
              OneAnswer(workload_db[at[p]].rows \cup pending[p])

IInv == TypeOK /\ OneWriter /\ PendingOwn /\ Writing

-----------------------------------------------------------------------------
\* Rows with a type, of either kind.
LEMMA RowIsRow == ASSUME NEW p \in Procs, NEW what \in VFs \cup Failure
                  PROVE  Row(p, what) \in Rows /\ Row(p, what).by = p /\ Row(p, what).what = what
  BY DEF Row, Rows

\* A part of one answer is one answer.
LEMMA PartOfAnswer == ASSUME NEW S, NEW T \in SUBSET S, OneAnswer(S)
                      PROVE  OneAnswer(T)
  <1>1. CASE \A row \in S : row.what \in VFs
    BY <1>1 DEF OneAnswer
  <1>2. CASE \E row \in S : S = {row}
    <2>1. PICK row \in S : S = {row}
      BY <1>2
    <2>2. T = {} \/ T = {row}
      BY <2>1
    <2> QED
      BY <2>1, <2>2 DEF OneAnswer
  <1> QED
    BY <1>1, <1>2 DEF OneAnswer

\* What write_workload_db makes of a result is one answer of its own rows.
LEMMA RowsOfAnswer == ASSUME TypeOK, NEW p \in Procs
                      PROVE  /\ RowsOf(p) \subseteq Rows
                             /\ \A row \in RowsOf(p) : row.by = p
                             /\ OneAnswer(RowsOf(p))
  <1>1. ASSUME NEW found \in SUBSET VFs
        PROVE  /\ Said(p, found) \subseteq Rows
               /\ \A row \in Said(p, found) : row.by = p
               /\ OneAnswer(Said(p, found))
    <2>1. CASE found = {}
      <3>1. Said(p, found) = {Row(p, "no_vf")}
        BY <2>1 DEF Said
      <3>2. Row(p, "no_vf") \in Rows /\ Row(p, "no_vf").by = p
        BY RowIsRow DEF Failure
      <3> QED
        BY <3>1, <3>2 DEF OneAnswer
    <2>2. CASE found # {}
      <3>1. Said(p, found) = { Row(p, v) : v \in found }
        BY <2>2 DEF Said
      <3>2. \A v \in found : Row(p, v) \in Rows /\ Row(p, v).by = p /\ Row(p, v).what \in VFs
        BY RowIsRow
      <3> QED
        BY <3>1, <3>2 DEF OneAnswer
    <2> QED
      BY <2>1, <2>2
  <1>2. CASE result[p].exit # 0
    <2>1. RowsOf(p) = {Row(p, "vplan_failed")}
      BY <1>2 DEF RowsOf
    <2>2. Row(p, "vplan_failed") \in Rows /\ Row(p, "vplan_failed").by = p
      BY RowIsRow DEF Failure
    <2> QED
      BY <2>1, <2>2 DEF OneAnswer
  <1>3. CASE result[p].exit = 0
    <2>1. vplan_log[at[p]] \in SUBSET VFs /\ {} \in SUBSET VFs
      BY DEF TypeOK
    <2>2. RowsOf(p) = Said(p, {}) \/ RowsOf(p) = Said(p, vplan_log[at[p]])
      BY <1>3 DEF RowsOf
    <2> QED
      BY <1>1, <2>1, <2>2
  <1> QED
    BY <1>2, <1>3

-----------------------------------------------------------------------------
LEMMA InitIInv == Init => IInv
  <1> SUFFICES ASSUME Init PROVE IInv
    OBVIOUS
  <1>1. TypeOK
    BY ProductionAssumption DEF Init, TypeOK, NoFile, NoResult, Rows, Workloads
  <1>2. OneWriter /\ PendingOwn /\ Writing
    BY DEF Init, OneWriter, PendingOwn, Writing, OneAnswer, NoFile
  <1> QED
    BY <1>1, <1>2 DEF IInv

LEMMA TypeStep == TypeOK /\ [Next]_vars => TypeOK'
  <1> SUFFICES ASSUME TypeOK, [Next]_vars PROVE TypeOK'
    OBVIOUS
  <1> USE ProductionAssumption
  <1>1. CASE UNCHANGED vars
    BY <1>1 DEF vars, TypeOK
  <1>2. ASSUME NEW p \in Procs, Start(p) PROVE TypeOK'
    BY <1>2 DEF Start, Goto, TypeOK, Active, Producing
  <1>3. ASSUME NEW p \in Procs, Kill(p) PROVE TypeOK'
    BY <1>3 DEF Kill, Goto, TypeOK
  <1>4. ASSUME NEW p \in Procs, Container(p) PROVE TypeOK'
    <2>1. vplan_log' \in [Workloads -> SUBSET VFs]
      <3>1. CASE UNCHANGED vplan_log
        BY <3>1 DEF TypeOK
      <3>2. CASE \E found \in SUBSET VFs : vplan_log' = [vplan_log EXCEPT ![at[p]] = found]
        BY <3>2 DEF TypeOK
      <3> QED
        BY <1>4, <3>1, <3>2 DEF Container
    <2>2. result' \in [Procs -> [exit : {0, 1}, ran : BOOLEAN]]
      <3>1. PICK exit \in {0, 1} : result' = [result EXCEPT ![p] = [exit |-> exit, ran |-> TRUE]]
        BY <1>4 DEF Container
      <3>2. [exit |-> exit, ran |-> TRUE] \in [exit : {0, 1}, ran : BOOLEAN]
        OBVIOUS
      <3> QED
        BY <3>1, <3>2 DEF TypeOK
    <2>3. pc' \in [Procs -> Active \cup {"off", "done", "killed", "error"}]
      BY <1>4 DEF Container, Goto, TypeOK, Active, Producing
    <2>4. UNCHANGED << at, pending, workload_db >>
      BY <1>4 DEF Container
    <2> QED
      BY <2>1, <2>2, <2>3, <2>4 DEF TypeOK
  <1>5. ASSUME NEW p \in Procs, NoAnalysisSource(p) PROVE TypeOK'
    BY <1>5 DEF NoAnalysisSource, Goto, TypeOK, Active, Producing
  <1>6. ASSUME NEW p \in Procs, Record(p) PROVE TypeOK'
    <2>1. RowsOf(p) \subseteq Rows
      BY RowsOfAnswer
    <2> QED
      BY <1>6, <2>1 DEF Record, Unlinked, NoFile, Goto, TypeOK, Active, Producing
  <1>7. ASSUME NEW p \in Procs, Create(p) PROVE TypeOK'
    <2>1. pc' \in [Procs -> Active \cup {"off", "done", "killed", "error"}]
      BY <1>7 DEF Create, Goto, TypeOK, Active, Producing
    <2>2. workload_db' \in [Workloads -> [by : Procs \cup {Nobody}, table : BOOLEAN,
                                          rows : SUBSET Rows]]
      <3>1. [by |-> p, table |-> TRUE, rows |-> {}]
              \in [by : Procs \cup {Nobody}, table : BOOLEAN, rows : SUBSET Rows]
        OBVIOUS
      <3>2. \/ UNCHANGED workload_db
            \/ workload_db' = [workload_db EXCEPT ![at[p]] =
                                 [by |-> p, table |-> TRUE, rows |-> {}]]
        BY <1>7 DEF Create
      <3> QED
        BY <3>1, <3>2 DEF TypeOK
    <2>3. UNCHANGED << at, result, pending, vplan_log >>
      BY <1>7 DEF Create
    <2> QED
      BY <2>1, <2>2, <2>3 DEF TypeOK
  <1>8. ASSUME NEW p \in Procs, Insert(p) PROVE TypeOK'
    <2>1. PICK row \in pending[p] :
            /\ pending' = [pending EXCEPT ![p] = @ \ {row}]
            /\ workload_db' = IF workload_db[at[p]].by = p
                                 THEN [workload_db EXCEPT ![at[p]].rows = @ \cup {row}]
                                 ELSE workload_db
      BY <1>8 DEF Insert
    <2>2. row \in Rows /\ at[p] \in Workloads
      BY DEF TypeOK
    <2>3. workload_db' \in [Workloads -> [by : Procs \cup {Nobody}, table : BOOLEAN,
                                          rows : SUBSET Rows]]
      BY <2>1, <2>2 DEF TypeOK
    <2> QED
      BY <1>8, <2>1, <2>3 DEF Insert, TypeOK
  <1>9. ASSUME NEW p \in Procs, NextWorkload(p) PROVE TypeOK'
    <2>1. at' \in [Procs -> Workloads]
      <3>1. \/ at' = at \/ at' = [at EXCEPT ![p] = 1]
            \/ at[p] < Benches /\ at' = [at EXCEPT ![p] = at[p] + 1]
        BY <1>9 DEF NextWorkload
      <3>2. at[p] \in Workloads /\ 1 \in Workloads
        BY DEF TypeOK, Workloads
      <3>3. at[p] < Benches => at[p] + 1 \in Workloads
        BY <3>2 DEF Workloads
      <3> QED
        BY <3>1, <3>2, <3>3 DEF TypeOK
    <2>2. pc' \in [Procs -> Active \cup {"off", "done", "killed", "error"}]
      BY <1>9 DEF NextWorkload, Goto, TypeOK, Active, Producing
    <2>3. UNCHANGED << result, pending, vplan_log, workload_db >>
      BY <1>9 DEF NextWorkload
    <2> QED
      BY <2>1, <2>2, <2>3 DEF TypeOK
  <1>10. ASSUME NEW p \in Procs, Export(p) PROVE TypeOK'
    <2>1. at' \in [Procs -> Workloads]
      <3>1. \/ at' = at \/ at' = [at EXCEPT ![p] = 1]
            \/ at[p] < Benches /\ at' = [at EXCEPT ![p] = at[p] + 1]
        BY <1>10 DEF Export
      <3>2. at[p] \in Workloads /\ 1 \in Workloads
        BY DEF TypeOK, Workloads
      <3>3. at[p] < Benches => at[p] + 1 \in Workloads
        BY <3>2 DEF Workloads
      <3> QED
        BY <3>1, <3>2, <3>3 DEF TypeOK
    <2>2. pc' \in [Procs -> Active \cup {"off", "done", "killed", "error"}]
      BY <1>10 DEF Export, Goto, TypeOK, Active, Producing
    <2>3. UNCHANGED << result, pending, vplan_log, workload_db >>
      BY <1>10 DEF Export
    <2> QED
      BY <2>1, <2>2, <2>3 DEF TypeOK
  <1>11. ASSUME NEW p \in Procs, CopyBegins(p) \/ CopyEnds(p) PROVE TypeOK'
    BY <1>11 DEF CopyBegins, CopyEnds, Goto, TypeOK, Active, Producing
  <1>12. ASSUME NEW p \in Procs, ReadWorkload(p) PROVE TypeOK'
    <2>1. at' \in [Procs -> Workloads]
      <3>1. \/ at' = at \/ at' = [at EXCEPT ![p] = 1]
            \/ at[p] < Benches /\ at' = [at EXCEPT ![p] = at[p] + 1]
        BY <1>12 DEF ReadWorkload
      <3>2. at[p] \in Workloads /\ 1 \in Workloads
        BY DEF TypeOK, Workloads
      <3>3. at[p] < Benches => at[p] + 1 \in Workloads
        BY <3>2 DEF Workloads
      <3> QED
        BY <3>1, <3>2, <3>3 DEF TypeOK
    <2>2. pc' \in [Procs -> Active \cup {"off", "done", "killed", "error"}]
      BY <1>12 DEF ReadWorkload, Goto, TypeOK, Active, Producing
    <2>3. UNCHANGED << result, pending, vplan_log, workload_db >>
      BY <1>12 DEF ReadWorkload
    <2> QED
      BY <2>1, <2>2, <2>3 DEF TypeOK
  <1>13. ASSUME NEW p \in Procs, ReadCopy(p) PROVE TypeOK'
    BY <1>13 DEF ReadCopy, Goto, TypeOK, Active, Producing
  <1> QED
    BY <1>1, <1>2, <1>3, <1>4, <1>5, <1>6, <1>7, <1>8, <1>9, <1>10, <1>11, <1>12,
       <1>13 DEF Next

-----------------------------------------------------------------------------
\* The steps that leave the files and the rows to insert alone, and bring
\* nobody to the point of creating a file or inserting into one.
Aside(p) ==
    /\ UNCHANGED << workload_db, pending >>
    /\ \A q \in Procs : pc'[q] \in {"create", "insert"} => pc'[q] = pc[q] /\ at'[q] = at[q]

LEMMA AsideKeeps == ASSUME IInv, NEW p \in Procs, Aside(p)
                    PROVE  OneWriter' /\ PendingOwn' /\ Writing'
  <1>1. OneWriter' /\ PendingOwn'
    BY DEF IInv, Aside, OneWriter, PendingOwn, OneAnswer
  <1>2. Writing'
    <2> SUFFICES ASSUME NEW q \in Procs
                 PROVE  /\ pc'[q] = "create" => OneAnswer(pending'[q])
                        /\ pc'[q] = "insert" /\ workload_db'[at'[q]].by = q =>
                              OneAnswer(workload_db'[at'[q]].rows \cup pending'[q])
      BY DEF Writing, OneAnswer
    <2> QED
      BY DEF IInv, Aside, Writing
  <1> QED
    BY <1>1, <1>2

LEMMA OthersAside == ASSUME IInv, NEW p \in Procs,
                            \/ Start(p) \/ Kill(p) \/ Container(p) \/ NoAnalysisSource(p)
                            \/ NextWorkload(p) \/ Export(p) \/ CopyBegins(p) \/ CopyEnds(p)
                            \/ ReadWorkload(p) \/ ReadCopy(p)
                     PROVE  Aside(p)
  <1> USE DEF IInv, TypeOK, Aside, Goto
  <1>1. CASE Start(p)            BY <1>1 DEF Start
  <1>2. CASE Kill(p)             BY <1>2 DEF Kill
  <1>3. CASE Container(p)        BY <1>3 DEF Container
  <1>4. CASE NoAnalysisSource(p) BY <1>4 DEF NoAnalysisSource
  <1>5. CASE NextWorkload(p)     BY <1>5 DEF NextWorkload
  <1>6. CASE Export(p)           BY <1>6 DEF Export
  <1>7. CASE CopyBegins(p)       BY <1>7 DEF CopyBegins
  <1>8. CASE CopyEnds(p)         BY <1>8 DEF CopyEnds
  <1>9. CASE ReadWorkload(p)     BY <1>9 DEF ReadWorkload
  <1>10. CASE ReadCopy(p)        BY <1>10 DEF ReadCopy
  <1> QED
    BY <1>1, <1>2, <1>3, <1>4, <1>5, <1>6, <1>7, <1>8, <1>9, <1>10

LEMMA RecordKeeps == ASSUME IInv, NEW p \in Procs, Record(p)
                     PROVE  OneWriter' /\ PendingOwn' /\ Writing'
  <1> DEFINE w == at[p]
  <1>1. w \in Workloads /\ TypeOK /\ OneWriter /\ PendingOwn /\ Writing
    BY DEF IInv, TypeOK
  <1>2. /\ pending' = [pending EXCEPT ![p] = RowsOf(p)]
        /\ workload_db' = [workload_db EXCEPT ![w] = NoFile]
        /\ pc' = [pc EXCEPT ![p] = "create"]
        /\ at' = at
    BY DEF Record, Unlinked, Goto
  <1>3. (\A row \in RowsOf(p) : row.by = p) /\ OneAnswer(RowsOf(p))
    BY <1>1, RowsOfAnswer
  <1>4. OneWriter'
    <2> SUFFICES ASSUME NEW x \in Workloads
                 PROVE  /\ \A row \in workload_db'[x].rows : row.by = workload_db'[x].by
                        /\ OneAnswer(workload_db'[x].rows)
      BY DEF OneWriter, OneAnswer
    <2>1. CASE x = w
      BY <1>1, <1>2, <2>1 DEF TypeOK, NoFile, OneAnswer
    <2>2. CASE x # w
      BY <1>1, <1>2, <2>2 DEF TypeOK, OneWriter
    <2> QED
      BY <2>1, <2>2
  <1>5. PendingOwn'
    BY <1>1, <1>2, <1>3 DEF PendingOwn, TypeOK
  <1>6. Writing'
    <2> SUFFICES ASSUME NEW q \in Procs
                 PROVE  /\ pc'[q] = "create" => OneAnswer(pending'[q])
                        /\ pc'[q] = "insert" /\ workload_db'[at'[q]].by = q =>
                              OneAnswer(workload_db'[at'[q]].rows \cup pending'[q])
      BY DEF Writing, OneAnswer
    <2>1. CASE q = p
      BY <1>1, <1>2, <1>3, <2>1 DEF TypeOK
    <2>2. CASE q # p
      <3>1. pc'[q] = pc[q] /\ pending'[q] = pending[q] /\ at'[q] = at[q]
        BY <1>1, <1>2, <2>2 DEF TypeOK
      <3>2. CASE at[q] = w
        <4>1. workload_db'[at'[q]].by = Nobody
          BY <1>1, <1>2, <3>1, <3>2 DEF TypeOK, NoFile
        <4> QED
          BY <1>1, <3>1, <4>1, ProductionAssumption DEF Writing
      <3>3. CASE at[q] # w
        <4>1. workload_db'[at'[q]] = workload_db[at[q]]
          BY <1>1, <1>2, <3>1, <3>3 DEF TypeOK
        <4> QED
          BY <1>1, <3>1, <4>1 DEF Writing
      <3> QED
        BY <3>2, <3>3
    <2> QED
      BY <2>1, <2>2
  <1> QED
    BY <1>4, <1>5, <1>6

LEMMA CreateKeeps == ASSUME IInv, NEW p \in Procs, Create(p)
                     PROVE  OneWriter' /\ PendingOwn' /\ Writing'
  <1> DEFINE w == at[p]
             new == [by |-> p, table |-> TRUE, rows |-> {}]
  <1>1. w \in Workloads /\ TypeOK /\ OneWriter /\ PendingOwn /\ Writing
    BY DEF IInv, TypeOK
  <1>2. CASE workload_db[w].table
    <2>1. Aside(p)
      BY <1>1, <1>2 DEF Create, Goto, Aside, TypeOK
    <2> QED
      BY <2>1, AsideKeeps
  <1>3. CASE ~workload_db[w].table
    <2>1. /\ workload_db' = [workload_db EXCEPT ![w] = new]
          /\ pc' = [pc EXCEPT ![p] = "insert"]
          /\ at' = at /\ pending' = pending /\ pc[p] = "create"
      BY <1>3 DEF Create, Goto
    <2>2. OneWriter'
      <3> SUFFICES ASSUME NEW x \in Workloads
                   PROVE  /\ \A row \in workload_db'[x].rows : row.by = workload_db'[x].by
                          /\ OneAnswer(workload_db'[x].rows)
        BY DEF OneWriter, OneAnswer
      <3>1. CASE x = w
        BY <1>1, <2>1, <3>1 DEF TypeOK, OneAnswer
      <3>2. CASE x # w
        BY <1>1, <2>1, <3>2 DEF TypeOK, OneWriter
      <3> QED
        BY <3>1, <3>2
    <2>3. PendingOwn'
      BY <1>1, <2>1 DEF PendingOwn
    <2>4. Writing'
      <3> SUFFICES ASSUME NEW q \in Procs
                   PROVE  /\ pc'[q] = "create" => OneAnswer(pending'[q])
                          /\ pc'[q] = "insert" /\ workload_db'[at'[q]].by = q =>
                                OneAnswer(workload_db'[at'[q]].rows \cup pending'[q])
        BY DEF Writing, OneAnswer
      <3>1. CASE q = p
        <4>1. workload_db'[at'[q]].rows \cup pending'[q] = pending[p]
          BY <1>1, <2>1, <3>1 DEF TypeOK
        <4>2. pc'[q] = "insert"
          BY <1>1, <2>1, <3>1 DEF TypeOK
        <4> QED
          BY <1>1, <2>1, <4>1, <4>2 DEF Writing
      <3>2. CASE q # p
        <4>1. pc'[q] = pc[q] /\ pending'[q] = pending[q] /\ at'[q] = at[q]
          BY <1>1, <2>1, <3>2 DEF TypeOK
        <4>2. workload_db'[at[q]].by = q => workload_db'[at[q]] = workload_db[at[q]]
          BY <1>1, <2>1, <3>2 DEF TypeOK
        <4> QED
          BY <1>1, <4>1, <4>2 DEF Writing
      <3> QED
        BY <3>1, <3>2
    <2> QED
      BY <2>2, <2>3, <2>4
  <1> QED
    BY <1>2, <1>3

LEMMA InsertKeeps == ASSUME IInv, NEW p \in Procs, Insert(p)
                     PROVE  OneWriter' /\ PendingOwn' /\ Writing'
  <1> DEFINE w == at[p]
  <1>1. w \in Workloads /\ TypeOK /\ OneWriter /\ PendingOwn /\ Writing
    BY DEF IInv, TypeOK
  <1>2. PICK row \in pending[p] :
          /\ pending' = [pending EXCEPT ![p] = @ \ {row}]
          /\ workload_db' = IF workload_db[w].by = p
                               THEN [workload_db EXCEPT ![w].rows = @ \cup {row}]
                               ELSE workload_db
    BY DEF Insert
  <1>3. pc[p] = "insert" /\ pc' = pc /\ at' = at
    BY DEF Insert
  <1>4. PendingOwn'
    BY <1>1, <1>2 DEF PendingOwn, TypeOK
  <1>5. /\ pending'[p] = pending[p] \ {row} /\ row.by = p
        /\ \A q \in Procs \ {p} : pending'[q] = pending[q]
    BY <1>1, <1>2 DEF TypeOK, PendingOwn
  <1>6. CASE workload_db[w].by = p
    <2>1. /\ workload_db'[w].by = p
          /\ workload_db'[w].rows = workload_db[w].rows \cup {row}
          /\ \A x \in Workloads \ {w} : workload_db'[x] = workload_db[x]
      BY <1>1, <1>2, <1>6 DEF TypeOK
    <2>2. OneAnswer(workload_db[w].rows \cup pending[p])
      BY <1>1, <1>3, <1>6 DEF Writing
    <2>3. workload_db'[w].rows \subseteq workload_db[w].rows \cup pending[p]
      BY <2>1
    <2>4. workload_db'[w].rows \cup pending'[p] = workload_db[w].rows \cup pending[p]
      BY <1>5, <2>1
    <2>5. OneWriter'
      <3> SUFFICES ASSUME NEW x \in Workloads
                   PROVE  /\ \A r \in workload_db'[x].rows : r.by = workload_db'[x].by
                          /\ OneAnswer(workload_db'[x].rows)
        BY DEF OneWriter, OneAnswer
      <3>1. CASE x = w
        <4>1. \A r \in workload_db'[w].rows : r.by = p
          BY <1>1, <1>5, <1>6, <2>1 DEF OneWriter
        <4>2. OneAnswer(workload_db'[w].rows)
          BY <2>2, <2>3, PartOfAnswer
        <4> QED
          BY <2>1, <3>1, <4>1, <4>2
      <3>2. CASE x # w
        BY <1>1, <2>1, <3>2 DEF OneWriter
      <3> QED
        BY <3>1, <3>2
    <2>6. Writing'
      <3> SUFFICES ASSUME NEW q \in Procs
                   PROVE  /\ pc'[q] = "create" => OneAnswer(pending'[q])
                          /\ pc'[q] = "insert" /\ workload_db'[at'[q]].by = q =>
                                OneAnswer(workload_db'[at'[q]].rows \cup pending'[q])
        BY DEF Writing, OneAnswer
      <3>1. CASE q = p
        BY <1>3, <2>2, <2>4, <3>1
      <3>2. CASE q # p
        <4>1. at[q] \in Workloads
          BY <1>1 DEF TypeOK
        <4>2. workload_db'[at[q]].by = q => workload_db'[at[q]] = workload_db[at[q]]
          BY <2>1, <3>2, <4>1
        <4> QED
          BY <1>1, <1>3, <1>5, <3>2, <4>2 DEF Writing
      <3> QED
        BY <3>1, <3>2
    <2> QED
      BY <1>4, <2>5, <2>6
  <1>7. CASE workload_db[w].by # p
    <2>1. workload_db' = workload_db
      BY <1>2, <1>7
    <2>2. OneWriter'
      BY <1>1, <2>1 DEF OneWriter, OneAnswer
    <2>3. Writing'
      <3> SUFFICES ASSUME NEW q \in Procs
                   PROVE  /\ pc'[q] = "create" => OneAnswer(pending'[q])
                          /\ pc'[q] = "insert" /\ workload_db'[at'[q]].by = q =>
                                OneAnswer(workload_db'[at'[q]].rows \cup pending'[q])
        BY DEF Writing, OneAnswer
      <3>1. CASE q = p
        BY <1>3, <1>7, <2>1, <3>1
      <3>2. CASE q # p
        BY <1>1, <1>3, <1>5, <2>1, <3>2 DEF Writing
      <3> QED
        BY <3>1, <3>2
    <2> QED
      BY <1>4, <2>2, <2>3
  <1> QED
    BY <1>6, <1>7

LEMMA StepIInv == IInv /\ [Next]_vars => IInv'
  <1> SUFFICES ASSUME IInv, [Next]_vars PROVE IInv'
    OBVIOUS
  <1>1. TypeOK'
    BY TypeStep DEF IInv
  <1>2. CASE UNCHANGED vars
    BY <1>1, <1>2 DEF IInv, vars, OneWriter, PendingOwn, Writing, OneAnswer
  <1>3. ASSUME NEW p \in Procs,
               \/ Start(p) \/ Kill(p)
               \/ Container(p) \/ NoAnalysisSource(p) \/ Record(p) \/ Create(p) \/ Insert(p)
               \/ NextWorkload(p) \/ Export(p) \/ CopyBegins(p) \/ CopyEnds(p)
               \/ ReadWorkload(p) \/ ReadCopy(p)
        PROVE  OneWriter' /\ PendingOwn' /\ Writing'
    BY <1>3, OthersAside, AsideKeeps, RecordKeeps, CreateKeeps, InsertKeeps
  <1> QED
    BY <1>1, <1>2, <1>3 DEF IInv, Next

(* The variables of the production keep their types.                         *)
THEOREM ProductionTypeOK == Spec => []TypeOK
  <1>1. Init => TypeOK
    BY InitIInv DEF IInv
  <1> QED
    BY <1>1, TypeStep, PTL DEF Spec

(* For any number of invocations, overlapping or killed anywhere, of         *)
(* workloads and of factors: the file write_workload_db makes of a workload  *)
(* holds rows of one invocation, and they are candidates or one failure.     *)
THEOREM FilesHaveOneWriter == Spec => []OneWriter
  <1>1. IInv => OneWriter
    BY DEF IInv
  <1> QED
    BY InitIInv, StepIInv, <1>1, PTL DEF Spec

-----------------------------------------------------------------------------
(* However many invocations of make there are, whatever was left by those    *)
(* that failed or were killed: one that no other production disturbs reads   *)
(* in its second half what its own containers said.                          *)

\* The variables TypeOK leaves out.
MoreTypes ==
    /\ aggregate \in [Procs -> [Workloads -> SUBSET Rows]]
    /\ got \in [Procs -> [Workloads -> SUBSET Rows]]
    /\ answer \in [Procs -> [Workloads -> SUBSET Rows]]
    /\ compat \in [{"rvv", "intel"} -> [state : {"none", "cut", "whole"},
                                        rows : [Workloads -> SUBSET Rows]]]
    /\ disturbed \subseteq Procs

\* The others have not come to a step that changes a file.
Idle == {"off", "container", "record", "done", "killed", "error"}
Quiet(p) == \A q \in Procs \ {p} : pc[q] \in Idle

\* The file of w holds what p's container said of it, all of it.
Whole(p, w) ==
    /\ workload_db[w] = [by |-> p, table |-> TRUE, rows |-> answer[p][w]]
    /\ answer[p][w] # {}

\* How far an undisturbed invocation has come with its files.
Loop(p) ==
    pc[p] \in {"container", "record", "create", "insert"} =>
        \A w \in Workloads : w < at[p] => Whole(p, w)
Writes(p) ==
    /\ pc[p] = "record" => answer[p][at[p]] = RowsOf(p)
    /\ pc[p] \in {"create", "insert"} => answer[p][at[p]] # {}
    /\ pc[p] = "create" => workload_db[at[p]] = NoFile /\ pending[p] = answer[p][at[p]]
    /\ pc[p] = "insert" => /\ workload_db[at[p]].by = p /\ workload_db[at[p]].table
                           /\ workload_db[at[p]].rows \cup pending[p] = answer[p][at[p]]
Exports(p) ==
    /\ pc[p] \in {"export", "copy", "copying", "read"} => \A w \in Workloads : Whole(p, w)
    /\ pc[p] = "export" => \A w \in Workloads : w < at[p] => aggregate[p][w] = answer[p][w]
    /\ pc[p] \in {"copy", "copying", "read"} => aggregate[p] = answer[p]
    /\ pc[p] \in {"copy", "copying"} => at[p] = 1
Reads(p) ==
    /\ pc[p] = "read" => /\ compat[ArchOf[p]] = [state |-> "whole", rows |-> answer[p]]
                         /\ \A w \in Workloads : w < at[p] => got[p][w] = answer[p][w]
    /\ pc[p] = "done" => got[p] = answer[p]
    /\ pc[p] # "error"

Undisturbed(p) ==
    /\ pc[p] \in Active => Quiet(p)
    /\ Loop(p) /\ Writes(p) /\ Exports(p) /\ Reads(p)

ReadInv ==
    /\ MoreTypes
    /\ \A p \in Procs : pc[p] = "off" => at[p] = 1
    /\ \A p \in Procs \ disturbed : Undisturbed(p)

OneStep(p) ==
    \/ Start(p) \/ Kill(p)
    \/ Container(p) \/ NoAnalysisSource(p) \/ Record(p) \/ Create(p) \/ Insert(p)
    \/ NextWorkload(p) \/ Export(p) \/ CopyBegins(p) \/ CopyEnds(p)
    \/ ReadWorkload(p) \/ ReadCopy(p)

-----------------------------------------------------------------------------
LEMMA InitReadInv == Init => ReadInv
  <1> SUFFICES ASSUME Init PROVE ReadInv
    OBVIOUS
  <1>1. MoreTypes
    BY DEF Init, MoreTypes, Workloads
  <1>2. \A p \in Procs : Undisturbed(p)
    BY DEF Init, Undisturbed, Loop, Writes, Exports, Reads, Active, Producing
  <1> QED
    BY <1>1, <1>2 DEF Init, ReadInv

\* A container's answer, and what is recorded of it, is never empty.
LEMMA SaysSomething == ASSUME TypeOK, NEW p \in Procs
                       PROVE  /\ \A found \in SUBSET VFs : Said(p, found) # {} /\ Said(p, found) \subseteq Rows
                              /\ Row(p, "vplan_failed") \in Rows
                              /\ RowsOf(p) # {} /\ RowsOf(p) \subseteq Rows
  <1>1. ASSUME NEW found \in SUBSET VFs PROVE Said(p, found) # {} /\ Said(p, found) \subseteq Rows
    <2>1. CASE found = {}
      <3>1. Row(p, "no_vf") \in Rows
        BY RowIsRow DEF Failure
      <3> QED
        BY <2>1, <3>1 DEF Said
    <2>2. CASE found # {}
      <3>1. \A v \in found : Row(p, v) \in Rows
        BY RowIsRow
      <3> QED
        BY <2>2, <3>1 DEF Said
    <2> QED
      BY <2>1, <2>2
  <1>2. RowsOf(p) # {}
    <2>1. vplan_log[at[p]] \in SUBSET VFs /\ {} \in SUBSET VFs
      BY DEF TypeOK
    <2> QED
      BY <1>1, <2>1 DEF RowsOf
  <1> QED
    BY <1>1, <1>2, RowsOfAnswer, RowIsRow DEF Failure

\* Rows put in their place in a table.
LEMMA PutInPlace == ASSUME NEW f \in [Procs -> [Workloads -> SUBSET Rows]],
                           NEW p \in Procs, NEW w \in Workloads, NEW rows \in SUBSET Rows
                    PROVE  /\ [f EXCEPT ![p][w] = rows] \in [Procs -> [Workloads -> SUBSET Rows]]
                           /\ [f EXCEPT ![p][w] = rows][p][w] = rows
                           /\ \A x \in Workloads \ {w} : [f EXCEPT ![p][w] = rows][p][x] = f[p][x]
                           /\ \A q \in Procs \ {p} : [f EXCEPT ![p][w] = rows][q] = f[q]
  <1> DEFINE g == [f EXCEPT ![p][w] = rows]
  <1>1. g = [f EXCEPT ![p] = [f[p] EXCEPT ![w] = rows]]
    OBVIOUS
  <1>2. [f[p] EXCEPT ![w] = rows] \in [Workloads -> SUBSET Rows]
    OBVIOUS
  <1>3. g \in [Procs -> [Workloads -> SUBSET Rows]]
    BY <1>1, <1>2
  <1>4. g[p] = [f[p] EXCEPT ![w] = rows] /\ \A q \in Procs \ {p} : g[q] = f[q]
    BY <1>1
  <1> QED
    BY <1>3, <1>4

LEMMA MoreTypesStep == ASSUME TypeOK, MoreTypes, NEW p \in Procs, OneStep(p)
                       PROVE  MoreTypes'
  <1> USE ProductionAssumption DEF MoreTypes
  <1>1. CASE Start(p) \/ Kill(p)
    BY <1>1 DEF Start, Kill
  <1>2. CASE Container(p) \/ NoAnalysisSource(p)
    <2>1. UNCHANGED << aggregate, got, compat >>
      BY <1>2 DEF Container, NoAnalysisSource
    <2>2. \E S \in SUBSET Rows : answer' = [answer EXCEPT ![p][at[p]] = S]
      <3>1. CASE Container(p)
        <4>1. Row(p, "vplan_failed") \in Rows /\ \A found \in SUBSET VFs : Said(p, found) \subseteq Rows
          BY SaysSomething
        <4>2. \/ answer' = [answer EXCEPT ![p][at[p]] = {Row(p, "vplan_failed")}]
              \/ \E found \in SUBSET VFs : answer' = [answer EXCEPT ![p][at[p]] = Said(p, found)]
          BY <3>1 DEF Container
        <4> QED
          BY <4>1, <4>2
      <3>2. CASE NoAnalysisSource(p)
        BY <3>2, SaysSomething DEF NoAnalysisSource
      <3> QED
        BY <1>2, <3>1, <3>2
    <2>3. at[p] \in Workloads
      BY DEF TypeOK
    <2>4. answer' \in [Procs -> [Workloads -> SUBSET Rows]]
      BY <2>2, <2>3, PutInPlace
    <2>5. disturbed' \subseteq Procs
      BY <1>2 DEF Container, NoAnalysisSource, Touches
    <2> QED
      BY <2>1, <2>4, <2>5
  <1>3. CASE Record(p) \/ Create(p) \/ Insert(p) \/ NextWorkload(p)
    BY <1>3 DEF Record, Create, Insert, NextWorkload, Touches
  <1>4. CASE Export(p)
    <2>1. UNCHANGED << got, compat, answer, disturbed >>
      BY <1>4 DEF Export
    <2>2. \/ UNCHANGED aggregate
          \/ aggregate' = [aggregate EXCEPT ![p][at[p]] = workload_db[at[p]].rows]
      BY <1>4 DEF Export
    <2>3. at[p] \in Workloads /\ workload_db[at[p]].rows \subseteq Rows
      BY DEF TypeOK
    <2>4. [aggregate EXCEPT ![p][at[p]] = workload_db[at[p]].rows] \in [Procs -> [Workloads -> SUBSET Rows]]
      BY <2>3, PutInPlace
    <2>5. aggregate' \in [Procs -> [Workloads -> SUBSET Rows]]
      BY <2>2, <2>4
    <2> QED
      BY <2>1, <2>5
  <1>5. CASE CopyBegins(p)
    <2>1. UNCHANGED << aggregate, got, answer >>
      BY <1>5 DEF CopyBegins
    <2>2. compat' = [compat EXCEPT ![ArchOf[p]] = [compat[ArchOf[p]] EXCEPT !.state = "cut"]]
      BY <1>5 DEF CopyBegins
    <2>3. disturbed' \subseteq Procs
      BY <1>5 DEF CopyBegins, Touches
    <2> QED
      BY <2>1, <2>2, <2>3
  <1>6. CASE CopyEnds(p)
    <2>1. [state |-> "whole", rows |-> aggregate[p]]
            \in [state : {"none", "cut", "whole"}, rows : [Workloads -> SUBSET Rows]]
      OBVIOUS
    <2> QED
      BY <1>6, <2>1 DEF CopyEnds, Touches
  <1>7. CASE ReadWorkload(p)
    <2>1. UNCHANGED << aggregate, compat, answer, disturbed >>
      BY <1>7 DEF ReadWorkload
    <2>2. \/ UNCHANGED got
          \/ got' = [got EXCEPT ![p][at[p]] = {Row(p, "missing_vfs_db")}]
          \/ got' = [got EXCEPT ![p][at[p]] = workload_db[at[p]].rows]
      BY <1>7 DEF ReadWorkload
    <2>3. at[p] \in Workloads /\ workload_db[at[p]].rows \subseteq Rows
      BY DEF TypeOK
    <2>4. Row(p, "missing_vfs_db") \in Rows
      BY RowIsRow DEF Failure
    <2>5. [got EXCEPT ![p][at[p]] = {Row(p, "missing_vfs_db")}] \in [Procs -> [Workloads -> SUBSET Rows]]
      <3>1. {Row(p, "missing_vfs_db")} \in SUBSET Rows
        BY <2>4
      <3> QED
        BY <2>3, <3>1, PutInPlace
    <2>6. [got EXCEPT ![p][at[p]] = workload_db[at[p]].rows] \in [Procs -> [Workloads -> SUBSET Rows]]
      BY <2>3, PutInPlace
    <2>7. got' \in [Procs -> [Workloads -> SUBSET Rows]]
      BY <2>2, <2>5, <2>6
    <2> QED
      BY <2>1, <2>7
  <1>8. CASE ReadCopy(p)
    <2> DEFINE read == [w \in Workloads |->
                            IF compat["intel"].rows[w] = {} THEN {Row(p, "missing_vfs_entry")}
                            ELSE compat["intel"].rows[w]]
    <2>1. UNCHANGED << aggregate, compat, answer, disturbed >>
      BY <1>8 DEF ReadCopy
    <2>2. UNCHANGED got \/ got' = [got EXCEPT ![p] = read]
      BY <1>8 DEF ReadCopy
    <2>3. Row(p, "missing_vfs_entry") \in Rows
      BY RowIsRow DEF Failure
    <2>4. read \in [Workloads -> SUBSET Rows]
      BY <2>3
    <2>5. got' \in [Procs -> [Workloads -> SUBSET Rows]]
      BY <2>2, <2>4
    <2> QED
      BY <2>1, <2>5
  <1> QED
    BY <1>1, <1>2, <1>3, <1>4, <1>5, <1>6, <1>7, <1>8 DEF OneStep

-----------------------------------------------------------------------------
\* What is an invocation's own, no step of another changes.
LEMMA OwnPlaces == ASSUME TypeOK, MoreTypes, NEW q \in Procs, OneStep(q),
                          NEW p \in Procs, p # q
                   PROVE  /\ pc'[p] = pc[p] /\ at'[p] = at[p] /\ result'[p] = result[p]
                          /\ pending'[p] = pending[p] /\ aggregate'[p] = aggregate[p]
                          /\ got'[p] = got[p] /\ answer'[p] = answer[p]
                          /\ disturbed \subseteq disturbed'
  <1> USE DEF TypeOK, MoreTypes, Goto, Touches
  <1>1. CASE Start(q)            BY <1>1 DEF Start
  <1>2. CASE Kill(q)             BY <1>2 DEF Kill
  <1>3. CASE Container(q)        BY <1>3 DEF Container
  <1>4. CASE NoAnalysisSource(q) BY <1>4 DEF NoAnalysisSource
  <1>5. CASE Record(q)           BY <1>5 DEF Record
  <1>6. CASE Create(q)           BY <1>6 DEF Create
  <1>7. CASE Insert(q)           BY <1>7 DEF Insert
  <1>8. CASE NextWorkload(q)     BY <1>8 DEF NextWorkload
  <1>9. CASE Export(q)           BY <1>9 DEF Export
  <1>10. CASE CopyBegins(q)      BY <1>10 DEF CopyBegins
  <1>11. CASE CopyEnds(q)        BY <1>11 DEF CopyEnds
  <1>12. CASE ReadWorkload(q)    BY <1>12 DEF ReadWorkload
  <1>13. CASE ReadCopy(q)        BY <1>13 DEF ReadCopy
  <1> QED
    BY <1>1, <1>2, <1>3, <1>4, <1>5, <1>6, <1>7, <1>8, <1>9, <1>10, <1>11, <1>12, <1>13
    DEF OneStep

\* As long as p stays undisturbed, the others change no file and stay idle.
LEMMA OthersIdle == ASSUME TypeOK, MoreTypes, NEW q \in Procs, OneStep(q),
                           NEW p \in Procs, p # q,
                           pc[p] \in Active, pc[q] \in Idle, p \notin disturbed'
                    PROVE  /\ UNCHANGED << workload_db, vplan_log, compat >>
                           /\ pc'[q] \in Idle
  <1> USE DEF TypeOK, Goto, Touches, Idle
  <1>1. CASE Start(q)            BY <1>1 DEF Start
  <1>2. CASE Kill(q)             BY <1>2 DEF Kill
  <1>3. CASE Container(q)        BY <1>3 DEF Container
  <1>4. CASE NoAnalysisSource(q) BY <1>4 DEF NoAnalysisSource
  <1>5. CASE Record(q)           BY <1>5 DEF Record
  <1>6. CASE Create(q) \/ Insert(q) \/ NextWorkload(q) \/ Export(q) \/ CopyBegins(q)
              \/ CopyEnds(q) \/ ReadWorkload(q) \/ ReadCopy(q)
    BY <1>6 DEF Create, Insert, NextWorkload, Export, CopyBegins, CopyEnds, ReadWorkload, ReadCopy
  <1> QED
    BY <1>1, <1>2, <1>3, <1>4, <1>5, <1>6 DEF OneStep

LEMMA OthersKeep == ASSUME TypeOK, ReadInv, NEW q \in Procs, OneStep(q),
                           NEW p \in Procs, p # q, p \notin disturbed'
                    PROVE  Undisturbed(p)'
  <1>1. /\ pc'[p] = pc[p] /\ at'[p] = at[p] /\ result'[p] = result[p]
        /\ pending'[p] = pending[p] /\ aggregate'[p] = aggregate[p]
        /\ got'[p] = got[p] /\ answer'[p] = answer[p]
        /\ p \notin disturbed
    BY OwnPlaces DEF ReadInv
  <1>2. Undisturbed(p)
    BY <1>1 DEF ReadInv
  <1>3. CASE pc[p] \in Active
    <2>1. Quiet(p)
      BY <1>2, <1>3 DEF Undisturbed
    <2>2. UNCHANGED << workload_db, vplan_log, compat >> /\ pc'[q] \in Idle
      BY <1>3, <2>1, OthersIdle DEF ReadInv, Quiet
    <2>3. ASSUME NEW r \in Procs \ {p} PROVE pc'[r] \in Idle
      <3>1. CASE r = q
        BY <2>2, <3>1
      <3>2. CASE r # q
        BY <2>1, <3>2, OwnPlaces DEF ReadInv, Quiet
      <3> QED
        BY <3>1, <3>2
    <2>4. Quiet(p)'
      BY <2>3 DEF Quiet
    <2>5. RowsOf(p)' = RowsOf(p)
      BY <1>1, <2>2 DEF RowsOf
    <2>6. \A w \in Workloads : Whole(p, w)' = Whole(p, w)
      BY <1>1, <2>2 DEF Whole
    <2>7. Loop(p)'
      BY <1>1, <1>2, <2>6 DEF Undisturbed, Loop
    <2>8. Writes(p)'
      BY <1>1, <1>2, <2>2, <2>5 DEF Undisturbed, Writes
    <2>9. Exports(p)'
      BY <1>1, <1>2, <2>6 DEF Undisturbed, Exports
    <2>10. Reads(p)'
      BY <1>1, <1>2, <2>2 DEF Undisturbed, Reads
    <2> QED
      BY <2>4, <2>7, <2>8, <2>9, <2>10 DEF Undisturbed
  <1>4. CASE pc[p] \notin Active
    BY <1>1, <1>2, <1>4 DEF Undisturbed, Loop, Writes, Exports, Reads, Active, Producing
  <1> QED
    BY <1>3, <1>4

-----------------------------------------------------------------------------
\* An invocation's own steps, as long as nobody has disturbed it.
Mine(p) == TypeOK /\ ReadInv /\ p \notin disturbed

\* The places of the others stay what they were.
LEMMA StaysQuiet == ASSUME NEW p \in Procs, Mine(p), OneStep(p), pc[p] \in Active
                    PROVE  Quiet(p)'
  <1>1. Quiet(p)
    BY DEF Mine, ReadInv, Undisturbed
  <1> QED
    BY <1>1, OwnPlaces DEF Mine, ReadInv, Quiet

LEMMA StartKeeps == ASSUME NEW p \in Procs, Mine(p), Start(p), p \notin disturbed'
                    PROVE  Undisturbed(p)'
  <1>1. pc[p] = "off" /\ pc' = [pc EXCEPT ![p] = "container"] /\ at' = at /\ at[p] = 1
    BY DEF Start, Goto, Mine, ReadInv
  <1>2. \A q \in Procs : pc[q] \notin Active
    BY DEF Start, Mine
  <1>3. Quiet(p)'
    BY <1>1, <1>2 DEF Quiet, Idle, Active, Producing, Mine, TypeOK
  <1> QED
    BY <1>1, <1>3 DEF Undisturbed, Loop, Writes, Exports, Reads, Mine, TypeOK, Workloads

LEMMA KillKeeps == ASSUME NEW p \in Procs, Mine(p), Kill(p)
                   PROVE  Undisturbed(p)'
  <1>1. pc'[p] = "killed"
    BY DEF Kill, Goto, Mine, TypeOK
  <1> QED
    BY <1>1 DEF Undisturbed, Loop, Writes, Exports, Reads, Active, Producing

LEMMA AnswerKeeps == ASSUME NEW p \in Procs, Mine(p), Container(p) \/ NoAnalysisSource(p)
                     PROVE  Undisturbed(p)'
  <1> DEFINE w == at[p]
  <1>1. /\ pc[p] = "container" /\ pc' = [pc EXCEPT ![p] = "record"]
        /\ UNCHANGED << at, workload_db >>
    BY DEF Container, NoAnalysisSource, Goto
  <1>2. w \in Workloads /\ Loop(p)
    BY DEF Mine, TypeOK, ReadInv, Undisturbed
  <1>3. answer'[p][w] = RowsOf(p)'
    <2>1. CASE NoAnalysisSource(p)
      <3>1. result'[p] = [exit |-> 0, ran |-> FALSE] /\ answer' = [answer EXCEPT ![p][w] = Said(p, {})]
        BY <2>1 DEF NoAnalysisSource, Mine, TypeOK
      <3>2. RowsOf(p)' = Said(p, {})
        BY <3>1 DEF RowsOf, Said
      <3> QED
        BY <1>2, <3>1, <3>2 DEF Mine, ReadInv, MoreTypes
    <2>2. CASE Container(p) /\ UNCHANGED vplan_log /\ result'[p] = [exit |-> 1, ran |-> TRUE]
               /\ answer' = [answer EXCEPT ![p][w] = {Row(p, "vplan_failed")}]
      <3>1. RowsOf(p)' = {Row(p, "vplan_failed")}
        BY <2>2 DEF RowsOf
      <3> QED
        BY <1>2, <2>2, <3>1 DEF Mine, ReadInv, MoreTypes
    <2>3. ASSUME NEW found \in SUBSET VFs, NEW exit \in {0, 1},
                 vplan_log' = [vplan_log EXCEPT ![w] = found],
                 result'[p] = [exit |-> exit, ran |-> TRUE],
                 answer' = [answer EXCEPT ![p][w] =
                              IF exit = 0 THEN Said(p, found) ELSE {Row(p, "vplan_failed")}]
          PROVE  answer'[p][w] = RowsOf(p)'
      <3>1. vplan_log'[at'[p]] = found
        BY <1>1, <1>2, <2>3 DEF Mine, TypeOK
      <3>2. RowsOf(p)' = IF exit = 0 THEN Said(p, found) ELSE {Row(p, "vplan_failed")}
        <4>1. result'[p].exit = exit /\ result'[p].ran
          BY <2>3
        <4>2. RowsOf(p)' = IF exit # 0 THEN {Row(p, "vplan_failed")} ELSE Said(p, vplan_log'[at'[p]])
          BY <4>1 DEF RowsOf, Said
        <4> QED
          BY <3>1, <4>2
      <3> DEFINE S == IF exit = 0 THEN Said(p, found) ELSE {Row(p, "vplan_failed")}
      <3>3. S \in SUBSET Rows
        BY SaysSomething DEF Mine
      <3>4. answer \in [Procs -> [Workloads -> SUBSET Rows]] /\ answer' = [answer EXCEPT ![p][w] = S]
        BY <2>3 DEF Mine, ReadInv, MoreTypes
      <3>5. answer'[p][w] = S
        BY <1>2, <3>3, <3>4, PutInPlace
      <3> QED
        BY <3>2, <3>5
    <2>4. CASE Container(p)
      BY <2>2, <2>3, <2>4 DEF Container, Mine, TypeOK
    <2> QED
      BY <2>1, <2>4
  <1>4. \A x \in Workloads \ {w} : answer'[p][x] = answer[p][x]
    BY <1>2 DEF Container, NoAnalysisSource, Mine, ReadInv, MoreTypes
  <1>5. Loop(p)'
    <2>1. \A x \in Workloads : x < w => x # w
      BY <1>2 DEF Workloads
    <2> QED
      BY <1>1, <1>2, <1>4, <2>1 DEF Loop, Whole, Mine, TypeOK
  <1>6. pc'[p] = "record" /\ at'[p] = w
    BY <1>1 DEF Mine, TypeOK
  <1>7. Quiet(p)'
    BY <1>1, StaysQuiet DEF OneStep, Active, Producing
  <1> QED
    BY <1>3, <1>5, <1>6, <1>7 DEF Undisturbed, Writes, Exports, Reads

\* A step on the file of the workload p is at leaves the earlier files alone.
LEMMA EarlierFiles == ASSUME NEW p \in Procs, Mine(p), Loop(p),
                             pc[p] \in {"record", "create", "insert"},
                             \A x \in Workloads \ {at[p]} : workload_db'[x] = workload_db[x],
                             at'[p] = at[p], answer'[p] = answer[p]
                      PROVE  Loop(p)'
  <1>1. \A x \in Workloads : x < at[p] => x # at[p]
    BY DEF Mine, TypeOK, Workloads
  <1>2. \A x \in Workloads : x < at[p] => workload_db'[x] = workload_db[x]
    BY <1>1
  <1> QED
    BY <1>2 DEF Loop, Whole

LEMMA RecordAlone == ASSUME NEW p \in Procs, Mine(p), Record(p)
                     PROVE  Undisturbed(p)'
  <1>1. Quiet(p)'
    BY StaysQuiet DEF OneStep, Record, Active, Producing
  <1>2. Loop(p) /\ Writes(p)
    BY DEF Mine, ReadInv, Undisturbed
  <1>3. /\ pc[p] = "record" /\ pc'[p] = "create" /\ at' = at /\ answer' = answer
        /\ pending'[p] = RowsOf(p)
        /\ workload_db' = [workload_db EXCEPT ![at[p]] = NoFile]
    BY DEF Record, Goto, Unlinked, Mine, TypeOK
  <1>4. /\ workload_db'[at[p]] = NoFile
        /\ \A x \in Workloads \ {at[p]} : workload_db'[x] = workload_db[x]
    BY <1>3 DEF Mine, TypeOK
  <1>6. Loop(p)'
    BY <1>2, <1>3, <1>4, EarlierFiles
  <1>5. answer[p][at[p]] = RowsOf(p) /\ RowsOf(p) # {}
    BY <1>2, <1>3, SaysSomething DEF Writes, Mine
  <1> QED
    BY <1>1, <1>3, <1>4, <1>5, <1>6 DEF Undisturbed, Writes, Exports, Reads

LEMMA CreateAlone == ASSUME NEW p \in Procs, Mine(p), Create(p)
                     PROVE  Undisturbed(p)'
  <1>1. Quiet(p)'
    BY StaysQuiet DEF OneStep, Create, Active, Producing
  <1>2. Loop(p) /\ Writes(p)
    BY DEF Mine, ReadInv, Undisturbed
  <1>3. ~workload_db[at[p]].table
    BY <1>2 DEF Create, Writes, NoFile
  <1>4. /\ pc[p] = "create" /\ pc'[p] = "insert" /\ at' = at /\ answer' = answer
        /\ pending' = pending
        /\ workload_db' = [workload_db EXCEPT ![at[p]] = [by |-> p, table |-> TRUE, rows |-> {}]]
    BY <1>3 DEF Create, Goto, Mine, TypeOK
  <1>5. /\ workload_db'[at[p]] = [by |-> p, table |-> TRUE, rows |-> {}]
        /\ \A x \in Workloads \ {at[p]} : workload_db'[x] = workload_db[x]
    BY <1>4 DEF Mine, TypeOK
  <1>7. Loop(p)'
    BY <1>2, <1>4, <1>5, EarlierFiles
  <1>6. answer[p][at[p]] # {} /\ pending[p] = answer[p][at[p]]
    BY <1>2, <1>4 DEF Writes
  <1> QED
    BY <1>1, <1>4, <1>5, <1>6, <1>7 DEF Undisturbed, Writes, Exports, Reads

LEMMA InsertAlone == ASSUME NEW p \in Procs, Mine(p), Insert(p)
                     PROVE  Undisturbed(p)'
  <1>1. Quiet(p)'
    BY StaysQuiet DEF OneStep, Insert, Active, Producing
  <1>2. Loop(p) /\ Writes(p)
    BY DEF Mine, ReadInv, Undisturbed
  <1>3. /\ pc[p] = "insert" /\ pc'[p] = "insert" /\ at' = at /\ answer' = answer
    BY DEF Insert, Mine, TypeOK
  <1>4. /\ answer[p][at[p]] # {} /\ workload_db[at[p]].by = p /\ workload_db[at[p]].table
        /\ workload_db[at[p]].rows \cup pending[p] = answer[p][at[p]]
    BY <1>2, <1>3 DEF Writes
  <1>5. PICK row \in pending[p] :
          /\ pending' = [pending EXCEPT ![p] = @ \ {row}]
          /\ workload_db' = [workload_db EXCEPT ![at[p]].rows = @ \cup {row}]
    BY <1>4 DEF Insert
  <1> DEFINE f == [workload_db[at[p]] EXCEPT !.rows = @ \cup {row}]
  <1>6. workload_db' = [workload_db EXCEPT ![at[p]] = f]
    BY <1>5
  <1>7. /\ workload_db'[at[p]] = f
        /\ \A x \in Workloads \ {at[p]} : workload_db'[x] = workload_db[x]
    BY <1>6 DEF Mine, TypeOK
  <1>11. Loop(p)'
    BY <1>2, <1>3, <1>7, EarlierFiles
  <1>8. f.by = p /\ f.table /\ f.rows = workload_db[at[p]].rows \cup {row}
    BY <1>4 DEF Mine, TypeOK
  <1>9. pending'[p] = pending[p] \ {row}
    BY <1>5 DEF Mine, TypeOK
  <1>10. f.rows \cup pending'[p] = answer[p][at[p]]
    BY <1>4, <1>8, <1>9
  <1> QED
    BY <1>1, <1>3, <1>4, <1>7, <1>8, <1>10, <1>11 DEF Undisturbed, Writes, Exports, Reads

LEMMA NextAlone == ASSUME NEW p \in Procs, Mine(p), NextWorkload(p)
                   PROVE  Undisturbed(p)'
  <1> USE ProductionAssumption
  <1>1. Quiet(p)'
    BY StaysQuiet DEF OneStep, NextWorkload, Active, Producing
  <1>2. Loop(p) /\ Writes(p)
    BY DEF Mine, ReadInv, Undisturbed
  <1>3. pc[p] = "insert" /\ pending[p] = {} /\ answer' = answer /\ workload_db' = workload_db
    BY DEF NextWorkload
  <1>4. Whole(p, at[p])
    <2>1. workload_db[at[p]] = [by |-> p, table |-> TRUE, rows |-> answer[p][at[p]]]
      BY <1>2, <1>3 DEF Writes, Mine, TypeOK
    <2> QED
      BY <1>2, <1>3, <2>1 DEF Writes, Whole
  <1>5. \A w \in Workloads : w <= at[p] => Whole(p, w)
    BY <1>2, <1>3, <1>4 DEF Loop, Mine, TypeOK, Workloads
  <1>6. \A w \in Workloads : Whole(p, w)' = Whole(p, w)
    BY <1>3 DEF Whole
  <1>7. CASE at[p] < Benches
    <2>1. at'[p] = at[p] + 1 /\ pc'[p] = "container"
      BY <1>7 DEF NextWorkload, Goto, Mine, TypeOK
    <2>2. Loop(p)'
      BY <1>5, <1>6, <2>1 DEF Loop, Mine, TypeOK, Workloads
    <2> QED
      BY <1>1, <2>1, <2>2 DEF Undisturbed, Writes, Exports, Reads
  <1>8. CASE ~(at[p] < Benches)
    <2>1. at'[p] = 1 /\ pc'[p] = "export"
      BY <1>8 DEF NextWorkload, Goto, Mine, TypeOK
    <2>2. \A w \in Workloads : Whole(p, w)'
      BY <1>5, <1>6, <1>8 DEF Mine, TypeOK, Workloads
    <2>3. Exports(p)'
      BY <2>1, <2>2 DEF Exports, Workloads
    <2> QED
      BY <1>1, <2>1, <2>3 DEF Undisturbed, Loop, Writes, Reads
  <1> QED
    BY <1>7, <1>8

LEMMA ExportAlone == ASSUME NEW p \in Procs, Mine(p), Export(p)
                     PROVE  Undisturbed(p)'
  <1> USE ProductionAssumption
  <1>1. Quiet(p)'
    BY StaysQuiet DEF OneStep, Export, Active, Producing
  <1>2. pc[p] = "export" /\ Exports(p)
    BY DEF Export, Mine, ReadInv, Undisturbed
  <1>3. \A w \in Workloads : Whole(p, w)
    BY <1>2 DEF Exports
  <1>4. workload_db[at[p]].table /\ workload_db[at[p]].rows = answer[p][at[p]]
    BY <1>3 DEF Whole, Mine, TypeOK
  <1>5. /\ aggregate' = [aggregate EXCEPT ![p][at[p]] = answer[p][at[p]]]
        /\ answer' = answer /\ workload_db' = workload_db
    BY <1>4 DEF Export
  <1>6. /\ at[p] \in Workloads /\ answer[p][at[p]] \in SUBSET Rows
        /\ aggregate \in [Procs -> [Workloads -> SUBSET Rows]]
        /\ answer[p] \in [Workloads -> SUBSET Rows]
    BY DEF Mine, TypeOK, ReadInv, MoreTypes
  <1>7. /\ aggregate' \in [Procs -> [Workloads -> SUBSET Rows]]
        /\ aggregate'[p][at[p]] = answer[p][at[p]]
        /\ \A x \in Workloads \ {at[p]} : aggregate'[p][x] = aggregate[p][x]
    BY <1>5, <1>6, PutInPlace
  <1>8. \A w \in Workloads : w <= at[p] => aggregate'[p][w] = answer[p][w]
    BY <1>2, <1>6, <1>7 DEF Exports, Workloads
  <1>9. \A w \in Workloads : Whole(p, w)'
    BY <1>3, <1>5 DEF Whole
  <1>10. CASE at[p] < Benches
    <2>1. at'[p] = at[p] + 1 /\ pc'[p] = "export"
      BY <1>2, <1>4, <1>10 DEF Export, Mine, TypeOK
    <2>2. \A w \in Workloads : w < at'[p] => aggregate'[p][w] = answer'[p][w]
      BY <1>5, <1>6, <1>8, <2>1 DEF Workloads
    <2> QED
      BY <1>1, <1>9, <2>1, <2>2 DEF Undisturbed, Loop, Writes, Exports, Reads
  <1>11. CASE ~(at[p] < Benches)
    <2>1. at'[p] = 1 /\ pc'[p] = "copy"
      BY <1>4, <1>11 DEF Export, Goto, Mine, TypeOK
    <2>2. \A w \in Workloads : aggregate'[p][w] = answer[p][w]
      BY <1>6, <1>8, <1>11 DEF Workloads
    <2>3. aggregate'[p] = answer'[p]
      <3>1. aggregate'[p] \in [Workloads -> SUBSET Rows] /\ answer'[p] = answer[p]
        BY <1>5, <1>7
      <3> QED
        BY <1>6, <2>2, <3>1
    <2> QED
      BY <1>1, <1>9, <2>1, <2>3 DEF Undisturbed, Loop, Writes, Exports, Reads
  <1> QED
    BY <1>10, <1>11

LEMMA CopyAlone == ASSUME NEW p \in Procs, Mine(p), CopyBegins(p) \/ CopyEnds(p)
                   PROVE  Undisturbed(p)'
  <1> USE ProductionAssumption
  <1>1. pc[p] \in {"copy", "copying"} /\ Quiet(p) /\ Exports(p)
    BY DEF CopyBegins, CopyEnds, Mine, ReadInv, Undisturbed, Active, Producing
  <1>2. Quiet(p)'
    BY <1>1, StaysQuiet DEF OneStep, Active, Producing
  <1>3. /\ at[p] = 1 /\ aggregate[p] = answer[p]
        /\ \A w \in Workloads : Whole(p, w)
    BY <1>1 DEF Exports
  <1>4. UNCHANGED << at, aggregate, answer, workload_db, got >>
    BY DEF CopyBegins, CopyEnds
  <1>5. \A w \in Workloads : Whole(p, w)'
    BY <1>3, <1>4 DEF Whole
  <1>6. CASE CopyBegins(p)
    <2>1. pc'[p] = "copying"
      BY <1>6 DEF CopyBegins, Goto, Mine, TypeOK
    <2> QED
      BY <1>2, <1>3, <1>4, <1>5, <2>1 DEF Undisturbed, Loop, Writes, Exports, Reads
  <1>7. CASE CopyEnds(p)
    <2>1. pc'[p] = "read"
      BY <1>7 DEF CopyEnds, Goto, Mine, TypeOK
    <2>2. \A q \in Procs \ {p} : pc[q] # "copying"
      BY <1>1 DEF Quiet, Idle
    <2>3. compat' = [compat EXCEPT ![ArchOf[p]] = [state |-> "whole", rows |-> aggregate[p]]]
      BY <1>7, <2>2 DEF CopyEnds
    <2>4. compat'[ArchOf[p]] = [state |-> "whole", rows |-> answer'[p]]
      BY <1>3, <1>4, <2>3 DEF Mine, ReadInv, MoreTypes
    <2>5. \A w \in Workloads : ~(w < at'[p])
      BY <1>3, <1>4 DEF Workloads
    <2> QED
      BY <1>2, <1>3, <1>4, <1>5, <2>1, <2>4, <2>5 DEF Undisturbed, Loop, Writes, Exports, Reads
  <1> QED
    BY <1>6, <1>7

LEMMA ReadWorkloadAlone == ASSUME NEW p \in Procs, Mine(p), ReadWorkload(p)
                           PROVE  Undisturbed(p)'
  <1> USE ProductionAssumption
  <1>1. Quiet(p)' /\ pc[p] = "read" /\ Exports(p) /\ Reads(p)
    BY StaysQuiet DEF ReadWorkload, Mine, ReadInv, Undisturbed, OneStep, Active
  <1>2. /\ at[p] \in Workloads /\ answer[p][at[p]] \in SUBSET Rows
        /\ got \in [Procs -> [Workloads -> SUBSET Rows]]
        /\ answer[p] \in [Workloads -> SUBSET Rows]
    BY DEF Mine, TypeOK, ReadInv, MoreTypes
  <1>3. UNCHANGED << aggregate, answer, workload_db, compat >>
    BY DEF ReadWorkload
  <1>4. workload_db[at[p]] = [by |-> p, table |-> TRUE, rows |-> answer[p][at[p]]] /\ p # Nobody
    BY <1>1, <1>2 DEF Exports, Whole
  <1>5. got' = [got EXCEPT ![p][at[p]] = answer[p][at[p]]]
    BY <1>4 DEF ReadWorkload
  <1>6. /\ got' \in [Procs -> [Workloads -> SUBSET Rows]]
        /\ got'[p][at[p]] = answer[p][at[p]]
        /\ \A x \in Workloads \ {at[p]} : got'[p][x] = got[p][x]
    BY <1>2, <1>5, PutInPlace
  <1>7. \A w \in Workloads : w <= at[p] => got'[p][w] = answer[p][w]
    BY <1>1, <1>2, <1>6 DEF Reads, Workloads
  <1>8. (\A w \in Workloads : Whole(p, w)') /\ aggregate'[p] = answer'[p]
    BY <1>1, <1>3 DEF Exports, Whole
  <1>9. CASE at[p] < Benches
    <2>1. at'[p] = at[p] + 1 /\ pc'[p] = "read"
      BY <1>1, <1>4, <1>9 DEF ReadWorkload, Mine, TypeOK
    <2>2. \A w \in Workloads : w < at'[p] => got'[p][w] = answer'[p][w]
      BY <1>2, <1>3, <1>7, <2>1 DEF Workloads
    <2>3. compat'[ArchOf[p]] = [state |-> "whole", rows |-> answer'[p]]
      BY <1>1, <1>3 DEF Reads
    <2> QED
      BY <1>1, <1>8, <2>1, <2>2, <2>3 DEF Undisturbed, Loop, Writes, Exports, Reads
  <1>10. CASE ~(at[p] < Benches)
    <2>1. pc'[p] = "done"
      BY <1>4, <1>10 DEF ReadWorkload, Goto, Mine, TypeOK
    <2>2. \A w \in Workloads : got'[p][w] = answer[p][w]
      BY <1>2, <1>7, <1>10 DEF Workloads
    <2>3. got'[p] = answer'[p]
      BY <1>2, <1>3, <1>6, <2>2
    <2> QED
      BY <1>1, <2>1, <2>3 DEF Undisturbed, Loop, Writes, Exports, Reads
  <1> QED
    BY <1>9, <1>10

LEMMA ReadCopyAlone == ASSUME NEW p \in Procs, Mine(p), ReadCopy(p)
                       PROVE  Undisturbed(p)'
  <1>1. Quiet(p)' /\ pc[p] = "read" /\ Exports(p) /\ Reads(p)
    BY StaysQuiet DEF ReadCopy, Mine, ReadInv, Undisturbed, OneStep, Active
  <1>2. compat["intel"] = [state |-> "whole", rows |-> answer[p]]
    BY <1>1 DEF ReadCopy, Reads
  <1>3. answer[p] \in [Workloads -> SUBSET Rows] /\ \A w \in Workloads : answer[p][w] # {}
    BY <1>1 DEF Exports, Whole, Mine, ReadInv, MoreTypes
  <1>4. got' = [got EXCEPT ![p] = [w \in Workloads |-> answer[p][w]]]
    BY <1>2, <1>3 DEF ReadCopy
  <1>5. got'[p] = answer'[p]
    BY <1>3, <1>4 DEF ReadCopy, Mine, ReadInv, MoreTypes
  <1>6. pc'[p] = "done"
    BY <1>2 DEF ReadCopy, Goto, Mine, TypeOK
  <1> QED
    BY <1>1, <1>5, <1>6 DEF Undisturbed, Loop, Writes, Exports, Reads

LEMMA StepReadInv == TypeOK /\ ReadInv /\ [Next]_vars => ReadInv'
  <1> SUFFICES ASSUME TypeOK, ReadInv, [Next]_vars PROVE ReadInv'
    OBVIOUS
  <1>1. CASE UNCHANGED vars
    <2> USE <1>1 DEF vars
    <2>1. MoreTypes' /\ disturbed' = disturbed /\ pc' = pc /\ at' = at
      BY DEF ReadInv, MoreTypes
    <2>2. ASSUME NEW p \in Procs \ disturbed PROVE Undisturbed(p)'
      <3>1. Undisturbed(p) /\ RowsOf(p)' = RowsOf(p)
        BY DEF ReadInv, RowsOf
      <3>2. \A w \in Workloads : Whole(p, w)' = Whole(p, w)
        BY DEF Whole
      <3>3. Quiet(p)' = Quiet(p) /\ Loop(p)' = Loop(p) /\ Exports(p)' = Exports(p)
        BY <3>2 DEF Quiet, Loop, Exports
      <3>4. Writes(p)' = Writes(p) /\ Reads(p)' = Reads(p)
        BY <3>1 DEF Writes, Reads
      <3> QED
        BY <3>1, <3>3, <3>4 DEF Undisturbed
    <2> QED
      BY <2>1, <2>2 DEF ReadInv
  <1>2. ASSUME NEW q \in Procs, OneStep(q) PROVE ReadInv'
    <2>1. MoreTypes' /\ MoreTypes
      BY <1>2, MoreTypesStep DEF ReadInv
    <2>2. ASSUME NEW p \in Procs, pc'[p] = "off" PROVE at'[p] = 1
      <3>1. CASE p = q
        BY <1>2, <2>2, <3>1 DEF OneStep, TypeOK, Goto, Start, Kill, Container, NoAnalysisSource,
           Record, Create, Insert, NextWorkload, Export, CopyBegins, CopyEnds, ReadWorkload, ReadCopy
      <3>2. CASE p # q
        BY <1>2, <2>1, <2>2, <3>2, OwnPlaces DEF ReadInv
      <3> QED
        BY <3>1, <3>2
    <2>3. ASSUME NEW p \in Procs, p \notin disturbed' PROVE Undisturbed(p)'
      <3>1. CASE p # q
        BY <1>2, <2>3, <3>1, OthersKeep
      <3>2. CASE p = q
        <4>1. disturbed \subseteq disturbed'
          BY <1>2 DEF OneStep, Touches, Start, Kill, Container, NoAnalysisSource, Record, Create,
             Insert, NextWorkload, Export, CopyBegins, CopyEnds, ReadWorkload, ReadCopy
        <4>2. Mine(p)
          BY <2>3, <4>1 DEF Mine
        <4> QED
          BY <1>2, <2>3, <3>2, <4>2, StartKeeps, KillKeeps, AnswerKeeps, RecordAlone, CreateAlone,
             InsertAlone, NextAlone, ExportAlone, CopyAlone, ReadWorkloadAlone, ReadCopyAlone
          DEF OneStep
      <3> QED
        BY <3>1, <3>2
    <2> QED
      BY <2>1, <2>2, <2>3 DEF ReadInv
  <1> QED
    BY <1>1, <1>2 DEF Next, OneStep

(* The second half of an undisturbed make reads, for every workload, exactly *)
(* what the containers of its first half said, and never ends in an error,   *)
(* for every number of invocations, workloads and factors.                   *)
THEOREM ReadsWhatItSaid == Spec => []ReadsItsOwn
  <1>1. TypeOK /\ ReadInv => ReadsItsOwn
    BY DEF ReadInv, Undisturbed, Reads, ReadsItsOwn
  <1> QED
    BY <1>1, InitReadInv, InitIInv, StepReadInv, TypeStep, PTL DEF Spec, IInv
=============================================================================
