------------------------------ MODULE VfProofs ------------------------------
(***************************************************************************)
(* The safety properties of VfPipeline hold for any number of benchmarks,  *)
(* lengths, factors, edits and sessions.  The inductive invariant IInv     *)
(* adds to each property what the session holds in memory: the codes it    *)
(* will store are codes that were seen, the objects it will link are of    *)
(* its own length, and the row it will write has its default row already.  *)
(***************************************************************************)
EXTENDS VfPipeline, TLAPS

IInv == TypeOK /\ KnownInv /\ LinkInv /\ RowInv /\ DeltaIsOwn /\ NoCacheMeasures

\* The values the actions store.
LEMMA StoredTypes ==
    /\ NoRun \in Run
    /\ Absent \in Files
    /\ \A code \in Code \cup {NoCode} :
          code \in Analysis /\ [there |-> TRUE, whole |-> FALSE, code |-> code] \in Files
    /\ \A f \in Files : f.code \in Code \cup {NoCode} /\ [f EXCEPT !.whole = TRUE] \in Files
<1>1. NoRun \in Run
    BY VfAssumption DEF NoRun, Run
<1>2. Absent \in Files
    BY DEF Absent, Files
<1>3. ASSUME NEW code \in Code \cup {NoCode}
      PROVE  code \in Analysis /\ [there |-> TRUE, whole |-> FALSE, code |-> code] \in Files
    BY DEF Files, Analysis
<1>4. ASSUME NEW f \in Files
      PROVE  f.code \in Code \cup {NoCode} /\ [f EXCEPT !.whole = TRUE] \in Files
    BY DEF Files
<1>5. QED
    BY <1>1, <1>2, <1>3, <1>4

LEMMA CurrentType ==
    ASSUME TypeOK, NEW b \in Benchmarks
    PROVE  Current(b) \in Code
BY DEF TypeOK, Current, Code

LEMMA RunTypes ==
    ASSUME NEW r \in Run
    PROVE  /\ \A code \in Code \cup {NoCode} : [r EXCEPT !.verified = code] \in Run
           /\ \A code \in Code \cup {NoCode}, l \in Lens : [r EXCEPT !.built = code, !.support = l] \in Run
           /\ \A n \in 0..MaxSessions : [r EXCEPT !.cycles = n] \in Run /\ [r EXCEPT !.base = n] \in Run
           /\ r.cycles \in 0..MaxSessions
BY DEF Run

\* A delta keeps the type.
LEMMA BaselineType ==
    ASSUME TypeOK, NEW b \in Benchmarks, NEW c \in Choices, NEW r \in Run,
           c # Default => rows[b][Default] # Nothing
    PROVE  WithBaseline(b, c, r) \in Run
<1>1. CASE c = Default
    BY <1>1 DEF WithBaseline
<1>2. CASE c # Default
  <2>1. rows[b][Default] \in Run
    BY <1>2 DEF TypeOK, Choices
  <2>2. rows[b][Default].cycles \in 0..MaxSessions
    BY <2>1, RunTypes
  <2>3. [r EXCEPT !.base = rows[b][Default].cycles] \in Run
    BY <2>2, RunTypes
  <2>4. QED
    BY <2>3 DEF WithBaseline
<1>3. QED
    BY <1>1, <1>2

\* The memory of a fresh process has the right types.
LEMMA FreshTypes ==
    ASSUME NothingYet
    PROVE  /\ pc' \in [Benchmarks -> Places] /\ request' \in [Benchmarks -> Choices]
           /\ result' \in [Benchmarks -> Run] /\ prevec_cache' \subseteq Benchmarks
           /\ analyses' \in [Benchmarks -> Analysis \cup {Nothing}]
           /\ rows' \in [Benchmarks -> [Choices -> Run \cup {Nothing}]]
BY StoredTypes DEF NothingYet, Places, Choices

\* How a failure in _ensure_prevec leaves the session.
LEMMA PrevecFailedTypes ==
    ASSUME TypeOK, NEW b \in Benchmarks, PrevecFailed(b)
    PROVE  /\ phase' \in Ended \cup {"analyze", "run"}
           /\ pc' \in [Benchmarks -> Places] /\ request' \in [Benchmarks -> Choices]
           /\ result' \in [Benchmarks -> Run] /\ prevec_cache' \subseteq Benchmarks
           /\ analyses' \in [Benchmarks -> Analysis \cup {Nothing}]
           /\ rows' \in [Benchmarks -> [Choices -> Run \cup {Nothing}]]
           /\ analysis_json' \in [Benchmarks \X Lens -> Analysis \cup {Nothing}]
<1>1. CASE phase = "analyze"
  <2>1. NoCode \in Analysis
    BY StoredTypes
  <2>2. /\ pc' = [pc EXCEPT ![b] = "save"]
        /\ analyses' = [analyses EXCEPT ![b] = NoCode]
        /\ analysis_json' = [analysis_json EXCEPT ![<<b, len>>] = Nothing]
        /\ UNCHANGED <<phase, request, result, prevec_cache, rows>>
    BY <1>1 DEF PrevecFailed, Goto, AnalysisKey
  <2>3. pc' \in [Benchmarks -> Places]
    <3>1. "save" \in Places
      BY DEF Places
    <3>2. QED
      BY <2>2, <3>1 DEF TypeOK
  <2>4. analyses' \in [Benchmarks -> Analysis \cup {Nothing}]
    BY <2>1, <2>2 DEF TypeOK
  <2>5. analysis_json' \in [Benchmarks \X Lens -> Analysis \cup {Nothing}]
    BY <2>2 DEF TypeOK
  <2>6. phase' \in Ended \cup {"analyze", "run"}
    BY <2>2 DEF TypeOK
  <2>7. QED
    BY <2>2, <2>3, <2>4, <2>5, <2>6 DEF TypeOK
<1>2. CASE phase = "run"
  <2>1. NothingYet /\ phase' = "failed" /\ analysis_json' = analysis_json
    BY <1>2 DEF PrevecFailed
  <2>2. QED
    BY <2>1, FreshTypes DEF TypeOK, Ended
<1>3. QED
    BY <1>1, <1>2 DEF PrevecFailed

\* Writing the work files: compile_to_ir and the preparation.
LEMMA EnsureTypes ==
    ASSUME TypeOK, NEW b \in Benchmarks,
           \/ StartIR(b) \/ EndIR(b) \/ IRFails(b)
           \/ StartPrevec(b) \/ EndPrevec(b) \/ PrevecFails(b)
    PROVE  TypeOK'
<1>0. /\ ir[b] \in Files /\ prevec[b] \in Files /\ Absent \in Files
      /\ [there |-> TRUE, whole |-> FALSE, code |-> Current(b)] \in Files
      /\ [there |-> TRUE, whole |-> FALSE, code |-> ir[b].code] \in Files
      /\ [ir[b] EXCEPT !.whole = TRUE] \in Files /\ [prevec[b] EXCEPT !.whole = TRUE] \in Files
  <2>1. ir[b] \in Files /\ prevec[b] \in Files
    BY DEF TypeOK
  <2>2. Current(b) \in Code
    BY CurrentType
  <2>3. QED
    BY <2>1, <2>2, StoredTypes
<1>1. CASE StartIR(b)
  <2>1. ir' \in [Benchmarks -> Files]
    BY <1>0, <1>1 DEF TypeOK, StartIR
  <2>2. pc' \in [Benchmarks -> Places]
    BY <1>1 DEF TypeOK, StartIR, Goto, AfterPrevec, Places
  <2>3. QED
    BY <1>1, <2>1, <2>2 DEF TypeOK, StartIR, static
<1>2. CASE EndIR(b)
    BY <1>0, <1>2 DEF TypeOK, EndIR, Goto, Places, static
<1>3. CASE IRFails(b)
  <2>1. PrevecFailed(b) /\ ir' \in [Benchmarks -> Files]
    BY <1>0, <1>3 DEF TypeOK, IRFails
  <2>2. QED
    BY <1>3, <2>1, PrevecFailedTypes DEF TypeOK, IRFails, static
<1>4. CASE StartPrevec(b)
  <2>1. prevec' \in [Benchmarks -> Files]
    BY <1>0, <1>4 DEF TypeOK, StartPrevec
  <2>2. pc' \in [Benchmarks -> Places]
    BY <1>4 DEF TypeOK, StartPrevec, Goto, AfterPrevec, Places
  <2>3. QED
    BY <1>4, <2>1, <2>2 DEF TypeOK, StartPrevec, static
<1>5. CASE EndPrevec(b)
    BY <1>0, <1>5 DEF TypeOK, EndPrevec, Goto, AfterPrevec, Places, static
<1>6. CASE PrevecFails(b)
  <2>1. PrevecFailed(b) /\ prevec' \in [Benchmarks -> Files]
    BY <1>0, <1>6 DEF TypeOK, PrevecFails
  <2>2. QED
    BY <1>6, <2>1, PrevecFailedTypes DEF TypeOK, PrevecFails, static
<1>7. QED
    BY <1>1, <1>2, <1>3, <1>4, <1>5, <1>6

\* The analyses.
LEMMA AnalyzeTypes ==
    ASSUME TypeOK, NEW b \in Benchmarks, LoadAnalysis(b) \/ Explain(b) \/ SaveAnalysis(b)
    PROVE  TypeOK'
<1>0. NoCode \in Analysis /\ prevec[b].code \in Analysis
  <2>1. prevec[b] \in Files
    BY DEF TypeOK
  <2>2. QED
    BY <2>1, StoredTypes
<1>1. CASE LoadAnalysis(b)
    BY <1>1 DEF TypeOK, LoadAnalysis, Goto, Places, static, fileVars, AnalysisKey
<1>2. CASE Explain(b)
    BY <1>0, <1>2 DEF TypeOK, Explain, Goto, Places, static, AnalysisKey
<1>3. CASE SaveAnalysis(b)
    BY <1>3 DEF TypeOK, SaveAnalysis, Goto, Places, static, AnalysisKey
<1>4. QED
    BY <1>1, <1>2, <1>3

\* The runs.
LEMMA MeasureTypes ==
    ASSUME TypeOK, RowInv, NEW b \in Benchmarks,
           \/ \E c \in Choices : LoadRun(b, c) \/ StartRun(b, c)
           \/ Verify(b) \/ VerifyFails(b) \/ Build(b) \/ BuildFails(b) \/ Gem5(b) \/ SaveRun(b)
    PROVE  TypeOK'
<1>0. result[b] \in Run
    BY DEF TypeOK
<1>1. ASSUME NEW c \in Choices, LoadRun(b, c)
      PROVE  TypeOK'
  <2>1. run_json[RunKey(b, c)] \in Run
    BY <1>1 DEF TypeOK, LoadRun, CachedRun, RunKey
  <2>2. WithBaseline(b, c, run_json[RunKey(b, c)]) \in Run
    BY <1>1, <2>1, BaselineType DEF LoadRun, Due
  <2>3. QED
    BY <1>1, <2>2 DEF TypeOK, LoadRun, static, fileVars
<1>2. ASSUME NEW c \in Choices, StartRun(b, c)
      PROVE  TypeOK'
    BY <1>2 DEF TypeOK, StartRun, Goto, Places, static, fileVars
<1>3. CASE Verify(b)
  <2>1. prevec[b].code \in Code \cup {NoCode}
    BY StoredTypes DEF TypeOK
  <2>2. [result[b] EXCEPT !.verified = prevec[b].code] \in Run
    BY <1>0, <2>1, RunTypes
  <2>3. QED
    BY <1>3, <2>2 DEF TypeOK, Verify, Goto, Places, static, fileVars
<1>4. CASE VerifyFails(b)
    BY <1>4 DEF TypeOK, VerifyFails, Conclude, Goto, Places, static, RunKey
<1>5. CASE Build(b)
  <2> DEFINE object == IF support[len] = "none" THEN len ELSE support[len]
             r == [result[b] EXCEPT !.built = Current(b), !.support = object]
  <2>1. object \in Lens
    BY DEF TypeOK
  <2>2. r \in Run
    BY <1>0, <2>1, RunTypes, CurrentType
  <2>3. support' = [support EXCEPT ![len] = object] /\ result' = [result EXCEPT ![b] = r]
    BY <1>5 DEF Build, SupportKey
  <2> HIDE DEF object, r
  <2>4. support' \in [Lens -> Lens \cup {"none"}] /\ result' \in [Benchmarks -> Run]
    BY <2>1, <2>2, <2>3 DEF TypeOK
  <2>5. QED
    BY <1>5, <2>4 DEF TypeOK, Build, Goto, Places, static
<1>6. CASE BuildFails(b)
  <2>1. support' \in [Lens -> Lens \cup {"none"}]
    BY <1>6 DEF TypeOK, BuildFails, SupportKey
  <2>2. QED
    BY <1>6, <2>1 DEF TypeOK, BuildFails, Conclude, Goto, Places, static, RunKey
<1>7. CASE Gem5(b)
  <2>1. PICK n \in {0, number} : Conclude(b, [result[b] EXCEPT !.cycles = n])
    BY <1>7 DEF Gem5
  <2>2. n \in 0..MaxSessions
    BY VfAssumption DEF TypeOK
  <2>3. [result[b] EXCEPT !.cycles = n] \in Run
    BY <1>0, <2>2, RunTypes
  <2>4. QED
    BY <1>7, <2>1, <2>3 DEF TypeOK, Gem5, Conclude, Goto, Places, static, RunKey
<1>8. CASE SaveRun(b)
  <2>1. /\ request[b] \in Choices
        /\ request[b] # Default => rows[b][Default] # Nothing
    BY <1>8 DEF TypeOK, SaveRun, RowInv, At
  <2>2. WithBaseline(b, request[b], result[b]) \in Run /\ NoRun \in Run /\ Default \in Choices
    BY <1>0, <2>1, BaselineType, StoredTypes DEF Choices
  <2>3. QED
    BY <1>0, <1>8, <2>2 DEF TypeOK, SaveRun, NextRequest, Goto, Places, static, RunKey
<1>9. QED
    BY <1>1, <1>2, <1>3, <1>4, <1>5, <1>6, <1>7, <1>8

\* The world around.
LEMMA WorldTypes ==
    ASSUME TypeOK,
           \/ \E b \in Benchmarks : Edit(b)
           \/ StartRuns \/ Finish \/ NewSession \/ Clean \/ Kill \/ Terminated \/ UNCHANGED vars
    PROVE  TypeOK'
<1>1. ASSUME NEW b \in Benchmarks, Edit(b)
      PROVE  TypeOK'
  <2>1. source[b] + 1 \in 0..MaxVersion
    BY <1>1, VfAssumption DEF TypeOK, Edit
  <2>2. [ver |-> source[b] + 1, len |-> len] \in Code
    BY <2>1 DEF TypeOK, Code
  <2>3. QED
    BY <1>1, <2>1, <2>2 DEF TypeOK, Edit, memVars, fileVars
<1>2. CASE NewSession
  <2>1. \A b \in Benchmarks : [ver |-> source[b], len |-> len'] \in Code
    BY <1>2 DEF TypeOK, NewSession, Code
  <2>2. number' \in 0..MaxSessions
    BY <1>2, VfAssumption DEF TypeOK, NewSession
  <2>3. NothingYet
    BY <1>2 DEF NewSession
  <2>4. QED
    BY <1>2, <2>1, <2>2, <2>3, FreshTypes DEF TypeOK, NewSession, fileVars
<1>3. CASE Clean
  <2>1. NothingYet /\ Absent \in Files
    BY <1>3, StoredTypes DEF Clean
  <2>2. QED
    BY <1>3, <2>1, FreshTypes DEF TypeOK, Clean, Ended
<1>4. CASE Kill
  <2>1. NothingYet
    BY <1>4 DEF Kill
  <2>2. QED
    BY <1>4, <2>1, FreshTypes DEF TypeOK, Kill, Ended, fileVars
<1>5. CASE StartRuns \/ Finish \/ Terminated \/ UNCHANGED vars
    BY <1>5 DEF TypeOK, StartRuns, Finish, Terminated, vars, Ended, static, memVars, fileVars
<1>6. QED
    BY <1>1, <1>2, <1>3, <1>4, <1>5

LEMMA TypeStep ==
    ASSUME IInv, [Next]_vars
    PROVE  TypeOK'
BY EnsureTypes, AnalyzeTypes, MeasureTypes, WorldTypes DEF IInv, Next, Work, World

\* Which fields an update leaves alone.
LEMMA FieldsKept ==
    /\ \A f \in Files : [f EXCEPT !.whole = TRUE].code = f.code
    /\ \A r \in Run : /\ \A x : /\ [r EXCEPT !.verified = x].verified = x
                                /\ [r EXCEPT !.verified = x].built = r.built
                      /\ \A x, y : /\ [r EXCEPT !.built = x, !.support = y].built = x
                                   /\ [r EXCEPT !.built = x, !.support = y].verified = r.verified
                      /\ \A n : /\ [r EXCEPT !.cycles = n].built = r.built
                                /\ [r EXCEPT !.cycles = n].verified = r.verified
                                /\ [r EXCEPT !.base = n].built = r.built
                                /\ [r EXCEPT !.base = n].verified = r.verified
BY DEF Files, Run

LEMMA BaselineKept ==
    ASSUME NEW b \in Benchmarks, NEW c \in Choices, NEW r \in Run
    PROVE  /\ WithBaseline(b, c, r).built = r.built
           /\ WithBaseline(b, c, r).verified = r.verified
BY FieldsKept DEF WithBaseline

\* Every code that is stored anywhere is one the benchmark has had since
\* clean.sh: the steps of a session, which leave the history alone ...
LEMMA KnownWork ==
    ASSUME IInv, NEW b \in Benchmarks, Work(b)
    PROVE  KnownInv'
<1>0. /\ ir \in [Benchmarks -> Files] /\ prevec \in [Benchmarks -> Files]
      /\ result \in [Benchmarks -> Run] /\ request \in [Benchmarks -> Choices]
      /\ analyses \in [Benchmarks -> Analysis \cup {Nothing}]
      /\ rows \in [Benchmarks -> [Choices -> Run \cup {Nothing}]]
      /\ analysis_json \in [Benchmarks \X Lens -> Analysis \cup {Nothing}]
      /\ run_json \in [Benchmarks \X Lens \X Choices -> Run \cup {Nothing}]
      /\ len \in Lens
    BY DEF IInv, TypeOK
<1>1. UNCHANGED <<source, number, len, no_cache, seen>> /\ Running
    BY DEF Work, StartIR, EndIR, IRFails, StartPrevec, EndPrevec, PrevecFails, LoadAnalysis, Explain,
           SaveAnalysis, LoadRun, StartRun, Verify, VerifyFails, Build, BuildFails, Gem5, SaveRun,
           At, Idle, Running, Ended, static
<1>2. \A d \in Benchmarks : Known(d, Current(d)) /\ Known(d, NoCode)
    BY <1>1 DEF IInv, KnownInv, Known
<1>3. \A d, code : Known(d, code)' <=> Known(d, code)
    BY <1>1 DEF Known
<1> DEFINE FilesKnown == \A d \in Benchmarks : Known(d, ir[d].code) /\ Known(d, prevec[d].code)
           MemoryKnown == \A d \in Benchmarks :
                             /\ KnownAnalysis(d, analyses[d]) /\ KnownRun(d, result[d])
                             /\ \A c \in Choices : KnownRun(d, rows[d][c])
           JsonKnown == \A d \in Benchmarks, l \in Lens :
                             /\ KnownAnalysis(d, analysis_json[<<d, l>>])
                             /\ \A c \in Choices : KnownRun(d, run_json[<<d, l, c>>])
<1>4. FilesKnown /\ MemoryKnown /\ JsonKnown
    BY DEF IInv, KnownInv, SinceClean
<1>5. SUFFICES FilesKnown' /\ MemoryKnown' /\ JsonKnown'
  <2>1. \A d \in Benchmarks : Current(d)' = Current(d)
    BY <1>1 DEF Current
  <2>2. \A d \in Benchmarks : Current(d)' \in seen'[d]
    BY <1>1, <2>1 DEF IInv, KnownInv
  <2>3. QED
    BY <2>2 DEF KnownInv, SinceClean
<1>6. CASE StartIR(b)
  <2>1. FilesKnown'
    BY <1>0, <1>2, <1>3, <1>4, <1>6 DEF StartIR
  <2>2. MemoryKnown'
    BY <1>0, <1>2, <1>3, <1>4, <1>6 DEF KnownAnalysis, KnownRun, StartIR
  <2>3. JsonKnown'
    BY <1>0, <1>2, <1>3, <1>4, <1>6 DEF KnownAnalysis, KnownRun, AnalysisKey, RunKey, StartIR
  <2>4. QED
    BY <2>1, <2>2, <2>3
<1>7. CASE EndIR(b)
  <2>1. FilesKnown'
    BY <1>0, <1>2, <1>3, <1>4, <1>7, FieldsKept DEF EndIR
  <2>2. MemoryKnown'
    BY <1>0, <1>2, <1>3, <1>4, <1>7 DEF KnownAnalysis, KnownRun, EndIR
  <2>3. JsonKnown'
    BY <1>0, <1>2, <1>3, <1>4, <1>7 DEF KnownAnalysis, KnownRun, AnalysisKey, RunKey, EndIR
  <2>4. QED
    BY <2>1, <2>2, <2>3
<1>8. CASE IRFails(b)
  <2>1. FilesKnown'
    BY <1>0, <1>2, <1>3, <1>4, <1>8 DEF IRFails, PrevecFailed, NothingYet, Absent, NoRun
  <2>2. MemoryKnown'
    <3>1. CASE phase = "analyze"
      BY <1>0, <1>2, <1>3, <1>4, <1>8, <3>1 DEF KnownAnalysis, KnownRun, IRFails, PrevecFailed
    <3>2. CASE phase = "run"
      BY <1>2, <1>3, <1>8, <3>2 DEF KnownAnalysis, KnownRun, IRFails, PrevecFailed, NothingYet, NoRun
    <3>3. QED
      BY <1>8, <3>1, <3>2 DEF IRFails, PrevecFailed
  <2>3. JsonKnown'
    BY <1>0, <1>2, <1>3, <1>4, <1>8 DEF KnownAnalysis, KnownRun, AnalysisKey, RunKey, IRFails, PrevecFailed, NothingYet, Absent, NoRun
  <2>4. QED
    BY <2>1, <2>2, <2>3
<1>9. CASE StartPrevec(b)
  <2>1. FilesKnown'
    BY <1>0, <1>2, <1>3, <1>4, <1>9 DEF StartPrevec
  <2>2. MemoryKnown'
    BY <1>0, <1>2, <1>3, <1>4, <1>9 DEF KnownAnalysis, KnownRun, StartPrevec
  <2>3. JsonKnown'
    BY <1>0, <1>2, <1>3, <1>4, <1>9 DEF KnownAnalysis, KnownRun, AnalysisKey, RunKey, StartPrevec
  <2>4. QED
    BY <2>1, <2>2, <2>3
<1>10. CASE EndPrevec(b)
  <2>1. FilesKnown'
    BY <1>0, <1>2, <1>3, <1>4, <1>10, FieldsKept DEF EndPrevec
  <2>2. MemoryKnown'
    BY <1>0, <1>2, <1>3, <1>4, <1>10 DEF KnownAnalysis, KnownRun, EndPrevec
  <2>3. JsonKnown'
    BY <1>0, <1>2, <1>3, <1>4, <1>10 DEF KnownAnalysis, KnownRun, AnalysisKey, RunKey, EndPrevec
  <2>4. QED
    BY <2>1, <2>2, <2>3
<1>11. CASE PrevecFails(b)
  <2>1. FilesKnown'
    BY <1>0, <1>2, <1>3, <1>4, <1>11 DEF PrevecFails, PrevecFailed, NothingYet, Absent, NoRun
  <2>2. MemoryKnown'
    <3>1. CASE phase = "analyze"
      BY <1>0, <1>2, <1>3, <1>4, <1>11, <3>1 DEF KnownAnalysis, KnownRun, PrevecFails, PrevecFailed
    <3>2. CASE phase = "run"
      BY <1>2, <1>3, <1>11, <3>2 DEF KnownAnalysis, KnownRun, PrevecFails, PrevecFailed, NothingYet, NoRun
    <3>3. QED
      BY <1>11, <3>1, <3>2 DEF PrevecFails, PrevecFailed
  <2>3. JsonKnown'
    BY <1>0, <1>2, <1>3, <1>4, <1>11 DEF KnownAnalysis, KnownRun, AnalysisKey, RunKey, PrevecFails, PrevecFailed, NothingYet, Absent, NoRun
  <2>4. QED
    BY <2>1, <2>2, <2>3
<1>12. CASE LoadAnalysis(b)
  <2>1. FilesKnown'
    BY <1>0, <1>2, <1>3, <1>4, <1>12 DEF LoadAnalysis, AnalysisKey, fileVars
  <2>2. MemoryKnown'
    <3>1. KnownAnalysis(b, analysis_json[<<b, len>>])
      BY <1>0, <1>4
    <3>2. QED
      BY <1>0, <1>3, <1>4, <1>12, <3>1 DEF KnownAnalysis, KnownRun, LoadAnalysis, AnalysisKey
  <2>3. JsonKnown'
    BY <1>0, <1>2, <1>3, <1>4, <1>12 DEF KnownAnalysis, KnownRun, AnalysisKey, RunKey, LoadAnalysis, AnalysisKey, fileVars
  <2>4. QED
    BY <2>1, <2>2, <2>3
<1>13. CASE Explain(b)
  <2>1. FilesKnown'
    BY <1>0, <1>2, <1>3, <1>4, <1>13 DEF Explain
  <2>2. MemoryKnown'
    BY <1>0, <1>2, <1>3, <1>4, <1>13 DEF KnownAnalysis, KnownRun, Explain
  <2>3. JsonKnown'
    BY <1>0, <1>2, <1>3, <1>4, <1>13 DEF KnownAnalysis, KnownRun, AnalysisKey, RunKey, Explain
  <2>4. QED
    BY <2>1, <2>2, <2>3
<1>14. CASE SaveAnalysis(b)
  <2>1. FilesKnown'
    BY <1>0, <1>2, <1>3, <1>4, <1>14 DEF SaveAnalysis
  <2>2. MemoryKnown'
    BY <1>0, <1>2, <1>3, <1>4, <1>14 DEF KnownAnalysis, KnownRun, SaveAnalysis
  <2>3. JsonKnown'
    BY <1>0, <1>2, <1>3, <1>4, <1>14 DEF KnownAnalysis, KnownRun, AnalysisKey, RunKey, SaveAnalysis
  <2>4. QED
    BY <2>1, <2>2, <2>3
<1>15. ASSUME NEW c \in Choices, LoadRun(b, c)
      PROVE  FilesKnown' /\ MemoryKnown' /\ JsonKnown'
  <2>1. FilesKnown'
    BY <1>0, <1>2, <1>3, <1>4, <1>15 DEF LoadRun, CachedRun, RunKey, fileVars
  <2>2. MemoryKnown'
    <3> DEFINE r == run_json[<<b, len, c>>]
    <3>1. r \in Run /\ Known(b, r.built) /\ Known(b, r.verified)
      BY <1>0, <1>4, <1>15 DEF LoadRun, CachedRun, RunKey, KnownRun
    <3>2. KnownRun(b, WithBaseline(b, c, r))
      BY <3>1, BaselineKept DEF KnownRun
    <3>3. rows' = [rows EXCEPT ![b] = [@ EXCEPT ![c] = WithBaseline(b, c, r)]] /\ UNCHANGED <<analyses, result>>
      BY <1>15 DEF LoadRun, RunKey
    <3> HIDE DEF r
    <3>4. QED
      BY <1>0, <1>3, <1>4, <3>2, <3>3 DEF KnownAnalysis, KnownRun
  <2>3. JsonKnown'
    BY <1>0, <1>2, <1>3, <1>4, <1>15 DEF KnownAnalysis, KnownRun, AnalysisKey, RunKey, LoadRun, CachedRun, RunKey, fileVars
  <2>4. QED
    BY <2>1, <2>2, <2>3
<1>16. ASSUME NEW c \in Choices, StartRun(b, c)
      PROVE  FilesKnown' /\ MemoryKnown' /\ JsonKnown'
  <2>1. FilesKnown'
    BY <1>0, <1>2, <1>3, <1>4, <1>16 DEF StartRun, fileVars
  <2>2. MemoryKnown'
    BY <1>0, <1>2, <1>3, <1>4, <1>16 DEF KnownAnalysis, KnownRun, StartRun, fileVars
  <2>3. JsonKnown'
    BY <1>0, <1>2, <1>3, <1>4, <1>16 DEF KnownAnalysis, KnownRun, AnalysisKey, RunKey, StartRun, fileVars
  <2>4. QED
    BY <2>1, <2>2, <2>3
<1>17. CASE Verify(b)
  <2>1. FilesKnown'
    BY <1>0, <1>2, <1>3, <1>4, <1>17 DEF Verify, fileVars
  <2>2. MemoryKnown'
    <3> DEFINE r == [result[b] EXCEPT !.verified = prevec[b].code]
    <3>1. KnownRun(b, r)
      BY <1>0, <1>4, FieldsKept, VfAssumption DEF KnownRun
    <3>2. result' = [result EXCEPT ![b] = r] /\ UNCHANGED <<analyses, rows>>
      BY <1>17 DEF Verify
    <3> HIDE DEF r
    <3>3. QED
      BY <1>0, <1>3, <1>4, <3>1, <3>2 DEF KnownAnalysis, KnownRun
  <2>3. JsonKnown'
    BY <1>0, <1>2, <1>3, <1>4, <1>17 DEF KnownAnalysis, KnownRun, AnalysisKey, RunKey, Verify, fileVars
  <2>4. QED
    BY <2>1, <2>2, <2>3
<1>18. CASE VerifyFails(b)
  <2>1. FilesKnown'
    BY <1>0, <1>2, <1>3, <1>4, <1>18 DEF VerifyFails, Conclude
  <2>2. MemoryKnown'
    BY <1>0, <1>2, <1>3, <1>4, <1>18 DEF KnownAnalysis, KnownRun, VerifyFails, Conclude
  <2>3. JsonKnown'
    BY <1>0, <1>2, <1>3, <1>4, <1>18 DEF KnownAnalysis, KnownRun, AnalysisKey, RunKey, VerifyFails, Conclude
  <2>4. QED
    BY <2>1, <2>2, <2>3
<1>19. CASE Build(b)
  <2>1. FilesKnown'
    BY <1>0, <1>2, <1>3, <1>4, <1>19 DEF Build
  <2>2. MemoryKnown'
    <3> DEFINE object == IF support[SupportKey(len)] = "none" THEN len ELSE support[SupportKey(len)]
               r == [result[b] EXCEPT !.built = Current(b), !.support = object]
    <3>1. KnownRun(b, r)
      BY <1>0, <1>2, <1>4, FieldsKept, VfAssumption DEF KnownRun
    <3>2. result' = [result EXCEPT ![b] = r] /\ UNCHANGED <<analyses, rows>>
      BY <1>19 DEF Build
    <3> HIDE DEF r
    <3>3. QED
      BY <1>0, <1>3, <1>4, <3>1, <3>2 DEF KnownAnalysis, KnownRun
  <2>3. JsonKnown'
    BY <1>0, <1>2, <1>3, <1>4, <1>19 DEF KnownAnalysis, KnownRun, AnalysisKey, RunKey, Build
  <2>4. QED
    BY <2>1, <2>2, <2>3
<1>20. CASE BuildFails(b)
  <2>1. FilesKnown'
    BY <1>0, <1>2, <1>3, <1>4, <1>20 DEF BuildFails, Conclude
  <2>2. MemoryKnown'
    BY <1>0, <1>2, <1>3, <1>4, <1>20 DEF KnownAnalysis, KnownRun, BuildFails, Conclude
  <2>3. JsonKnown'
    BY <1>0, <1>2, <1>3, <1>4, <1>20 DEF KnownAnalysis, KnownRun, AnalysisKey, RunKey, BuildFails, Conclude
  <2>4. QED
    BY <2>1, <2>2, <2>3
<1>21. CASE Gem5(b)
  <2>1. FilesKnown'
    BY <1>0, <1>2, <1>3, <1>4, <1>21 DEF Gem5, Conclude
  <2>2. MemoryKnown'
    <3>1. PICK n : Conclude(b, [result[b] EXCEPT !.cycles = n])
      BY <1>21 DEF Gem5
    <3> DEFINE r == [result[b] EXCEPT !.cycles = n]
    <3>2. KnownRun(b, r)
      BY <1>0, <1>4, FieldsKept, VfAssumption DEF KnownRun
    <3>3. Conclude(b, r) /\ UNCHANGED <<analyses, rows, analysis_json>>
      BY <1>21, <3>1 DEF Gem5
    <3> HIDE DEF r
    <3>4. QED
      BY <1>0, <1>3, <1>4, <3>2, <3>3 DEF KnownAnalysis, KnownRun, Conclude, RunKey
  <2>3. JsonKnown'
    <3>1. PICK n : Conclude(b, [result[b] EXCEPT !.cycles = n])
      BY <1>21 DEF Gem5
    <3> DEFINE r == [result[b] EXCEPT !.cycles = n]
    <3>2. KnownRun(b, r)
      BY <1>0, <1>4, FieldsKept, VfAssumption DEF KnownRun
    <3>3. Conclude(b, r) /\ UNCHANGED <<analyses, rows, analysis_json>>
      BY <1>21, <3>1 DEF Gem5
    <3> HIDE DEF r
    <3>4. QED
      BY <1>0, <1>3, <1>4, <3>2, <3>3 DEF KnownAnalysis, KnownRun, Conclude, RunKey
  <2>4. QED
    BY <2>1, <2>2, <2>3
<1>22. CASE SaveRun(b)
  <2>1. FilesKnown'
    BY <1>0, <1>2, <1>3, <1>4, <1>22 DEF SaveRun, NextRequest, NoRun
  <2>2. MemoryKnown'
    <3> DEFINE r == WithBaseline(b, request[b], result[b])
    <3>1. KnownRun(b, r)
      BY <1>0, <1>4, BaselineKept, VfAssumption DEF KnownRun
    <3>2. rows' = [rows EXCEPT ![b] = [@ EXCEPT ![request[b]] = r]] /\ UNCHANGED analyses
      BY <1>22 DEF SaveRun
    <3>3. result' = [result EXCEPT ![b] = NoRun] /\ KnownRun(b, NoRun)'
      BY <1>2, <1>3, <1>22 DEF SaveRun, NextRequest, NoRun, KnownRun
    <3> HIDE DEF r
    <3>4. QED
      BY <1>0, <1>3, <1>4, <3>1, <3>2, <3>3 DEF KnownAnalysis, KnownRun
  <2>3. JsonKnown'
    BY <1>0, <1>2, <1>3, <1>4, <1>22 DEF KnownAnalysis, KnownRun, AnalysisKey, RunKey, SaveRun, NextRequest, NoRun
  <2>4. QED
    BY <2>1, <2>2, <2>3
<1>23. QED
    BY <1>6, <1>7, <1>8, <1>9, <1>10, <1>11, <1>12, <1>13, <1>14, <1>15, <1>16, <1>17, <1>18, <1>19, <1>20, <1>21, <1>22 DEF Work

\* ... and the steps of the world around, which only add to it or empty it.
LEMMA KnownStep ==
    ASSUME IInv, [Next]_vars
    PROVE  KnownInv'
<1> USE DEF IInv, KnownInv, SinceClean, Known, KnownAnalysis, KnownRun
<1>1. ASSUME NEW b \in Benchmarks, Work(b)
      PROVE  KnownInv'
    BY <1>1, KnownWork
<1>2. ASSUME NEW b \in Benchmarks, Edit(b)
      PROVE  KnownInv'
    BY <1>2 DEF TypeOK, Edit, Current, Running, memVars, fileVars
<1>3. CASE NewSession
    BY <1>3 DEF TypeOK, NewSession, NothingYet, NoRun, Current, Running, fileVars
<1>4. CASE Clean
    BY <1>4 DEF Clean, NothingYet, NoRun, Absent, Running, Ended
<1>5. CASE Kill
    BY <1>5 DEF Kill, NothingYet, NoRun, Running, Ended, fileVars
<1>6. CASE StartRuns \/ Finish \/ Terminated \/ UNCHANGED vars
    BY <1>6 DEF StartRuns, Finish, Idle, Terminated, Current, Running, Ended, vars, static, memVars, fileVars
<1>7. QED
    BY <1>1, <1>2, <1>3, <1>4, <1>5, <1>6 DEF Next, World

\* Loop and support objects of one length meet in a binary.
LEMMA LinkStep ==
    ASSUME IInv, [Next]_vars
    PROVE  LinkInv'
<1> USE VfAssumption DEF IInv, TypeOK, LinkInv, LinkedForItsKey, Running, Ended, NoRun, NoCode, Current, At, Goto,
           static, memVars, fileVars, RunKey, SupportKey
<1>1. ASSUME NEW b \in Benchmarks, StartIR(b)
      PROVE  LinkInv'
    BY <1>1 DEF StartIR
<1>2. ASSUME NEW b \in Benchmarks, EndIR(b)
      PROVE  LinkInv'
    BY <1>2 DEF EndIR
<1>3. ASSUME NEW b \in Benchmarks, IRFails(b)
      PROVE  LinkInv'
    BY <1>3 DEF IRFails, PrevecFailed, NothingYet
<1>4. ASSUME NEW b \in Benchmarks, StartPrevec(b)
      PROVE  LinkInv'
    BY <1>4 DEF StartPrevec
<1>5. ASSUME NEW b \in Benchmarks, EndPrevec(b)
      PROVE  LinkInv'
    BY <1>5 DEF EndPrevec
<1>6. ASSUME NEW b \in Benchmarks, PrevecFails(b)
      PROVE  LinkInv'
    BY <1>6 DEF PrevecFails, PrevecFailed, NothingYet
<1>7. ASSUME NEW b \in Benchmarks, LoadAnalysis(b)
      PROVE  LinkInv'
    BY <1>7 DEF LoadAnalysis
<1>8. ASSUME NEW b \in Benchmarks, Explain(b)
      PROVE  LinkInv'
    BY <1>8 DEF Explain
<1>9. ASSUME NEW b \in Benchmarks, SaveAnalysis(b)
      PROVE  LinkInv'
    BY <1>9 DEF SaveAnalysis
<1>10. ASSUME NEW b \in Benchmarks, NEW c \in Choices, LoadRun(b, c)
      PROVE  LinkInv'
    BY <1>10 DEF LoadRun, CachedRun, WithBaseline, Idle, Due
<1>11. ASSUME NEW b \in Benchmarks, NEW c \in Choices, StartRun(b, c)
      PROVE  LinkInv'
    BY <1>11 DEF StartRun, Idle, Due, Requests
<1>12. ASSUME NEW b \in Benchmarks, Verify(b)
      PROVE  LinkInv'
    BY <1>12 DEF Verify
<1>13. ASSUME NEW b \in Benchmarks, VerifyFails(b)
      PROVE  LinkInv'
    BY <1>13 DEF VerifyFails, Conclude
<1>14. ASSUME NEW b \in Benchmarks, Build(b)
      PROVE  LinkInv'
    BY <1>14 DEF Build
<1>15. ASSUME NEW b \in Benchmarks, BuildFails(b)
      PROVE  LinkInv'
    BY <1>15 DEF BuildFails, Conclude
<1>16. ASSUME NEW b \in Benchmarks, Gem5(b)
      PROVE  LinkInv'
    BY <1>16 DEF Gem5, Conclude
<1>17. ASSUME NEW b \in Benchmarks, SaveRun(b)
      PROVE  LinkInv'
    BY <1>17 DEF SaveRun, NextRequest, WithBaseline
<1>18. ASSUME NEW b \in Benchmarks, Edit(b)
      PROVE  LinkInv'
    BY <1>18 DEF Edit
<1>19. CASE StartRuns
    BY <1>19 DEF StartRuns
<1>20. CASE Finish
    BY <1>20 DEF Finish, Idle
<1>21. CASE NewSession
    BY <1>21 DEF NewSession, NothingYet
<1>22. CASE Clean
    BY <1>22 DEF Clean, NothingYet
<1>23. CASE Kill
    BY <1>23 DEF Kill, NothingYet
<1>24. CASE Terminated \/ UNCHANGED vars
    BY <1>24 DEF Terminated, vars
<1>25. QED
    BY <1>1, <1>2, <1>3, <1>4, <1>5, <1>6, <1>7, <1>8, <1>9, <1>10, <1>11, <1>12, <1>13, <1>14, <1>15, <1>16, <1>17, <1>18, <1>19, <1>20, <1>21, <1>22, <1>23, <1>24 DEF Next, Work, World

\* The main thread works on one row at a time, the default row first.
LEMMA RowStep ==
    ASSUME IInv, [Next]_vars
    PROVE  RowInv'
<1> USE VfAssumption DEF IInv, TypeOK, RowInv, Running, Ended, NoRun, Choices, At, Goto, static, memVars, fileVars, RunKey
<1>1. ASSUME NEW b \in Benchmarks, StartIR(b)
      PROVE  RowInv'
    BY <1>1 DEF StartIR
<1>2. ASSUME NEW b \in Benchmarks, EndIR(b)
      PROVE  RowInv'
    BY <1>2 DEF EndIR
<1>3. ASSUME NEW b \in Benchmarks, IRFails(b)
      PROVE  RowInv'
    BY <1>3 DEF IRFails, PrevecFailed, NothingYet
<1>4. ASSUME NEW b \in Benchmarks, StartPrevec(b)
      PROVE  RowInv'
    BY <1>4 DEF StartPrevec
<1>5. ASSUME NEW b \in Benchmarks, EndPrevec(b)
      PROVE  RowInv'
    BY <1>5 DEF EndPrevec
<1>6. ASSUME NEW b \in Benchmarks, PrevecFails(b)
      PROVE  RowInv'
    BY <1>6 DEF PrevecFails, PrevecFailed, NothingYet
<1>7. ASSUME NEW b \in Benchmarks, LoadAnalysis(b)
      PROVE  RowInv'
    BY <1>7 DEF LoadAnalysis
<1>8. ASSUME NEW b \in Benchmarks, Explain(b)
      PROVE  RowInv'
    BY <1>8 DEF Explain
<1>9. ASSUME NEW b \in Benchmarks, SaveAnalysis(b)
      PROVE  RowInv'
    BY <1>9 DEF SaveAnalysis
<1>10. ASSUME NEW b \in Benchmarks, NEW c \in Choices, LoadRun(b, c)
      PROVE  RowInv'
    BY <1>10 DEF LoadRun, CachedRun, WithBaseline, Idle, Due
<1>11. ASSUME NEW b \in Benchmarks, NEW c \in Choices, StartRun(b, c)
      PROVE  RowInv'
    BY <1>11 DEF StartRun, Idle, Due, Requests
<1>12. ASSUME NEW b \in Benchmarks, Verify(b)
      PROVE  RowInv'
    BY <1>12 DEF Verify
<1>13. ASSUME NEW b \in Benchmarks, VerifyFails(b)
      PROVE  RowInv'
    BY <1>13 DEF VerifyFails, Conclude
<1>14. ASSUME NEW b \in Benchmarks, Build(b)
      PROVE  RowInv'
    BY <1>14 DEF Build
<1>15. ASSUME NEW b \in Benchmarks, BuildFails(b)
      PROVE  RowInv'
    BY <1>15 DEF BuildFails, Conclude
<1>16. ASSUME NEW b \in Benchmarks, Gem5(b)
      PROVE  RowInv'
    BY <1>16 DEF Gem5, Conclude
<1>17. ASSUME NEW b \in Benchmarks, SaveRun(b)
      PROVE  RowInv'
    BY <1>17 DEF SaveRun, NextRequest, WithBaseline
<1>18. ASSUME NEW b \in Benchmarks, Edit(b)
      PROVE  RowInv'
    BY <1>18 DEF Edit
<1>19. CASE StartRuns
    BY <1>19 DEF StartRuns
<1>20. CASE Finish
    BY <1>20 DEF Finish, Idle
<1>21. CASE NewSession
    BY <1>21 DEF NewSession, NothingYet
<1>22. CASE Clean
    BY <1>22 DEF Clean, NothingYet
<1>23. CASE Kill
    BY <1>23 DEF Kill, NothingYet
<1>24. CASE Terminated \/ UNCHANGED vars
    BY <1>24 DEF Terminated, vars
<1>25. QED
    BY <1>1, <1>2, <1>3, <1>4, <1>5, <1>6, <1>7, <1>8, <1>9, <1>10, <1>11, <1>12, <1>13, <1>14, <1>15, <1>16, <1>17, <1>18, <1>19, <1>20, <1>21, <1>22, <1>23, <1>24 DEF Next, Work, World

\* A delta is computed when its row is written, and its default row stays.
LEMMA DeltaStep ==
    ASSUME IInv, [Next]_vars
    PROVE  DeltaIsOwn'
<1> USE VfAssumption DEF IInv, TypeOK, RowInv, DeltaIsOwn, Running, Ended, Choices, At, Goto, static, memVars,
           fileVars, RunKey
<1>1. ASSUME NEW b \in Benchmarks, StartIR(b)
      PROVE  DeltaIsOwn'
    BY <1>1 DEF StartIR
<1>2. ASSUME NEW b \in Benchmarks, EndIR(b)
      PROVE  DeltaIsOwn'
    BY <1>2 DEF EndIR
<1>3. ASSUME NEW b \in Benchmarks, IRFails(b)
      PROVE  DeltaIsOwn'
    BY <1>3 DEF IRFails, PrevecFailed, NothingYet
<1>4. ASSUME NEW b \in Benchmarks, StartPrevec(b)
      PROVE  DeltaIsOwn'
    BY <1>4 DEF StartPrevec
<1>5. ASSUME NEW b \in Benchmarks, EndPrevec(b)
      PROVE  DeltaIsOwn'
    BY <1>5 DEF EndPrevec
<1>6. ASSUME NEW b \in Benchmarks, PrevecFails(b)
      PROVE  DeltaIsOwn'
    BY <1>6 DEF PrevecFails, PrevecFailed, NothingYet
<1>7. ASSUME NEW b \in Benchmarks, LoadAnalysis(b)
      PROVE  DeltaIsOwn'
    BY <1>7 DEF LoadAnalysis
<1>8. ASSUME NEW b \in Benchmarks, Explain(b)
      PROVE  DeltaIsOwn'
    BY <1>8 DEF Explain
<1>9. ASSUME NEW b \in Benchmarks, SaveAnalysis(b)
      PROVE  DeltaIsOwn'
    BY <1>9 DEF SaveAnalysis
<1>10. ASSUME NEW b \in Benchmarks, NEW c \in Choices, LoadRun(b, c)
      PROVE  DeltaIsOwn'
    BY <1>10 DEF LoadRun, CachedRun, WithBaseline, Idle, Due
<1>11. ASSUME NEW b \in Benchmarks, NEW c \in Choices, StartRun(b, c)
      PROVE  DeltaIsOwn'
    BY <1>11 DEF StartRun, Idle, Due, Requests
<1>12. ASSUME NEW b \in Benchmarks, Verify(b)
      PROVE  DeltaIsOwn'
    BY <1>12 DEF Verify
<1>13. ASSUME NEW b \in Benchmarks, VerifyFails(b)
      PROVE  DeltaIsOwn'
    BY <1>13 DEF VerifyFails, Conclude
<1>14. ASSUME NEW b \in Benchmarks, Build(b)
      PROVE  DeltaIsOwn'
    BY <1>14 DEF Build
<1>15. ASSUME NEW b \in Benchmarks, BuildFails(b)
      PROVE  DeltaIsOwn'
    BY <1>15 DEF BuildFails, Conclude
<1>16. ASSUME NEW b \in Benchmarks, Gem5(b)
      PROVE  DeltaIsOwn'
    BY <1>16 DEF Gem5, Conclude
<1>17. ASSUME NEW b \in Benchmarks, SaveRun(b)
      PROVE  DeltaIsOwn'
    BY <1>17 DEF SaveRun, NextRequest, WithBaseline
<1>18. ASSUME NEW b \in Benchmarks, Edit(b)
      PROVE  DeltaIsOwn'
    BY <1>18 DEF Edit
<1>19. CASE StartRuns
    BY <1>19 DEF StartRuns
<1>20. CASE Finish
    BY <1>20 DEF Finish, Idle
<1>21. CASE NewSession
    BY <1>21 DEF NewSession, NothingYet
<1>22. CASE Clean
    BY <1>22 DEF Clean, NothingYet
<1>23. CASE Kill
    BY <1>23 DEF Kill, NothingYet
<1>24. CASE Terminated \/ UNCHANGED vars
    BY <1>24 DEF Terminated, vars
<1>25. QED
    BY <1>1, <1>2, <1>3, <1>4, <1>5, <1>6, <1>7, <1>8, <1>9, <1>10, <1>11, <1>12, <1>13, <1>14, <1>15, <1>16, <1>17, <1>18, <1>19, <1>20, <1>21, <1>22, <1>23, <1>24 DEF Next, Work, World

\* Without the cache, rows come from results of this session only.
LEMMA NoCacheStep ==
    ASSUME IInv, [Next]_vars
    PROVE  NoCacheMeasures'
<1> USE VfAssumption DEF IInv, TypeOK, RowInv, NoCacheMeasures, Running, Ended, NoRun, Choices, At, Goto, static,
           memVars, fileVars
<1>1. ASSUME NEW b \in Benchmarks, StartIR(b)
      PROVE  NoCacheMeasures'
    BY <1>1 DEF StartIR
<1>2. ASSUME NEW b \in Benchmarks, EndIR(b)
      PROVE  NoCacheMeasures'
    BY <1>2 DEF EndIR
<1>3. ASSUME NEW b \in Benchmarks, IRFails(b)
      PROVE  NoCacheMeasures'
    BY <1>3 DEF IRFails, PrevecFailed, NothingYet
<1>4. ASSUME NEW b \in Benchmarks, StartPrevec(b)
      PROVE  NoCacheMeasures'
    BY <1>4 DEF StartPrevec
<1>5. ASSUME NEW b \in Benchmarks, EndPrevec(b)
      PROVE  NoCacheMeasures'
    BY <1>5 DEF EndPrevec
<1>6. ASSUME NEW b \in Benchmarks, PrevecFails(b)
      PROVE  NoCacheMeasures'
    BY <1>6 DEF PrevecFails, PrevecFailed, NothingYet
<1>7. ASSUME NEW b \in Benchmarks, LoadAnalysis(b)
      PROVE  NoCacheMeasures'
    BY <1>7 DEF LoadAnalysis
<1>8. ASSUME NEW b \in Benchmarks, Explain(b)
      PROVE  NoCacheMeasures'
    BY <1>8 DEF Explain
<1>9. ASSUME NEW b \in Benchmarks, SaveAnalysis(b)
      PROVE  NoCacheMeasures'
    BY <1>9 DEF SaveAnalysis
<1>10. ASSUME NEW b \in Benchmarks, NEW c \in Choices, LoadRun(b, c)
      PROVE  NoCacheMeasures'
    BY <1>10 DEF LoadRun, CachedRun, WithBaseline, Idle, Due
<1>11. ASSUME NEW b \in Benchmarks, NEW c \in Choices, StartRun(b, c)
      PROVE  NoCacheMeasures'
    BY <1>11 DEF StartRun, Idle, Due, Requests
<1>12. ASSUME NEW b \in Benchmarks, Verify(b)
      PROVE  NoCacheMeasures'
    BY <1>12 DEF Verify
<1>13. ASSUME NEW b \in Benchmarks, VerifyFails(b)
      PROVE  NoCacheMeasures'
    BY <1>13 DEF VerifyFails, Conclude
<1>14. ASSUME NEW b \in Benchmarks, Build(b)
      PROVE  NoCacheMeasures'
    BY <1>14 DEF Build
<1>15. ASSUME NEW b \in Benchmarks, BuildFails(b)
      PROVE  NoCacheMeasures'
    BY <1>15 DEF BuildFails, Conclude
<1>16. ASSUME NEW b \in Benchmarks, Gem5(b)
      PROVE  NoCacheMeasures'
    BY <1>16 DEF Gem5, Conclude
<1>17. ASSUME NEW b \in Benchmarks, SaveRun(b)
      PROVE  NoCacheMeasures'
    BY <1>17 DEF SaveRun, NextRequest, WithBaseline
<1>18. ASSUME NEW b \in Benchmarks, Edit(b)
      PROVE  NoCacheMeasures'
    BY <1>18 DEF Edit
<1>19. CASE StartRuns
    BY <1>19 DEF StartRuns
<1>20. CASE Finish
    BY <1>20 DEF Finish, Idle
<1>21. CASE NewSession
    BY <1>21 DEF NewSession, NothingYet
<1>22. CASE Clean
    BY <1>22 DEF Clean, NothingYet
<1>23. CASE Kill
    BY <1>23 DEF Kill, NothingYet
<1>24. CASE Terminated \/ UNCHANGED vars
    BY <1>24 DEF Terminated, vars
<1>25. QED
    BY <1>1, <1>2, <1>3, <1>4, <1>5, <1>6, <1>7, <1>8, <1>9, <1>10, <1>11, <1>12, <1>13, <1>14, <1>15, <1>16, <1>17, <1>18, <1>19, <1>20, <1>21, <1>22, <1>23, <1>24 DEF Next, Work, World

LEMMA InitHolds == Init => IInv
<1> SUFFICES ASSUME Init PROVE IInv
    OBVIOUS
<1> USE DEF Init
<1>1. TypeOK
  <2>1. NoRun \in Run /\ Absent \in Files
    BY StoredTypes
  <2>2. Default \in Choices /\ 0 \in 0..MaxVersion /\ 0 \in 0..MaxSessions
    BY VfAssumption DEF Choices
  <2>3. /\ source \in [Benchmarks -> 0..MaxVersion]
        /\ number \in 0..MaxSessions
        /\ phase \in Ended \cup {"analyze", "run"}
        /\ len \in Lens /\ no_cache \in BOOLEAN
    BY <2>2 DEF Ended
  <2>4. /\ pc \in [Benchmarks -> Places]
        /\ request \in [Benchmarks -> Choices]
        /\ result \in [Benchmarks -> Run]
        /\ prevec_cache \subseteq Benchmarks
    BY <2>1, <2>2 DEF Places
  <2>5. rows \in [Benchmarks -> [Choices -> Run \cup {Nothing}]]
    OBVIOUS
  <2>6. /\ analyses \in [Benchmarks -> Analysis \cup {Nothing}]
        /\ ir \in [Benchmarks -> Files] /\ prevec \in [Benchmarks -> Files]
        /\ support \in [Lens -> Lens \cup {"none"}]
    BY <2>1
  <2>7. /\ analysis_json \in [Benchmarks \X Lens -> Analysis \cup {Nothing}]
        /\ run_json \in [Benchmarks \X Lens \X Choices -> Run \cup {Nothing}]
    OBVIOUS
  <2>8. seen \in [Benchmarks -> SUBSET Code]
    OBVIOUS
  <2>9. QED
    BY <2>3, <2>4, <2>5, <2>6, <2>7, <2>8 DEF TypeOK
<1>2. KnownInv
    BY DEF KnownInv, SinceClean, Known, KnownAnalysis, KnownRun, Running, Ended, Absent, NoRun
<1>3. LinkInv
    BY DEF LinkInv, LinkedForItsKey, NoRun
<1>4. RowInv /\ DeltaIsOwn /\ NoCacheMeasures
    BY DEF RowInv, DeltaIsOwn, NoCacheMeasures, NoRun
<1>5. QED
    BY <1>1, <1>2, <1>3, <1>4 DEF IInv

\* The inductive invariant holds in every reachable state.
THEOREM InvariantCorrect == Spec => []IInv
<1>1. IInv /\ [Next]_vars => IInv'
    BY TypeStep, KnownStep, LinkStep, RowStep, DeltaStep, NoCacheStep DEF IInv
<1>2. QED
    BY InitHolds, <1>1, PTL DEF Spec

\* Type correctness of the pipeline.
THEOREM TypeCorrect == Spec => []TypeOK
<1>1. IInv => TypeOK
    BY DEF IInv
<1>2. QED
    BY InvariantCorrect, <1>1, PTL

\* clean.sh is a full refresh of everything vf-performance keeps.
THEOREM SinceCleanCorrect == Spec => []SinceClean
<1>1. IInv => SinceClean
    BY DEF IInv, KnownInv
<1>2. QED
    BY InvariantCorrect, <1>1, PTL

\* A cache that has seen one text and one --len of a benchmark answers for it.
THEOREM AnswersCurrentCorrect == Spec => []AnswersCurrent
<1>1. IInv => AnswersCurrent
  <2> SUFFICES ASSUME IInv, NEW b \in Benchmarks, seen[b] = {Current(b)}
               PROVE  /\ analyses[b] \in {Current(b), NoCode, Nothing}
                      /\ \A c \in Choices : rows[b][c] # Nothing =>
                            {rows[b][c].verified, rows[b][c].built} \subseteq {Current(b), NoCode}
    BY DEF AnswersCurrent, OneCode
  <2>1. \A code : Known(b, code) => code \in {Current(b), NoCode}
    BY DEF Known
  <2>2. KnownAnalysis(b, analyses[b]) /\ \A c \in Choices : KnownRun(b, rows[b][c])
    BY DEF IInv, KnownInv
  <2>3. QED
    BY <2>1, <2>2 DEF KnownAnalysis, KnownRun
<1>2. QED
    BY InvariantCorrect, <1>1, PTL

\* build_binary: every measured binary is linked for the length of its key.
THEOREM LinkedForItsKeyCorrect == Spec => []LinkedForItsKey
<1>1. IInv => LinkedForItsKey
    BY DEF IInv, LinkInv
<1>2. QED
    BY InvariantCorrect, <1>1, PTL

\* _with_baseline: deltas refer to the default run presented beside them.
THEOREM DeltaIsOwnCorrect == Spec => []DeltaIsOwn
<1>1. IInv => DeltaIsOwn
    BY DEF IInv
<1>2. QED
    BY InvariantCorrect, <1>1, PTL

\* --no-cache: every measurement a session presents is its own.
THEOREM NoCacheMeasuresCorrect == Spec => []NoCacheMeasures
<1>1. IInv => NoCacheMeasures
    BY DEF IInv
<1>2. QED
    BY InvariantCorrect, <1>1, PTL
=============================================================================
