----------------------------- MODULE VfPipeline -----------------------------
(***************************************************************************)
(* experiment/vf-performance: PipelineRunner analyses each benchmark (which *)
(* vectorization factors were considered?), then measures it by default    *)
(* and once per factor, verifying first that the factor is honoured.       *)
(*                                                                         *)
(* Answers are kept for later sessions under keys that name the benchmark  *)
(* and --len.  The intermediate code they are computed from is kept too,   *)
(* under the benchmark's name alone, and used whenever it exists.  Sources *)
(* can be edited at any time; clean.sh removes everything that is kept.    *)
(*                                                                         *)
(* The local executor is modelled: a tool is one command on this machine.  *)
(***************************************************************************)
EXTENDS Naturals

CONSTANTS Benchmarks,
          Lens,         \* values of --len
          Factors,      \* pairs of a loop and a factor to force in it
          Offered,      \* the factors the vectorizer considers in a code
          Nothing,      \* no file, no answer yet
          MaxVersion,   \* edits of a source (bound)
          MaxSessions   \* sessions of a behaviour (bound)

Default == "default"

\* What a compiler makes of a benchmark: which text, for which length.
Code == [ver : 0..MaxVersion, len : Lens]

NoCode == [ver |-> MaxVersion + 1, len |-> "none"]
Choices == Factors \cup {Default}

\* A file of the work directory: absent, or written so far from some code.
Files == [there : BOOLEAN, whole : BOOLEAN, code : Code \cup {NoCode}]
Absent == [there |-> FALSE, whole |-> FALSE, code |-> NoCode]

\* BenchmarkAnalysis: the code that was analysed, NoCode if it has an error.
\* Nothing stands for a JSON file that load_cached_analysis or load_cached_run
\* returns None for: missing, or cut short.
Analysis == Code \cup {NoCode}

\* RunResult: what was verified, what was built and linked, and the session
\* that measured it (0: no cycles); base is the measurement its delta refers to.
\* The status only names the step that failed: nothing depends on it.
Run == [verified : Code \cup {NoCode}, built : Code \cup {NoCode},
        support : Lens \cup {"none"}, cycles : 0..MaxSessions, base : 0..MaxSessions]

ASSUME VfAssumption ==
    /\ Offered \in [Code -> SUBSET Factors]
    /\ Default \notin Factors
    /\ "none" \notin Lens
    /\ Nothing \notin Analysis \cup Run
    /\ MaxVersion \in Nat
    /\ MaxSessions \in Nat

VARIABLES
    source,       \* the version of each benchmark's source file
    number,       \* how many sessions have started
    phase,        \* where the current one is
    len,          \* its --len
    no_cache,     \* its --no-cache
    pc,           \* where its work on each benchmark is
    request,      \* the choice a benchmark is measured for
    result,       \* the RunResult in the making
    prevec_cache, \* _prevec_cache: benchmarks whose .prevec.ll was seen
    analyses,     \* the session's analyses
    rows,         \* the session's run results
    ir,           \* work/<benchmark>.ll
    prevec,       \* work/<benchmark>.prevec.ll
    support,      \* the support objects: for which length they were compiled
    analysis_json, run_json,   \* the cache of answers
    seen          \* history: the codes a benchmark has had since clean.sh ran

memVars == <<pc, request, result, prevec_cache, analyses, rows>>
fileVars == <<ir, prevec, support, analysis_json, run_json>>
vars == <<source, number, phase, len, no_cache, memVars, fileVars, seen>>

Current(b) == [ver |-> source[b], len |-> len]
NoRun == [verified |-> NoCode, built |-> NoCode,
          support |-> "none", cycles |-> 0, base |-> 0]

\* The memory of a process before it starts and after it is gone.
NothingYet ==
    /\ pc' = [b \in Benchmarks |-> "new"]
    /\ request' = [b \in Benchmarks |-> Default]
    /\ result' = [b \in Benchmarks |-> NoRun]
    /\ prevec_cache' = {}
    /\ analyses' = [b \in Benchmarks |-> Nothing]
    /\ rows' = [b \in Benchmarks |-> [c \in Choices |-> Nothing]]

Places == {"new", "ir", "clang", "prevec", "opt", "explain", "verify", "build", "gem5", "save", "ready"}
Ended == {"none", "done", "failed", "killed"}
Running == phase \notin Ended

\* support_key and the two cache keys all contain len_1d.  Variant: one
\* support directory for all lengths.
SupportKey_WithoutLen(l) == CHOOSE k \in Lens : TRUE
SupportKey(l) == l
AnalysisKey(b) == <<b, len>>
RunKey(b, c) == <<b, len, c>>

Init ==
    /\ source = [b \in Benchmarks |-> 0]
    /\ number = 0 /\ phase = "none"
    /\ len \in Lens /\ no_cache = FALSE
    /\ pc = [b \in Benchmarks |-> "new"]
    /\ request = [b \in Benchmarks |-> Default]
    /\ result = [b \in Benchmarks |-> NoRun]
    /\ prevec_cache = {}
    /\ analyses = [b \in Benchmarks |-> Nothing]
    /\ rows = [b \in Benchmarks |-> [c \in Choices |-> Nothing]]
    /\ ir = [b \in Benchmarks |-> Absent]
    /\ prevec = [b \in Benchmarks |-> Absent]
    /\ support = [l \in Lens |-> "none"]
    /\ analysis_json = [k \in Benchmarks \X Lens |-> Nothing]
    /\ run_json = [k \in Benchmarks \X Lens \X Choices |-> Nothing]
    /\ seen = [b \in Benchmarks |-> {}]

-----------------------------------------------------------------------------
(* The world around a session. *)

NewSession ==
    /\ ~Running
    /\ number < MaxSessions
    /\ number' = number + 1
    /\ phase' = "analyze"
    /\ len' \in Lens /\ no_cache' \in BOOLEAN
    /\ NothingYet
    /\ seen' = [b \in Benchmarks |-> seen[b] \cup {[ver |-> source[b], len |-> len']}]
    /\ UNCHANGED <<source, fileVars>>

Edit(b) ==
    /\ source[b] < MaxVersion
    /\ source' = [source EXCEPT ![b] = @ + 1]
    /\ seen' = [seen EXCEPT ![b] = IF Running THEN @ \cup {[ver |-> source[b] + 1, len |-> len]} ELSE @]
    /\ UNCHANGED <<number, phase, len, no_cache, memVars, fileVars>>

\* Variant: clean.sh keeps the work directory.
Clean_KeepsWork ==
    /\ ~Running
    /\ support' = [l \in Lens |-> "none"]
    /\ analysis_json' = [k \in Benchmarks \X Lens |-> Nothing]
    /\ run_json' = [k \in Benchmarks \X Lens \X Choices |-> Nothing]
    /\ seen' = [b \in Benchmarks |-> {}]
    /\ phase' = "none" /\ NothingYet
    /\ UNCHANGED <<source, number, len, no_cache, ir, prevec>>

\* clean.sh removes the cache root, the work directory included: the one in its own
\* directory, so sessions are taken to be started there (pipeline.py:862, cli.py:73).
Clean ==
    /\ ~Running
    /\ ir' = [b \in Benchmarks |-> Absent]
    /\ prevec' = [b \in Benchmarks |-> Absent]
    /\ support' = [l \in Lens |-> "none"]
    /\ analysis_json' = [k \in Benchmarks \X Lens |-> Nothing]
    /\ run_json' = [k \in Benchmarks \X Lens \X Choices |-> Nothing]
    /\ seen' = [b \in Benchmarks |-> {}]
    /\ phase' = "none" /\ NothingYet
    /\ UNCHANGED <<source, number, len, no_cache>>

Kill ==
    /\ Running
    /\ phase' = "killed"
    /\ NothingYet
    /\ UNCHANGED <<source, number, len, no_cache, fileVars, seen>>

-----------------------------------------------------------------------------
(* _ensure_prevec, called by an analysis thread and by the verification. *)

At(b, p) == Running /\ pc[b] = p
Goto(b, p) == pc' = [pc EXCEPT ![b] = p]
AfterPrevec == IF phase = "analyze" THEN "explain" ELSE "verify"
static == <<source, number, len, no_cache, seen>>

\* A tool failed: an analysis records the error and is saved; the verification
\* does not catch it, and the session is over.
PrevecFailed(b) ==
    \/ /\ phase = "analyze"
       /\ Goto(b, "save")
       /\ analyses' = [analyses EXCEPT ![b] = NoCode]
       /\ analysis_json' = [analysis_json EXCEPT ![AnalysisKey(b)] = Nothing]
       /\ UNCHANGED <<phase, request, result, prevec_cache, rows>>
    \/ /\ phase = "run"
       /\ phase' = "failed"
       /\ NothingYet
       /\ UNCHANGED analysis_json

\* compile_to_ir: an existing file will do.
StartIR(b) ==
    /\ At(b, "ir")
    /\ \/ /\ b \in prevec_cache
          /\ Goto(b, AfterPrevec)
          /\ UNCHANGED ir
       \/ /\ b \notin prevec_cache /\ ir[b].there
          /\ Goto(b, "prevec")
          /\ UNCHANGED ir
       \/ /\ b \notin prevec_cache /\ ~ir[b].there
          /\ Goto(b, "clang")
          /\ ir' = [ir EXCEPT ![b] = [there |-> TRUE, whole |-> FALSE, code |-> Current(b)]]
    /\ UNCHANGED <<static, phase, request, result, prevec_cache, analyses, rows, prevec, support, analysis_json, run_json>>

EndIR(b) ==
    /\ At(b, "clang")
    /\ ir' = [ir EXCEPT ![b].whole = TRUE]
    /\ Goto(b, "prevec")
    /\ UNCHANGED <<static, phase, request, result, prevec_cache, analyses, rows, prevec, support, analysis_json, run_json>>

IRFails(b) ==
    /\ At(b, "clang")
    /\ \E left \in {Absent, ir[b]} : ir' = [ir EXCEPT ![b] = left]
    /\ PrevecFailed(b)
    /\ UNCHANGED <<static, prevec, support, run_json>>

\* The prepared module: again, an existing file will do.
StartPrevec(b) ==
    /\ At(b, "prevec")
    /\ IF prevec[b].there
       THEN /\ Goto(b, AfterPrevec)
            /\ prevec_cache' = prevec_cache \cup {b}
            /\ UNCHANGED prevec
       ELSE /\ Goto(b, "opt")
            /\ prevec' = [prevec EXCEPT ![b] = [there |-> TRUE, whole |-> FALSE, code |-> ir[b].code]]
            /\ UNCHANGED prevec_cache
    /\ UNCHANGED <<static, phase, request, result, analyses, rows, ir, support, analysis_json, run_json>>

EndPrevec(b) ==
    /\ At(b, "opt")
    /\ ir[b].whole
    /\ prevec' = [prevec EXCEPT ![b].whole = TRUE]
    /\ prevec_cache' = prevec_cache \cup {b}
    /\ Goto(b, AfterPrevec)
    /\ UNCHANGED <<static, phase, request, result, analyses, rows, ir, support, analysis_json, run_json>>

PrevecFails(b) ==
    /\ At(b, "opt")
    /\ \E left \in {Absent, prevec[b]} : prevec' = [prevec EXCEPT ![b] = left]
    /\ PrevecFailed(b)
    /\ UNCHANGED <<static, ir, support, run_json>>

-----------------------------------------------------------------------------
(* The analyses, in parallel threads. *)

LoadAnalysis(b) ==
    /\ At(b, "new") /\ phase = "analyze"
    /\ IF ~no_cache /\ analysis_json[AnalysisKey(b)] # Nothing
       THEN /\ Goto(b, "ready")
            /\ analyses' = [analyses EXCEPT ![b] = analysis_json[AnalysisKey(b)]]
       ELSE Goto(b, "ir") /\ UNCHANGED analyses
    /\ UNCHANGED <<static, phase, request, result, prevec_cache, rows, fileVars>>

\* opt -vplan-explain; then save_cached_analysis truncates the file ...
Explain(b) ==
    /\ At(b, "explain")
    /\ \/ analyses' = [analyses EXCEPT ![b] = NoCode]
       \/ prevec[b].whole /\ analyses' = [analyses EXCEPT ![b] = prevec[b].code]
    /\ analysis_json' = [analysis_json EXCEPT ![AnalysisKey(b)] = Nothing]
    /\ Goto(b, "save")
    /\ UNCHANGED <<static, phase, request, result, prevec_cache, rows, ir, prevec, support, run_json>>

\* ... and writes it.
SaveAnalysis(b) ==
    /\ At(b, "save") /\ phase = "analyze"
    /\ analysis_json' = [analysis_json EXCEPT ![AnalysisKey(b)] = analyses[b]]
    /\ Goto(b, "ready")
    /\ UNCHANGED <<static, phase, request, result, prevec_cache, analyses, rows, ir, prevec, support, run_json>>

StartRuns ==
    /\ phase = "analyze"
    /\ \A b \in Benchmarks : pc[b] = "ready"
    /\ phase' = "run"
    /\ UNCHANGED <<static, memVars, fileVars>>

-----------------------------------------------------------------------------
(* The runs, one after the other on the main thread. *)

\* benchmark_requests
Requests(b) ==
    IF analyses[b] \in Code THEN {Default} \cup Offered[analyses[b]] ELSE {}

Idle == phase = "run" /\ \A b \in Benchmarks : pc[b] = "ready"
Due(b, c) ==
    /\ c \in Requests(b) /\ rows[b][c] = Nothing
    /\ c # Default => rows[b][Default] # Nothing

\* _with_baseline: relative to the default run of this session.
WithBaseline(b, c, r) ==
    IF c = Default \/ rows[b][Default].cycles = 0 \/ r.cycles = 0
    THEN r ELSE [r EXCEPT !.base = rows[b][Default].cycles]

\* Variant: --no-cache is honoured by the analyses only.
CachedRun_Always(b, c) == run_json[RunKey(b, c)] # Nothing
CachedRun(b, c) == ~no_cache /\ run_json[RunKey(b, c)] # Nothing

LoadRun(b, c) ==
    /\ Idle /\ Due(b, c) /\ CachedRun(b, c)
    /\ rows' = [rows EXCEPT ![b][c] = WithBaseline(b, c, run_json[RunKey(b, c)])]
    /\ UNCHANGED <<static, phase, pc, request, result, prevec_cache, analyses, fileVars>>

StartRun(b, c) ==
    /\ Idle /\ Due(b, c) /\ ~CachedRun(b, c)
    /\ request' = [request EXCEPT ![b] = c]
    /\ Goto(b, IF c = Default THEN "build" ELSE "ir")
    /\ UNCHANGED <<static, phase, result, prevec_cache, analyses, rows, fileVars>>

\* The result is complete; save_cached_run truncates its file.
Conclude(b, r) ==
    /\ result' = [result EXCEPT ![b] = r]
    /\ run_json' = [run_json EXCEPT ![RunKey(b, request[b])] = Nothing]
    /\ Goto(b, "save")

NextRequest(b) ==
    /\ Goto(b, "ready")
    /\ request' = [request EXCEPT ![b] = Default]
    /\ result' = [result EXCEPT ![b] = NoRun]

\* _verify_forced_vf: the factor is honoured in the prepared module.
Verify(b) ==
    /\ At(b, "verify")
    /\ prevec[b].whole
    /\ result' = [result EXCEPT ![b].verified = prevec[b].code]
    /\ Goto(b, "build")
    /\ UNCHANGED <<static, phase, request, prevec_cache, analyses, rows, fileVars>>

\* Variant: nothing is recorded for a factor that is not honoured.
VerifyFails_Unrecorded(b) ==
    /\ At(b, "verify")
    /\ NextRequest(b)
    /\ UNCHANGED <<static, phase, prevec_cache, analyses, rows, fileVars>>

VerifyFails(b) ==
    /\ At(b, "verify")
    /\ Conclude(b, result[b])
    /\ UNCHANGED <<static, phase, request, prevec_cache, analyses, rows, ir, prevec, support, analysis_json>>

\* build_binary always compiles the loop; support objects are kept per key.
Build(b) ==
    /\ At(b, "build")
    /\ LET key == SupportKey(len)
           object == IF support[key] = "none" THEN len ELSE support[key]
       IN /\ support' = [support EXCEPT ![key] = object]
          /\ result' = [result EXCEPT ![b].built = Current(b), ![b].support = object]
    /\ Goto(b, "gem5")
    /\ UNCHANGED <<static, phase, request, prevec_cache, analyses, rows, ir, prevec, analysis_json, run_json>>

BuildFails(b) ==
    /\ At(b, "build")
    /\ Conclude(b, result[b])
    /\ \E done \in {support[SupportKey(len)], len} :
          support' = [support EXCEPT ![SupportKey(len)] = IF @ = "none" THEN done ELSE @]
    /\ UNCHANGED <<static, phase, request, prevec_cache, analyses, rows, ir, prevec, analysis_json>>

\* _run_gem5: cycles are looked for in the output whatever the exit code; a
\* timeout, a failed transfer or an exception yield a result without any.
Gem5(b) ==
    /\ At(b, "gem5")
    /\ \E n \in {0, number} : Conclude(b, [result[b] EXCEPT !.cycles = n])
    /\ UNCHANGED <<static, phase, request, prevec_cache, analyses, rows, ir, prevec, support, analysis_json>>

\* Variant: the delta is computed before the result is saved.
SaveRun_WithDelta(b) ==
    /\ At(b, "save") /\ phase = "run"
    /\ LET r == WithBaseline(b, request[b], result[b])
       IN /\ run_json' = [run_json EXCEPT ![RunKey(b, request[b])] = r]
          /\ rows' = [rows EXCEPT ![b][request[b]] = r]
    /\ NextRequest(b)
    /\ UNCHANGED <<static, phase, prevec_cache, analyses, ir, prevec, support, analysis_json>>

SaveRun(b) ==
    /\ At(b, "save") /\ phase = "run"
    /\ run_json' = [run_json EXCEPT ![RunKey(b, request[b])] = result[b]]
    /\ rows' = [rows EXCEPT ![b][request[b]] = WithBaseline(b, request[b], result[b])]
    /\ NextRequest(b)
    /\ UNCHANGED <<static, phase, prevec_cache, analyses, ir, prevec, support, analysis_json>>

Finish ==
    /\ Idle
    /\ \A b \in Benchmarks, c \in Choices : ~Due(b, c)
    /\ phase' = "done"
    /\ UNCHANGED <<static, memVars, fileVars>>

Terminated == ~Running /\ number = MaxSessions /\ UNCHANGED vars

Work(b) ==
    \/ StartIR(b) \/ EndIR(b) \/ IRFails(b)
    \/ StartPrevec(b) \/ EndPrevec(b) \/ PrevecFails(b)
    \/ LoadAnalysis(b) \/ Explain(b) \/ SaveAnalysis(b)
    \/ \E c \in Choices : LoadRun(b, c) \/ StartRun(b, c)
    \/ Verify(b) \/ VerifyFails(b) \/ Build(b) \/ BuildFails(b) \/ Gem5(b) \/ SaveRun(b)

World(b) == Edit(b)

Next ==
    \/ \E b \in Benchmarks : Work(b) \/ World(b)
    \/ StartRuns \/ Finish \/ NewSession \/ Clean \/ Kill \/ Terminated

Spec == Init /\ [][Next]_vars

\* Every tool ends: gem5 after its 600 s at the latest, the others by themselves.
FairSpec ==
    /\ Spec
    /\ WF_vars(StartRuns \/ Finish)
    /\ \A b \in Benchmarks : WF_vars(Work(b))

-----------------------------------------------------------------------------
TypeOK ==
    /\ source \in [Benchmarks -> 0..MaxVersion]
    /\ number \in 0..MaxSessions
    /\ phase \in Ended \cup {"analyze", "run"}
    /\ len \in Lens /\ no_cache \in BOOLEAN
    /\ pc \in [Benchmarks -> Places]
    /\ request \in [Benchmarks -> Choices]
    /\ result \in [Benchmarks -> Run]
    /\ prevec_cache \subseteq Benchmarks
    /\ analyses \in [Benchmarks -> Analysis \cup {Nothing}]
    /\ rows \in [Benchmarks -> [Choices -> Run \cup {Nothing}]]
    /\ ir \in [Benchmarks -> Files] /\ prevec \in [Benchmarks -> Files]
    /\ support \in [Lens -> Lens \cup {"none"}]
    /\ analysis_json \in [Benchmarks \X Lens -> Analysis \cup {Nothing}]
    /\ run_json \in [Benchmarks \X Lens \X Choices -> Run \cup {Nothing}]
    /\ seen \in [Benchmarks -> SUBSET Code]

Known(b, code) == code \in seen[b] \cup {NoCode}
KnownAnalysis(b, a) == a # Nothing => Known(b, a)
KnownRun(b, r) == r # Nothing => Known(b, r.built) /\ Known(b, r.verified)

\* clean.sh is a full refresh: whatever is on disk afterwards, intermediate code
\* as well as answers, comes from a source text and a --len of a session since.
SinceClean ==
    \A b \in Benchmarks :
        /\ Known(b, ir[b].code) /\ Known(b, prevec[b].code)
        /\ \A l \in Lens : KnownAnalysis(b, analysis_json[<<b, l>>])
        /\ \A l \in Lens, c \in Choices : KnownRun(b, run_json[<<b, l, c>>])

\* So a cache that has seen one text of a benchmark and one --len gives current
\* answers: what the rows say was verified is what was built, from this text.
OneCode(b) == seen[b] = {Current(b)}
AnswersCurrent ==
    \A b \in Benchmarks : OneCode(b) /\ phase # "none" =>
        /\ analyses[b] \in {Current(b), NoCode, Nothing}
        /\ \A c \in Choices : rows[b][c] # Nothing =>
               {rows[b][c].verified, rows[b][c].built} \subseteq {Current(b), NoCode}

\* However often lengths change, a measured binary was linked from objects that
\* were all compiled for the length its key names.
LinkedForItsKey ==
    \A b \in Benchmarks, l \in Lens, c \in Choices :
        LET r == run_json[<<b, l, c>>]
        IN  r # Nothing /\ r.built # NoCode => r.built.len = l /\ r.support = l

\* The deltas of a session compare with the default run this session presents,
\* whichever of the two came from the cache, and are absent without it.
DeltaIsOwn ==
    \A b \in Benchmarks, c \in Choices : rows[b][c] # Nothing =>
        rows[b][c].base = IF c = Default \/ rows[b][c].cycles = 0 THEN 0 ELSE rows[b][Default].cycles

\* A --no-cache session presents measurements of its own only.
NoCacheMeasures ==
    no_cache => \A b \in Benchmarks, c \in Choices :
                    rows[b][c] # Nothing => rows[b][c].cycles \in {0, number}

\* A --no-cache session analyses the code for its own --len.
NoCacheIsFresh ==
    phase = "done" /\ no_cache =>
        \A b \in Benchmarks : analyses[b] \in Code => analyses[b].len = len

\* Failures of tools, of verifications and of builds never stop a session from
\* ending: they are recorded, once, or they end it.
SessionEnds == Running ~> ~Running

-----------------------------------------------------------------------------
(* The inductive invariant. *)

\* What a session holds in memory is as known as what is on disk.
KnownInv ==
    /\ SinceClean
    /\ \A b \in Benchmarks :
           /\ Running => Current(b) \in seen[b]
           /\ KnownAnalysis(b, analyses[b]) /\ KnownRun(b, result[b])
           /\ \A c \in Choices : KnownRun(b, rows[b][c])

LinkInv ==
    /\ LinkedForItsKey
    /\ \A l \in Lens : support[l] \in {"none", l}
    /\ \A b \in Benchmarks :
           result[b].built # NoCode => result[b].built.len = len /\ result[b].support = len

\* A row is written once, the default one first, from an answer without a delta.
RowInv ==
    /\ \A k \in Benchmarks \X Lens \X Choices : run_json[k] # Nothing => run_json[k].base = 0
    /\ \A b \in Benchmarks :
           /\ result[b].base = 0 /\ result[b].cycles \in {0, number}
           /\ phase = "analyze" => \A c \in Choices : rows[b][c] = Nothing
           /\ phase = "run" /\ pc[b] # "ready" =>
                 /\ rows[b][request[b]] = Nothing
                 /\ request[b] # Default => rows[b][Default] # Nothing
           /\ \A c \in Choices : rows[b][c] # Nothing => rows[b][Default] # Nothing
=============================================================================
