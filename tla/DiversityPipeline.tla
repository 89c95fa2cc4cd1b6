------------------------- MODULE DiversityPipeline -------------------------
(***************************************************************************)
(* experiment/vplan-diversity: PipelineRunner analyses every benchmark     *)
(* function in a coroutine of its own.  A semaphore bounds how many are    *)
(* under way; functions of one source file share its compiled module       *)
(* full.ll, which the first of them compiles under the source's lock.  The *)
(* results of a finished run are kept in a JSON file for later sessions.   *)
(*                                                                         *)
(* Coroutines interleave only where they await a tool, the semaphore or a  *)
(* lock; everything between two awaits is one step here.                   *)
(***************************************************************************)
EXTENDS Naturals, FiniteSets

CONSTANTS Funcs,        \* the benchmark functions of the run
          Sources,      \* TSVC source files
          SourceOf,     \* resolve_source_path
          Parallelism,  \* --jobs, the semaphore's initial value
          MaxSessions   \* sessions of a behaviour (bound)

Nobody == "nobody"

ASSUME DiversityAssumption ==
    /\ IsFiniteSet(Funcs)
    /\ Nobody \notin Funcs
    /\ SourceOf \in [Funcs -> Sources]
    /\ Parallelism \in Nat \ {0}
    /\ MaxSessions \in Nat

VARIABLES
    sessions,   \* how many sessions have started
    session,    \* where the current one is
    pc,         \* where each coroutine is in run_one
    sem,        \* permits left
    locks,      \* _full_ll_locks: who holds each source's lock
    ll_cache,   \* _full_ll_cache: the sources it maps to a module
    full_ll,    \* the content of each source's full.ll in the work directory
    outcome,    \* what each function's BenchResult says
    json_cache, \* the results file of this variant and vlen
    shown,      \* what the session presents
    finished    \* history: the outcomes of every run_all that returned

runVars == <<pc, sem, locks, ll_cache, full_ll, outcome>>
vars == <<sessions, session, runVars, json_cache, shown, finished>>

NoResults == [f \in Funcs |-> "none"]
Results == [Funcs -> {"ok", "error"}]

\* load_cache returns None for a missing file and for one it cannot parse.
JsonFile == {j \in [valid : BOOLEAN, results : Results \cup {NoResults}] :
                j.valid => j.results \in Results}
NoFile == [valid |-> FALSE, results |-> NoResults]

Ended == {"shown", "failed", "killed"}
Inside == {"locking", "compile", "extract", "lower", "explain"}

\* The coroutines between acquiring the semaphore and releasing it.
Holders == {f \in Funcs : pc[f] \in Inside}

Init ==
    /\ sessions = 0
    /\ session = "idle"
    /\ pc = [f \in Funcs |-> "new"]
    /\ sem = Parallelism
    /\ locks = [s \in Sources |-> Nobody]
    /\ ll_cache = {}
    /\ full_ll = [s \in Sources |-> "absent"]
    /\ outcome = NoResults
    /\ json_cache = NoFile
    /\ shown = NoResults
    /\ finished = {}

\* A valid results file that is not an empty list is presented without a run.
ShowCached ==
    /\ session = "idle"
    /\ json_cache.valid /\ Funcs # {}
    /\ session' = "shown"
    /\ shown' = json_cache.results
    /\ UNCHANGED <<sessions, runVars, json_cache, finished>>

\* --no-cache, or no valid results file: run_all in a fresh work directory.
StartRun ==
    /\ session = "idle"
    /\ session' = "running"
    /\ UNCHANGED <<sessions, runVars, json_cache, shown, finished>>

Alive == session \in {"running", "raised"}

Acquire(f) ==
    /\ Alive
    /\ pc[f] = "new"
    /\ sem > 0
    /\ sem' = sem - 1
    /\ pc' = [pc EXCEPT ![f] = "locking"]
    /\ UNCHANGED <<sessions, session, locks, ll_cache, full_ll, outcome, json_cache, shown, finished>>

\* Variants: the lock, or the cache behind it, is not consulted.
LockSource_Unlocked(f) ==
    /\ Alive
    /\ pc[f] = "locking"
    /\ IF SourceOf[f] \in ll_cache
       THEN /\ pc' = [pc EXCEPT ![f] = "extract"]
            /\ UNCHANGED <<locks, full_ll>>
       ELSE /\ pc' = [pc EXCEPT ![f] = "compile"]
            /\ locks' = [locks EXCEPT ![SourceOf[f]] = f]
            /\ full_ll' = [full_ll EXCEPT ![SourceOf[f]] = "partial"]
    /\ UNCHANGED <<sessions, session, sem, ll_cache, outcome, json_cache, shown, finished>>
LockSource_Uncached(f) ==
    /\ Alive
    /\ pc[f] = "locking"
    /\ locks[SourceOf[f]] = Nobody
    /\ pc' = [pc EXCEPT ![f] = "compile"]
    /\ locks' = [locks EXCEPT ![SourceOf[f]] = f]
    /\ full_ll' = [full_ll EXCEPT ![SourceOf[f]] = "partial"]
    /\ UNCHANGED <<sessions, session, sem, ll_cache, outcome, json_cache, shown, finished>>

\* _get_full_ll: with the lock, either take the cached module and release the
\* lock at once, or start clang, which writes full.ll while the lock is held.
LockSource(f) ==
    /\ Alive
    /\ pc[f] = "locking"
    /\ locks[SourceOf[f]] = Nobody
    /\ IF SourceOf[f] \in ll_cache
       THEN /\ pc' = [pc EXCEPT ![f] = "extract"]
            /\ UNCHANGED <<locks, full_ll>>
       ELSE /\ pc' = [pc EXCEPT ![f] = "compile"]
            /\ locks' = [locks EXCEPT ![SourceOf[f]] = f]
            /\ full_ll' = [full_ll EXCEPT ![SourceOf[f]] = "partial"]
    /\ UNCHANGED <<sessions, session, sem, ll_cache, outcome, json_cache, shown, finished>>

CompileOK(f) ==
    /\ Alive
    /\ pc[f] = "compile"
    /\ full_ll' = [full_ll EXCEPT ![SourceOf[f]] = "whole"]
    /\ ll_cache' = ll_cache \cup {SourceOf[f]}
    /\ locks' = [locks EXCEPT ![SourceOf[f]] = Nobody]
    /\ pc' = [pc EXCEPT ![f] = "extract"]
    /\ UNCHANGED <<sessions, session, sem, outcome, json_cache, shown, finished>>

\* Variants: the permit is given back twice, or only by successful functions.
Conclude_Twice(f, o) ==
    /\ pc' = [pc EXCEPT ![f] = "done"]
    /\ sem' = sem + 2
    /\ outcome' = [outcome EXCEPT ![f] = o]
    /\ \/ UNCHANGED session
       \/ session' = "raised"
    /\ UNCHANGED <<sessions, ll_cache, json_cache, shown, finished>>
Conclude_LeakOnError(f, o) ==
    /\ pc' = [pc EXCEPT ![f] = "done"]
    /\ sem' = IF o = "ok" THEN sem + 1 ELSE sem
    /\ outcome' = [outcome EXCEPT ![f] = o]
    /\ \/ UNCHANGED session
       \/ session' = "raised"
    /\ UNCHANGED <<sessions, ll_cache, json_cache, shown, finished>>

\* The end of run_one: the permit is released and the result passed to
\* on_progress, which may raise (the TUI's call_from_thread after the user has
\* quit): then gather raises too.
Conclude(f, o) ==
    /\ pc' = [pc EXCEPT ![f] = "done"]
    /\ sem' = sem + 1
    /\ outcome' = [outcome EXCEPT ![f] = o]
    /\ \/ UNCHANGED session
       \/ session' = "raised"
    /\ UNCHANGED <<sessions, ll_cache, json_cache, shown, finished>>

\* Variant: the error path keeps the source's lock.
CompileFails_KeepsLock(f) ==
    /\ Alive
    /\ pc[f] = "compile"
    /\ \E left \in {"absent", "partial"} : full_ll' = [full_ll EXCEPT ![SourceOf[f]] = left]
    /\ UNCHANGED locks
    /\ Conclude(f, "error")

\* clang fails: nothing is cached, and the next function of this source that
\* gets the lock compiles again.
CompileFails(f) ==
    /\ Alive
    /\ pc[f] = "compile"
    /\ \E left \in {"absent", "partial"} : full_ll' = [full_ll EXCEPT ![SourceOf[f]] = left]
    /\ locks' = [locks EXCEPT ![SourceOf[f]] = Nobody]
    /\ Conclude(f, "error")

\* llvm-extract has read full.ll, and the function's own module is sanitized.
Extract(f) ==
    /\ Alive
    /\ pc[f] = "extract"
    /\ pc' = [pc EXCEPT ![f] = "lower"]
    /\ UNCHANGED <<sessions, session, sem, locks, ll_cache, full_ll, outcome, json_cache, shown, finished>>

Lower(f) ==
    /\ Alive
    /\ pc[f] = "lower"
    /\ pc' = [pc EXCEPT ![f] = "explain"]
    /\ UNCHANGED <<sessions, session, sem, locks, ll_cache, full_ll, outcome, json_cache, shown, finished>>

ToolFails(f) ==
    /\ Alive
    /\ pc[f] \in {"extract", "lower", "explain"}
    /\ UNCHANGED <<locks, full_ll>>
    /\ Conclude(f, "error")

\* The last opt: only its absence is an error, its exit code is not looked at.
Explain(f) ==
    /\ Alive
    /\ pc[f] = "explain"
    /\ UNCHANGED <<locks, full_ll>>
    /\ Conclude(f, "ok")

\* gather returns; cleanup() removes the work directory.
Gather ==
    /\ session = "running"
    /\ \A f \in Funcs : pc[f] = "done"
    /\ session' = "returned"
    /\ full_ll' = [s \in Sources |-> "absent"]
    /\ finished' = finished \cup {outcome}
    /\ UNCHANGED <<sessions, pc, sem, locks, ll_cache, outcome, json_cache, shown>>

\* Variant: results are saved in the finally block.
GatherRaises_Saves ==
    /\ session = "raised"
    /\ session' = "returned"
    /\ full_ll' = [s \in Sources |-> "absent"]
    /\ UNCHANGED <<sessions, pc, sem, locks, ll_cache, outcome, json_cache, shown, finished>>

\* gather has raised: cleanup() runs in the finally block, and the other
\* coroutines never resume (the loop stops or cancels them).
GatherRaises ==
    /\ session = "raised"
    /\ session' = "failed"
    /\ full_ll' = [s \in Sources |-> "absent"]
    /\ UNCHANGED <<sessions, pc, sem, locks, ll_cache, outcome, json_cache, shown, finished>>

\* save_cache truncates the file and writes it.
SaveOpen ==
    /\ session = "returned"
    /\ session' = "writing"
    /\ json_cache' = NoFile
    /\ UNCHANGED <<sessions, runVars, shown, finished>>

SaveClose ==
    /\ session = "writing"
    /\ session' = "shown"
    /\ json_cache' = [valid |-> TRUE, results |-> outcome]
    /\ shown' = outcome
    /\ UNCHANGED <<sessions, runVars, finished>>

\* Opening or writing raises: the command line ends without output, the TUI, whose results
\* are already assigned, still presents them.
SaveFails ==
    /\ session \in {"returned", "writing"}
    /\ \/ session' = "failed" /\ UNCHANGED shown
       \/ session' = "shown" /\ shown' = outcome
    /\ UNCHANGED <<sessions, runVars, json_cache, finished>>

Kill ==
    /\ session \notin Ended \cup {"idle"}
    /\ session' = "killed"
    /\ UNCHANGED <<sessions, runVars, json_cache, shown, finished>>

\* The next session: a new process with a work directory of its own.
NewSession ==
    /\ session \in Ended
    /\ sessions < MaxSessions
    /\ sessions' = sessions + 1
    /\ session' = "idle"
    /\ pc' = [f \in Funcs |-> "new"]
    /\ sem' = Parallelism
    /\ locks' = [s \in Sources |-> Nobody]
    /\ ll_cache' = {}
    /\ full_ll' = [s \in Sources |-> "absent"]
    /\ outcome' = NoResults
    /\ shown' = NoResults
    /\ UNCHANGED <<json_cache, finished>>

Terminated == session \in Ended /\ sessions = MaxSessions /\ UNCHANGED vars

RunOne(f) ==
    \/ Acquire(f) \/ LockSource(f) \/ CompileOK(f) \/ CompileFails(f)
    \/ Extract(f) \/ Lower(f) \/ ToolFails(f) \/ Explain(f)

Driver == ShowCached \/ StartRun \/ Gather \/ GatherRaises \/ SaveOpen \/ SaveClose \/ SaveFails

Next == (\E f \in Funcs : RunOne(f)) \/ Driver \/ Kill \/ NewSession \/ Terminated

Spec == Init /\ [][Next]_vars

\* The event loop serves every ready coroutine, and the tools end (the code
\* gives them no time limit, so a tool that hangs is outside EverySessionEnds).
Fairness == WF_vars(Driver) /\ \A f \in Funcs : WF_vars(RunOne(f))

FairSpec == Spec /\ Fairness

-----------------------------------------------------------------------------
TypeOK ==
    /\ sessions \in 0..MaxSessions
    /\ session \in {"idle", "running", "raised", "returned", "writing"} \cup Ended
    /\ pc \in [Funcs -> {"new", "done"} \cup Inside]
    /\ sem \in 0..Parallelism
    /\ locks \in [Sources -> Funcs \cup {Nobody}]
    /\ ll_cache \subseteq Sources
    /\ full_ll \in [Sources -> {"absent", "partial", "whole"}]
    /\ outcome \in [Funcs -> {"none", "ok", "error"}]
    /\ json_cache \in JsonFile
    /\ shown \in Results \cup {NoResults}
    /\ finished \subseteq Results

\* Every path out of run_one, the error paths included, gives its permit back,
\* so the parallelism asked for neither shrinks nor grows over a run.
PermitsBalanced == sem + Cardinality(Holders) = Parallelism

\* llvm-extract reads a finished module: nobody compiles a source again, and no
\* failed compile leaves its debris, while another function of it extracts.
WholeModuleRead ==
    \A f \in Funcs : Alive /\ pc[f] = "extract" => full_ll[SourceOf[f]] = "whole"

\* A source is compiled successfully at most once per run.
KeepsModules ==
    Alive /\ Alive' => \A s \in Sources : full_ll[s] = "whole" => full_ll'[s] = "whole"
CompiledOnce == [][KeepsModules]_vars

\* What is presented, from a run or from the file of an earlier session, are the
\* results of one run that finished: no run that raised or was killed while it
\* ran or while it saved leaves results behind that a later session trusts.
ShownIsFinished ==
    /\ shown = NoResults \/ shown \in finished
    /\ json_cache.valid => json_cache.results \in finished

\* No permit or lock is left behind that would keep a session from ending.
EverySessionEnds == session \in {"running", "raised", "returned", "writing"} ~> session \in Ended

-----------------------------------------------------------------------------
(* The inductive invariant. *)

\* A source's lock is held exactly by the coroutine that compiles it, what the
\* cache maps is whole, and who extracts has found it in the cache.
ModuleInv ==
    /\ \A s \in Sources : locks[s] # Nobody => locks[s] \in Funcs /\ SourceOf[locks[s]] = s
    /\ \A f \in Funcs : pc[f] = "compile" <=> locks[SourceOf[f]] = f
    /\ Alive \/ session = "idle" =>
           \A s \in Sources : s \in ll_cache <=> full_ll[s] = "whole"
    /\ \A s \in ll_cache : locks[s] = Nobody
    /\ \A f \in Funcs : pc[f] \in {"extract", "lower", "explain"} => SourceOf[f] \in ll_cache

\* Who is done has an outcome, so a returned run has one for every function.
OutcomeInv ==
    /\ \A f \in Funcs : pc[f] = "done" <=> outcome[f] # "none"
    /\ session \in {"returned", "writing"} => outcome \in finished
=============================================================================
