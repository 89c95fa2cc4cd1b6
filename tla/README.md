# Verification of the vectorizer experiments

The repository measures LLVM's VPlan vectorizer: it extracts the vectorization
factors (VFs) the cost model considered for each loop, builds the loop once per
factor, runs every binary on a RISC-V simulator (or natively on x86), and stores
the results in SQLite files for plots and reports.  Two things decide whether
those numbers mean anything.  One is the orchestration: batch drivers with
thread pools, caches and files shared between runs, containers that fail, hang
or are killed.  The other is the programs that are measured: kernels that must
compute the same thing however they are vectorized, a sort that verifies itself,
a barrier, and the harnesses whose few words become a verdict.  This directory
specifies both.

## 1. Inventory

| component | code | state it keeps | operations | talks to |
|---|---|---|---|---|
| emulate-all driver | `scripts/emulate_all.py` | run id, scheduled jobs, futures, failure counter; per-workload SQLite files, aggregate file | plan, submit, collect, export, exit | VFS files, thread pool, emulate.py |
| profile-all driver | `scripts/profile_all.py` | the same, one database that is never unlinked | plan, submit, collect, exit | VFS aggregate, thread pool, profile.py |
| dlmul suite runner | `scripts/dlmul_runner.py`, `dlmul_bench.py`, `dlmul_microbench.py` | one database, unlinked at the start | select, submit, collect, exit | thread pool, emulate.py |
| thread pool | Python's `concurrent.futures` (external) | future of each job | submit, start, finish, as_completed | the three drivers |
| single emulation | `scripts/emulate.py` | time-stamped artifact directory, summary | validate, run container, parse | docker, run-sim.sh |
| VF extraction | `scripts/vplan_explain.py` | fixed output directory per workload | run container, parse log | docker, opt |
| VFS producer | `scripts/vplan_explain_all.py`, `Makefile` | `artifacts/vfs/*.sqlite`, aggregate, compat copy | write workload file, export, copy | VF extraction, the drivers |
| benchmark sources | `scripts/benchmark_sources.py` | generated kernel sources | discover, generate | all runners |
| vf-performance | `experiment/vf-performance` | JSON caches keyed by configuration, IR and objects kept by name, QEMU guest | analyze, verify, build, run, load/save | opt, clang, gem5, QEMU guest |
| vplan-diversity | `experiment/vplan-diversity` | compile cache, one lock per source, semaphore | compile, extract, explain, gather | clang, opt |
| simulator front end | `emulator/run-sim.sh` (Python) | log directory with result files | build, run, parse status and cycles | simulators |
| workload builder | `emulator/run/build-workload` (Python) | build directory | compile, link | clang, opt |
| C harness | `emulator/run/common`, `emulator/run/src/parsec/common` | timers, arrays, stubs | start, stop, print, stop the simulator | the kernels, run-sim |
| TSVC kernels | `emulator/run/src/tsvc` | arrays `a` ... `cc` | 138 loops | harness |
| dlmul kernels | `emulator/run/src/dlmul-synthesis` | the same arrays, vector registers | 14 benches and 11 microbenches in fixed and changing register groupings | harness |
| NPB IS | `emulator/run/src/npb/npb_is_s/is.c` | keys, buckets, threadprivate pointers | create_seq, rank, full_verify | OpenMP (compiled away on the emulator) |
| PARSEC barrier | `.../parsec/streamcluster/upstream/parsec_barrier.cpp` | mutex, condition variable, counter, phase | wait | streamcluster |
| PARSEC applications | `.../parsec/{streamcluster,blackscholes,swaptions}` | matrices, options, paths | numerical kernels | barrier, harness |
| plots and reports | `scripts/plot_*.py`, `generate_compare_report.py` | none | read databases | finished databases |

Interaction: `make vfs` runs the VFS producer; `make emulate-all` and `make
profile-all` read its files and start one container per job from a thread pool;
results go to files named after architecture, scope and a run id of minute
granularity; the plots pick files by name.  The two experiments under
`experiment/` are pipelines of their own with their own caches.

What is hard to test here, and what makes each component correct:

* **Batch drivers.** Completion order is arbitrary; a job may fail, raise an
  exception, or raise `SystemExit`, which `except Exception` does not catch; the
  process may be killed anywhere; two runs of one minute share files.  Correct
  means: one row per job with its own verdict, a status that speaks for the
  rows, nothing of a dead run mixed in, and an end to every run.
* **VFS producer and its readers.** Files are replaced in place while others
  may read them, and survive crashes half refreshed.  Correct means: a reader's
  candidates belong to one finished extraction for its architecture.
* **vf-performance.** Result caches are keyed by configuration while the IR
  they are computed from is kept by file name alone; failures are cached like
  results.  Correct means: a cached answer is an answer to the question its key
  asks.
* **vplan-diversity.** Many coroutines share one compile per source.  Correct
  means: compiled once, never read while written, and no waiter left behind.
* **run-sim.** Status is pieced together from exit code, markers in logs and
  files that may be left from earlier runs.  Correct means: a good verdict is
  earned, and the cycles are this run's.
* **Kernels.** Whether a loop may be vectorized, and up to which width, is a
  claim in a comment; register groupings change in the middle of a loop.
  Correct means: vector code does what one element at a time does, inside the
  arrays.
* **NPB IS.** Threads share arrays between `omp for` loops and keep pointers of
  their own.  Correct means: keys do not depend on the team, ranks are right.
* **PARSEC barrier.** One counter serves all rounds, a poll reads the phase
  without the mutex.  Correct means: rounds never mix, nobody sleeps for ever.

`PROJECT.json` lists every component with its status, and under `hazards` each
of these points at its line with the properties that cover it.

## 2. Modules and plan

| step | modules | composes | abstract specification | proofs |
|---|---|---|---|---|
| 1 (done) | `EmulateAll`, `EmulateAllRefinement`, `MCEmulateAll` | `ThreadPool` | `BatchPromise` | `EmulateAllProofs`: all safety properties of the runs and the refinement |
| 2 (done) | `DiversityPipeline`, `MCDiversityPipeline` | | | `DiversityProofs`: all safety properties |
| 3 (done) | `VfPipeline`, `MCVfPipeline` | | | `VfProofs`: all safety properties |
| 4 (done) | `VfsProduction`, `MCVfsProduction` | producer and both readers of the VFS files | | `VfsProductionProofs`: types, one writer per file, an undisturbed make reads its own |
| 5 (done) | `SimHarness`, `SimulatedRun`, `MCSimulatedRun` | run-sim, emulate.py and the harnesses | | `SimulatedRunProofs`: verdicts and cycles |
| 6 (done) | `ParsecBarrier`, `BarrierChecker` | the checker program over the barrier | `BarrierPromise` | `ParsecBarrierProofs`: all safety properties of the barrier, the refinement, and that the checker's counters agree |
| 7 (done) | `IsKeys`, `IsRank`, `IsBenchmark`, `MCIsBenchmark` | `create_seq`, then `rank` and `full_verify` | reference definitions: the one random sequence, ranks by counting | `IsBenchmarkProofs`: the keys, pointers, ranks, the sorted end |
| 8 (done) | `TsvcLoops`, `TsvcDependence`, `TsvcTransform`, `TsvcControl`, `TsvcReduce`, `TsvcVector`, `MCTsvcVector` | kernels and a vector machine | sequential execution | `TsvcProofs`: all its properties |
| 9 (done) | `DlmulCode`, `DlmulBench`, `DlmulMicro`, `DlmulStrips`, `MCDlmulStrips` | kernels and a strip-mining machine | one element at a time | |
| 10 (left) | pool loops of `profile_all.py` and `dlmul_runner.py` | `ThreadPool` | `BatchPromise` where it holds | counters |

The orchestration modules were done first, then their surroundings: step 4 is
the producer of the files emulate-all reads, step 5 the run a job of emulate-all
consists of, steps 6 to 9 what such a run executes.

Constants are parameters throughout (processes, workloads, factors, lengths,
workers, bounds), each module names its assumptions on them (`EmulateAssumption`,
`ProductionAssumption`, `BarrierAssumption` and so on).  `RECURSIVE` occurs only
in modules without theorems.  Names
ending in `_Something` next to an action or operator (`Conclude_Twice`) are
faulty variants of it: a property is only kept if some such variant breaks it.

## 3. emulate-all

`EmulateAll` models `main()` of `scripts/emulate_all.py` for a set `Procs` of
invocations sharing one artifacts directory.

| in the model | in the code |
|---|---|
| `vfs[p]` | what `load_workload_vfs_records` / `load_vfs_data` read: per-workload files, else the aggregate, else nothing |
| `run_id[p]`, `minute` | `run_id`, a time stamp of minute granularity |
| `future_map[p]`, `result[p]` | `scheduled`, then the futures of the pool, and how each job ends |
| `emulate_failures[p]`, `exit[p]` | the counter and the exit status |
| `workload_db[m][b]` | `emulate-result-<bench>-<run_id>.sqlite` |
| `aggregate_db[k]`, `aggregate_creator[k]` | the aggregate of an architecture and run id, and who unlinked and created it last |
| `PlanWorkload` | one turn of the loop that unlinks a workload's file, records VFS failures and schedules its jobs |
| `SubmitJobs`, `StartJob`, `FinishJob` | `submit`, the worker threads |
| `CollectJob`, `CollectSystemExit` | one turn of the `as_completed` loop |
| `LeavePool`, `LeaveDrainedPool` | leaving the `with` block normally, or by an exception, which waits for every job |
| `ExportOpen`, `ExportWorkload`, `ExportError`, `Finish` | `export_aggregate_db` and the end of `main()` |
| `Refuse`, `Kill` | `emulate.fail` before any file is touched; the process dies |

`ThreadPool` is the pool (`concurrent.futures`, external), `INSTANCE`d by the
driver: an operator per thing the driver relies on.  `BatchPromise` says what a
batch promises without pools or files: every wanted job has one verdict, the
report lists them all, the status is their conjunction, an abandoned batch
publishes nothing.  `EmulateAllRefinement` maps a lone run to it, reading the
verdicts from the rows *on disk* and the report from the exported file.

**Runs.** `emulate_solo` (140 028 states): two workloads, one candidate factor,
two workers, all five outcomes of a job.  Four jobs on two workers give every
order of completion, waiting jobs, a `SystemExit` with others running and
waiting, and both kinds of input failure.  It checks `AggregateComplete`,
`ExitMatchesRows`, that the run ends (`EveryRunEnds`) and
that it refines `BatchPromise` (`KeepsPromise`).  `emulate_shared` (4.5 million
states): two invocations over two minutes, same or different minute, overlapping
or one after another was killed anywhere; one workload and three outcomes
suffice because processes meet in the files only, and each file has one
workload.  It shows what holds for a run that no other invocation of its minute
overlapped (`Undisturbed`): nothing left by a dead run gets into its aggregate,
export finds its tables, rows are never lost or overwritten (`RowsOnlyGrow`).
Two *overlapping* invocations in one minute do damage each other; the code makes
no promise about them, and the properties say so by their precondition.

**Fairness.** Weak, for the main thread and for the workers of each invocation:
threads are scheduled by the operating system, and each job ends because
`run-sim.sh` bounds a simulation by its `--timeout`.  Nothing is assumed about
starting, killing or the clock.

**Proofs** (`EmulateAllProofs`, any number of invocations, workloads, factors,
workers and minutes).  The properties are about finished runs and files and are
not inductive.  The strengthening has four parts, proved in this order, each
using the earlier ones: `ControlInv` (who had ended when a run started),
`FuturesInv` (how far every future is at every control point; in particular all
due jobs are collected before export), `LedgerInv` (a workload file of an
undisturbed run holds exactly the rows the run has produced) and `ExportInv` (so
does the aggregate, for the workloads copied so far, and the status is the
counter's).  Two lemmas carry the concurrency: `Apart` (two runs with one id are
never both active and undisturbed) and `FreshKey` (a job's key is not in its
file before it is collected).  `TablesInv` (rows are in files that exist) adds
what `ExportFindsTables` needs, and `FailuresCounted` (the counter is the number of
collected jobs with a failing verdict), which no run checks by itself, is an
induction of its own on the cardinality of the collected failing jobs.

The same module shows that a run alone in its directory (`Alone`) implements
`BatchPromise`.  It adds `FreshInv` (files the run has not planned yet
hold nothing) and derives `VerdictsInv`: while the run is active a verdict is on
disk exactly for the collected jobs, and it is theirs.  `PlanWorkload` is then the
promise's `Want`, `CollectJob` its `Record`, `Finish` its `Publish`; a refusal, a
kill, a drained pool and an export error are its `Abandon`, all else stutters.

**Left out.** The order of the planning and export loops (any order is allowed);
unreadable or locked SQLite files and a full disk (they end the process like
`Kill`); containers that outlive a killed process (they write to directories of
their own, not to the databases).

## 4. vplan-diversity

`DiversityPipeline` models `pipeline.py`, `cli.py` and the results file of
`analytics.py`: one coroutine per benchmark function, a semaphore, a lock and a
compile cache per source, and sessions that follow each other.  Coroutines
interleave only at an `await`; what lies between two is one action.

| in the model | in the code |
|---|---|
| `pc[f]` | where `run_one` waits |
| `sem`, `locks`, `ll_cache` | `self.sem`, `_full_ll_locks`, `_full_ll_cache` |
| `full_ll[s]` | the file `full_<hash>.ll` in the session's work directory |
| `outcome`, `json_cache`, `shown` | the `BenchResult`s, the results file, what is presented |
| `Acquire`, `LockSource`, `CompileOK`, `CompileFails` | entering `async with self.sem`, `_get_full_ll` |
| `Extract`, `Lower`, `Explain`, `ToolFails` | the tools of `run_one` |
| `Conclude` | the release of the permit and `on_progress`, which may raise |
| `Gather`, `GatherRaises` | the two ways `run_all` ends; both clean up |
| `SaveOpen`, `SaveClose`, `SaveFails`, `ShowCached` | `save_cache`, `load_cache` |

**Run** `diversity` (36 585 states): three functions, two of them of one source,
two permits, two sessions.  That is the least with a function waiting for a
lock while it holds a permit, another waiting for a permit, and another source
going on meanwhile; the second session meets the results file the first left,
whole, cut or missing.  `WholeModuleRead`, `CompiledOnce` and `PermitsBalanced`
are about the lock, the cache and the semaphore; `ShownIsFinished` says that
nothing of a run that raised or was killed is ever presented later.
`EverySessionEnds` needs only that ready coroutines run and tools end; the code
sets the tools no time limit, so a hanging tool is outside it.

**Proofs** (`DiversityProofs`).  The inductive invariant is `TypeOK`,
`PermitsBalanced`, `ModuleInv` (who is compiling holds the lock; a cached module
is whole and nobody compiles its source), `OutcomeInv` (exactly the functions
that are done have outcomes) and `ShownIsFinished`.  The semaphore argument is
about the cardinality of the set of coroutines inside (`HoldersStep`).

**Left out.** Two sessions at once (their work directories differ, the results
file is shared); parsing of the explain output.  The exit code of the last `opt`
is not looked at by the code, so its failure is an `ok` outcome here too.

## 5. vf-performance

`VfPipeline` models `pipeline.py`, `build.py`, `storage.py` and `clean.sh` for
the local executor.  A code is abstracted to what matters for a cache: which
text of the source, and which `--len`, it was made from.

| in the model | in the code |
|---|---|
| `source[b]`, `Edit` | the benchmark's source file, which a developer may edit at any time |
| `phase`, `pc[b]`, `request[b]`, `result[b]` | where `run()` is, the request under way and its `RunResult` |
| `ir[b]`, `prevec[b]` | `work/<benchmark>.ll` and `.prevec.ll`, reused whenever they exist |
| `support[l]` | the support objects, in a directory per `_support_key` |
| `analysis_json`, `run_json` | the answers kept by `storage.py`, under keys with the length |
| `prevec_cache`, `analyses`, `rows` | the session's memory |
| `StartIR` ... `PrevecFails` | `_ensure_prevec` and `compile_to_ir`, with the failure paths of their two callers |
| `LoadAnalysis`, `Explain`, `SaveAnalysis` | `_load_or_analyze` |
| `LoadRun`, `StartRun`, `Verify`, `Build`, `Gem5`, `SaveRun` and failures | `_run_request` and what it calls |
| `Clean`, `Kill`, `NewSession` | `clean.sh`, a killed process, the next start with any `--len` and `--no-cache` |

`seen[b]` is history: the codes a benchmark has had during sessions since
`clean.sh` last ran.  `clean.sh` removes the `.cache` of its own directory, a session
uses the one of the directory it is started in (`pipeline.py:862`, `cli.py:73`);
the model takes the two to be the same, and so do `SinceClean` and `AnswersCurrent`.

**Runs.** `vf_history` (848 000 states): one benchmark, one forced factor, two
lengths, one edit, three sessions.  Keys name the benchmark, so histories of
different benchmarks do not meet; three sessions are enough for an answer to be
written, invalidated by an edit or another length, and read again.

* `SinceClean`: `clean.sh` leaves nothing that could answer for a text or a
  length of before.
* `AnswersCurrent`: as long as a benchmark has one text and one length since
  then, every answer is about the current code, wherever it came from.
* `LinkedForItsKey`: unlike the IR, the support objects are kept apart by
  length, so no binary mixes two lengths.
* `DeltaIsOwn`: deltas always compare with the default run shown beside them,
  though either may come from the cache.
* `NoCacheMeasures`: a `--no-cache` session presents its own measurements.
* `SessionEnds`: failures are recorded once or end the session; `_verify_forced_vf`
  lets the failures of `_ensure_prevec` through, which ends it.  Fairness is
  weak for the work on each benchmark: gem5 has a time limit of 600 s, the other
  tools are taken to end by themselves.

**Finding** (`vf_fresh`).  `compile_to_ir` (`build.py:157`) and `_ensure_prevec`
(`pipeline.py:552`) accept any existing file of the benchmark's name.  With a
second `--len`, even with `--no-cache` ("Ignore cached analyses and runs",
`cli.py:54`), the analysis is made of the code for the *first* length and filed
under a key that contains the second (`storage.py:65`).  `NoCacheIsFresh` states
what the options say, and TLC shows the two sessions.  `AnswersCurrent` is the
part that does hold, and its precondition the way to stay within it:
run `clean.sh` before changing `--len` or a source.

**Proofs** (`VfProofs`, any benchmarks, lengths, factors, offered factors, edits
and sessions).  The inductive invariant is `TypeOK`, `KnownInv` (what a session
holds in memory is as known as what is on disk, and the code it would compile
now is known), `LinkInv` (each support directory holds objects of its own
length), `RowInv` (kept answers carry no delta; a row is written once, the
default one first), `DeltaIsOwn` and `NoCacheMeasures`.  `KnownInv` and
`LinkInv` need only the types; `DeltaIsOwn` needs `RowInv`, because a default
run replaced later would leave deltas behind.

**Left out.** The QEMU guest (files on two machines, its start-up); exceptions
while a cache file is written (a kill may leave it cut, which `storage.py:136` reads
as no answer: in the model such a file answers nothing, so no property would
notice if it did); sizes of the analysis pool (each benchmark's
analysis is independent) and the order of the benchmarks; the status text of a
run, on which nothing depends; `stats.txt` left by an earlier gem5 run; changes
of the support sources; two sessions at once.

## 6. Producing the vectorization factors

`VfsProduction` models `make emulate-all` and `make profile-all` from their
beginning: `vplan_explain_all.py` with `vplan_explain.py` and its container,
then what `emulate_all.py` or `profile_all.py` reads.

| in the model | in the code |
|---|---|
| `Container`, `NoAnalysisSource` | `run_vplan_explain`; the log has one place per workload, for all architectures |
| `Record`, `Create`, `Insert` | `write_workload_db`: unlink, `CREATE TABLE`, one commit per row |
| `Export`, `CopyBegins`, `CopyEnds` | `export_aggregate_db` and `shutil.copyfile` to `vfs-<arch>.db` |
| `ReadWorkload`, `ReadCopy` | `load_workload_vfs_records`, `load_vfs_data` |
| `answer[p]`, `disturbed` | history: what each container really said, and which makes another one changed files under |

**Run** `vfs_production` (2.6 million states): a make for RVV and one for Intel,
two workloads, one factor.  Two makes overlap, or the second follows the first,
whole or killed anywhere; they meet in the logs and in the workloads' files.
Two workloads are the least with a finished one beside an unfinished one.  With
two factors the model has 34.8 million states and was checked once without an
error; it takes longer than a run should.
`OneWriter` holds without any precondition: overlapping makes may destroy each
other's files, but never blend them.  `ReadsItsOwn` is about undisturbed makes,
and about everything that was left lying before they began; the model shows
that a disturbed make may read another architecture's factors, which nothing in
the code promises to prevent.  A failing `opt` behind `| tee` is recorded as
"no factor" or as some of them, as the code does.

**Proofs** (`VfsProductionProofs`, any makes, workloads and factors): types and
`OneWriter`, with two more parts in the invariant: a make's pending rows are its
own (`PendingOwn`), and while it inserts into a file it made, file and pending
rows together are one answer (`Writing`).

The proof of `ReadsItsOwn` needs a second invariant, which says how far an
undisturbed make has come with its files, place by place: the files of earlier workloads are
whole (`Loop`), the present one holds the rows inserted so far (`Writes`), then
the aggregate (`Exports`), the copy and what was read (`Reads`) follow the answers.
The interference is in `Quiet`: beside an active undisturbed make all others are
at steps that change no file, for the first one that does disturbs it
(`OthersIdle`).

**Left out.** A container that goes on after its make was killed; two makes of
one architecture in one minute, which share the aggregate's name.

## 7. One simulated run

`SimHarness` says which words a workload writes and how it stops the simulator,
for the ten harnesses of `emulator/run/common` that run-sim uses and for a
program that runs into the trap handler.  `SimulatedRun` is `run-sim.sh` around
it, called by `emulate.py` (a fresh directory in a container for each run) or by
a user (one log directory and one build directory for all runs).

| in the model | in the code |
|---|---|
| `job[n]` | simulator, entry mode, trace, what the program does |
| `program`, `simulator` | external: how far the program is, and how the simulator ends: by the program, by a limit or an assertion of its own |
| `caught`, `log`, `out` | what the pipes delivered, `<workload>.log`, `<workload>.out` |
| `vmem`, `image` | the run whose program Vicuna's `<workload>.vmem` holds, and the run whose program a simulator loads |
| `events` | the run that wrote T1's `<workload>-rtl-event.jsonl` |
| `Begin`, `BuildFails`, `Launch` | `emulate.py`; the build; the start, whose redirections empty the files and which converts the ELF for Vicuna if it never was (`Convert`) |
| `ProgramStep`, `ProgramStops`, `Breaks`, `Chatter`, `OpensEvents` | external |
| `Returns`, `TimesOut` | the two ways out of `subprocess.run`, and the judgement: `_parse_status_from_log`, `run_*_sim`, `_parse_kernel_cycles_from_trace` |

The simulators are external and modelled from what run-sim looks for: a limit of
cycles ends with a failure (on XiangShan perhaps with exit code 0: nothing in the
repository tells), `$finish` is written at a normal end, gem5's exit
code need not be the program's, T1 opens its event file before it runs the
program.  A simulator behind a pipe survives the timeout,
because only the shell is killed.

**Run** `simulated_run` (4.1 million states): two runs one after another, every
job in each place, so that the second meets whatever the first left (an `.out`, a
`.vmem`, an event file, never removed by run-sim) and a
simulator that is still running.  `VerdictTrue` says that a good verdict is
earned, and that a good run gets one; `MeasuredByItself` that reported cycles are
of this run and of a finished timed part.  Both name the cases that the code
does not exclude:

* `Alone`: Chipyard called directly with an older `.out` file it does not
  replace, or with an earlier simulator still writing it.
* `Judged`: Vicuna called directly where an earlier run has left its `.vmem`
  (`run-sim.sh:945` converts only where there is none).  After an edit of the source
  the earlier program is simulated, and the verdict is about that program: this is
  what `VerdictTrue` then says.
* `Unopened`: T1 called directly where an earlier run has left its event file
  (`run-sim.sh:891` reads any that exists), if the simulator ends before the program
  takes a step: the cycles reported may be the earlier run's.
* `Limited`: XiangShan ended before its program.
* `Unheard`: T1 with a trace, where standard output is not read.

Without any one of them TLC finds the property violated.  Under emulate every run
has its own directory and only the last two remain.

**Proofs** (`SimulatedRunProofs`, any number of runs of any jobs, any timeouts): both
properties.  A verdict is read from words whose writers may have ended long ago, perhaps of a
program built by an earlier run (`Loads` says which one a simulator runs),
so the inductive invariant has to say what each word means.  `Control` says which
simulators are still running: besides the run that waits only those behind the
shell of a timed-out run.  `Writers` says whose words the `.out` file holds, all
this run's own if it is `Alone`.  `Words` is the heart: for the run that waits, what
each word heard so far tells of its program and simulator (`PASSED` or the good
trap: it did right and is at its end), and which word must have been heard from a
wrong one.  `Reads` does the same for the reads of the cycle counter in a trace,
`Exits` for exit codes.  `Kept` are the two properties, which later runs must not
undo.  Each external step lets a script go on by one word (`OutWordsGrow`,
`Speaking`), so that `Returns` and `TimesOut` judge by words that are understood.

**Finding** (`gem5_kernel`).  `harness_gem5.c:65` compares `a` with the values
one kernel leaves; every other kernel is reported as failed and without cycles,
though `emulator/README.md:221` speaks of kernel cycles and the help of run-sim
runs `s271` on gem5.

**Left out.** `--all` (a loop of such runs), `--list`, `--dry-run`; total cycles;
`harness.c` and `main_harness.c` (HTIF), which run-sim does not use.

## 8. The PARSEC barrier

`ParsecBarrier` is `parsec_barrier_wait` in both builds, with the mutex and the
condition variable as pthreads define them, spurious wake-ups included.  A poll
may end whenever it likes, because it reads the phase without the mutex and also
ends when its counter runs out: nothing is known afterwards.  `BarrierPromise`
is what a barrier promises; `BarrierChecker` composes the barrier with
`counter_thread` of the checker program in the same file, whose comment "all
counter values are always the same after each step" is `SameAfterEachStep`.

**Run** `barrier`: three threads, four waits each (two steps of either kind), one
spurious wake-up, the spinning build, which falls back to `pthread_cond_wait`
and so has the blocking build's code in it.  Three threads are the least with a
first, a last and one in between, and more rounds than phases let a fast thread
meet the round after next.  `EveryoneGetsThrough` needs that each thread that
can take a step takes one eventually.

**Proofs** (`ParsecBarrierProofs`, both builds, any finite set of threads, any
rounds, any number of spurious wake-ups): all safety properties of the barrier
and `KeepsPromise`.  The inductive invariant is `TypeOK`, `CounterInv` (`n` is the
number of threads inside and the phase turns at full and empty), `Control` (who
holds the mutex is where), `RoundInv` (in one phase all have left the same rounds,
in the other all have arrived in the same), `SerialInv` (exactly one thread inside
is the master of the round that is being left) and `NoLostWakeup`.  `OneSerial`
is proved but not in the run's list: it follows from the promise.

`SameAfterEachStep` is proved for threads numbered from 0
(`Numbered`), as the checker numbers them: a thread is at most one step behind its
waits (`Steps`) and its counter is half its steps (`Counts`), so that, rounds
being apart, whoever reads after wait L finds everybody L - 1 or L steps on.

**Left out.** Attributes, `destroy`, error codes of the pthread calls; the checker's
first phase (`stress_thread`) and its bugger threads, which keep the processor busy
and never call the barrier (`main` repeats both phases with none up to `NBUGGERS`
of them).  On the emulator the programs are built without threads and the
barrier is not called.

## 9. NPB IS

`IsKeys` is `randlc`, `find_my_seed` and `create_seq`: each thread jumps to its
place in the random sequence and fills its share of the keys.  `IsRank` is
`rank` and `full_verify` as built (buckets), by an OpenMP team; work between two
barriers that touches only a thread's own data is one action.  `IsBenchmark` puts
`main` together: whatever `create_seq` leaves is what is ranked.

**Run** `is`: six keys below four, two buckets, two iterations, three threads that
rank, one to four that create the keys, halves of three bits instead of 23.  Six
keys over three or four threads give even, uneven and empty shares.  Since short
sequences reach few arrays, a run may also begin with any of the 4096 arrays.
`KeysAsInSequence` compares with the one sequence computed factor by factor,
`RanksRight` with a count; `PointersAgree` is about the threadprivate copies that
any thread may use later; `Verified` says that the end is sorted, nothing is
lost, and verification fails only for a test key of 0, which the code skips.

**Proofs** (`IsBenchmarkProofs`: the keys, for any number of threads and keys, any half width, seed and
multiplier).  `randlc` multiplies numbers of two halves by their halves, as doubles
require; `RandlcIs` shows that this is multiplication modulo T46 (2^46 in the
code).  `find_my_seed` skips 4 k1 numbers by squaring.  Its loop invariant is
`Skipping`: what is made so far, times the power still to come (`t2` to the `kk`),
is the number the thread's share begins with; `PowerOfSquare` is why halving `kk`
and squaring `t2` keep it.  `Making` then says that every key made so far is made of
its own four numbers, and `SharesApart` and `SharesCover` that each key is made by
exactly one thread, also when there are more threads than keys.

**Proofs** (`IsBenchmarkProofs`: the sort, for any team, array, number of buckets and iterations).  Every
place `x` of the keys gets its place `Pos` among the keys sorted by bucket: the
number of places with a smaller bucket (`Ahead`), or with the same one before `x`.
`PosPlaces` shows that this is a permutation.  The parts of the invariant follow
the loops:

* `Control`: the barriers keep the team together.
* `Counting`, `Scattering`: a thread's row of `bucket_size` counts its block, its pointers are the
  numbers of `Ahead` for the next key of its block, which is the reason why no two
  threads write one place of `key_buff2`, and why after the last loop all pointers
  are alike (`PointersAgree`).  `TableCounts` and `PointerIs` get this from the sums over
  `bucket_size`.
* `Ranking`: the buckets below `next` have their ranks, whoever took them.
* `Sorted`: what a call of `rank` leaves for the next one or for `full_verify`.
* `Verifying`: while keys are put back, the rank of a key plus the number of its
  copies already placed is the rank it began with (`CountedDown`), and the places
  between the two hold it (`Filled`).  Buckets are disjoint (`OwnBuckets`), so threads
  do not count down one rank together.  When all are placed, the intervals of
  the keys cover the array in order (`FilledIsSorted`).
* `TestsPass`, `TestsCounted`: how many test ranks were found right.

The attempt to prove `Verified` showed an assumption that neither the run nor the code
states: `rank` overwrites the places 1 to 2 MAX_ITERATIONS in its iterations, and
if a test key stood there, its expected rank would be checked against another
key in some of them.  `IsRankAssumption` now excludes those places from
`TestIndices`; every `test_index_array` of `is.c` keeps clear of them (the least
index of class S is 4431, MAX_ITERATIONS is 10).  It also says that the
buckets divide the keys evenly, that there are no more key values than
keys, and that the values `rank` writes are key values; `is.c` has powers of two.

**Left out.** Timers and printing; the build without buckets; the published
ranks, which the model replaces by counts.  That doubles compute exactly is an
argument (every intermediate value is an integer below 2^48), not a check.

## 10. TSVC

The 138 kernels are written down in four modules as the cells each statement
writes, reads and accumulates into, as functions of the loops' variables.
`TsvcVector` runs them in chunks of lanes, one statement at a time for the whole
chunk: `turn` is the iteration of the loop that is not spread over lanes, `first` the
chunk's first lane, `place` the next statement in the order of the vector code.
The content of a cell is who made it, the event (one statement of one
iteration) that wrote it last with the events that have accumulated into it
since; two executions agree when every read finds the same events.  A kernel
names the widths at which it may be run so (all, none, or up to a dependence
distance), and, where its comment says it is vectorizable *by* something, what:
another order of the statements, chunks that end at an iteration, lanes from the
outer loop.

**Run** `tsvc_vector`: widths 2, 4, 8 and 16, four conditions for the loops that have
one (always, never, every second iteration, once), `LEN_1D` 39, `LEN_2D` 7 and 12
for the 64 of s423 and s424 (`Strip`).
39 is not a multiple of any width, is longer than the largest distance, and 16
lanes are more than `Strip`.  `Vectorizable` and `RecurrencesAreReal` together
say that the widths are exact: within them the vector code does what the loop
does, beyond them some lane reads the wrong value.

`InBounds` says which kernels leave the arrays as they are declared: for each kernel
`Room` has the lengths at which its steps and offsets fit, and it leaves them exactly
where they do not.  At the lengths of the run s351 to s353, s423 and s424
do leave (39 is no multiple of five, and 39 + 12 > 7 * 7 + 1), while s422 and
s31111 just fit, so that the property is met from both sides.  For the program
this means: with `types.h` (1000, 32 and 64) s423 and s424 reach past
`flat_2d_array`; with emulate-all's default of 4096, s351 to s353 and s422 to s424.
Elements packed under a condition (s123, s341 to s343) are the cells at the place the
condition has counted so far (`Packed`).

**Proofs** (`TsvcProofs`, all lengths of the arrays, all conditions, all widths up to
`AnyWidth`).

* `Vectorizable`.  `Kept(k, v)` says of a kernel's text that chunks of v lanes keep
  the order of any two events that conflict: one makes what the other reads, or
  both make a cell and one of them writes it.  `SoundIsEnough` shows that the machine
  computes right whatever kernel is kept so.  Its invariant `Right` says that every
  cell holds what the *executed* events leave in it (`Executed`, a set given by
  `turn`, `first` and `place`); a lane about to read a cell then finds all makers
  before it executed and none after it, which is what the loop would find.  That
  each kernel is `Good` is one lemma per kernel; what they share are
  the shapes of loops: `OwnElements` (an iteration touches its own elements only),
  `OneStatement`, `OrderedUp` and `OrderedBy` (statements in another order, steps
  of five), nests of loops and lanes from the outer one.
* `InBounds`, for all lengths.  That a kernel stays inside where `Room` says so is part of
  its lemma (`Good`); that the seven with a condition leave where it fails names one
  access of the last iteration for each (`NoRoomLeaves`), and the others are told from
  them by name (`DependenceNames` and its like).
* `RecurrencesAreReal`, under `Lasts` (9 elements for s1221, more than `Strip` for
  s424, 4 and 3 by 3 for the others): the text of each recurrence has an event that
  reads what an earlier iteration makes (`Carries`), and before which nothing in
  the code of a chunk makes that cell.  `Failing` is the invariant: the machine
  has read wrongly already or is on its way to that event and the cell is
  still empty (`ToMiss`).  In s3112 it is the other way round: when the first lane uses the
  running sum, the second has added to it (`ToOvertake`).  TLC gave the
  counterexample (s1221 with 4 elements) that made `Lasts` necessary.

The lengths of the run satisfy `Lasts` for every kernel.

For the proofs, bodies are functions of the loop variable, contents are sets of
events, and s141, which advances an index by a sum, uses the closed form of that
sum.

**Left out.** Values, hence rounding and reassociation (`-Ofast` allows both);
the outer loops that repeat a kernel.  `tsvc_ip` is never set by `tsvc_runtime.c`, where it
is a null pointer; the model gives it and `indx` a content that repeats
itself and points inside the arrays.  That s353, s4113 to s4116 and s491 find
elements at those places is therefore an assumption, not a result.

## 11. dlmul-synthesis

`DlmulBench` and `DlmulMicro` are the 14 bench and 11 microbench files in every
variant the scripts build, as sequences of vector instructions (`DlmulCode`).
`DlmulStrips` is the machine: `vsetvl`, strips, register groups of one to eight
registers, parts of a group.  A value is the expression it was computed by.

**Run** `dlmul_strips`: VLEN 128 to 1024 (`Lanes` 1 to 8 with one modelled
element for `Unit` = 4), `LEN_1D` 256 as the scripts pass it, one pass of the
outer loop.  `SameAsScalar` compares every variant at every length with the loop
taken one element at a time, which includes strips that do not divide the
length; `InBounds` includes the loops that set the inputs; `DependencySignature`
says that the dep_matrix cases have the dependencies of their names, and no
others.  For a length between one register and two the architecture lets
`vsetvl` choose; both choices are taken, except in programs that split register
groups, which rely on the whole register (the hazard at `db7.c:142`).

**Left out.** Rounding, register pressure (which is what the variants are
measured for), the contents of lanes a masked operation leaves undefined.

## 12. Proved and only checked

Proved for every value of the constants: every safety
invariant and action property the runs check of `EmulateAll`, `DiversityPipeline`,
`VfPipeline`, `VfsProduction`, `SimulatedRun`, `ParsecBarrier`, `BarrierChecker`,
`IsKeys` and `IsRank`, with the types they need, and the two refinements, of
`BatchPromise` by a lone emulate-all and of `BarrierPromise` by the barrier
(`PROJECT.json`, `theorems`).  `FailuresCounted`, `CounterInv`, `OneSerial` and the
types of `VfPipeline` and `VfsProduction` are proved without being in a run's list.

Of `TsvcVector`, the three properties of its run are proved, `RecurrencesAreReal` for the
lengths named in section 10.

Only model-checked are seven of the runs' properties:

* `EveryRunEnds`, `EverySessionEnds`, `SessionEnds` and `EveryoneGetsThrough`: they are
  liveness properties under fairness, out of the prover's reach.
* `SameAsScalar`, `InBounds` and `DependencySignature` of dlmul: they compare the
  expressions that given straight-line programs compute, and expressions are
  trees that a `RECURSIVE` operator (`Mentions`) descends.  TLC runs every variant
  the scripts build, for every VLEN named in section 11.

The prover cannot instantiate the induction theorems of its library, which take
the claim as an operator.  Induction over the natural numbers is nevertheless
possible, and `IsBenchmarkProofs` uses it for the loops that compute a
number: the claim is written as a set of numbers, and a number outside it would
be a least one (`Least`, `Induction`).  A recursive function is unfolded by
`Recursion`, which shows once that the function the definition chooses exists.

The assumptions of the proofs are the named `ASSUME`s of the modules, which TLC
evaluates on every run: finitely many workloads, functions or threads, a positive
number of workers or permits, marker values that are not data, positive lengths,
and the relations between the constants of IS named in section 9.  Three theorems
state a further one: `Alone` (a single invocation), `Numbered` (threads are numbered
from 0) and `Lasts` (section 10).

## 13. Not modelled

| part | why |
|---|---|
| streamcluster, blackscholes, swaptions | sums of floating-point products and random draws, which TLC cannot evaluate; built without threads, so the barrier is all of their concurrency |
| pool loops of `profile_all.py` and `dlmul_runner.py` | emulate-all's loop over one database; `profile_all.py:139` does not unlink it, `dlmul_runner.py:382` catches `Exception` and lets `SystemExit` escape like emulate-all |
| the QEMU guest of vf-performance | files on two machines and a virtual machine started on demand (`qemu.py:193`, `qemu.py:261`): a component of its own |
| `benchmark_sources.py` | discovery, and a generator that writes the same text every time, checked and written in two steps (line 351) |
| choice of result files (`Makefile:30`) | the newest by name, one line of shell |
| LLVM command lines, native profiling container, plots, TUIs, set-up scripts | string construction, pure I/O, or reading of finished files |

## 14. Running

    tlc -workers 2 -config MCEmulateAll_solo.cfg MCEmulateAll
    tlapm EmulateAllProofs.tla

and likewise for the other configurations and proof modules.
