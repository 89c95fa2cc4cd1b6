---------------------------- MODULE SimulatedRun ----------------------------
(* One run of a workload on a simulator, and the verdict on it:              *)
(* src/emulator/run-sim.sh builds the workload, starts the simulator, waits  *)
(* for it no longer than the timeout and reads the verdict out of what was   *)
(* written; src/scripts/emulate.py runs run-sim in a container over a fresh  *)
(* directory and reads the verdict out of run-sim's.  Runs follow one        *)
(* another; called directly, run-sim uses one log directory and one build    *)
(* directory for all of them, and a simulator started through a shell        *)
(* survives the timeout.                                                     *)
EXTENDS SimHarness, Functions

CONSTANTS
    MaxRuns,    \* bound: runs of one workload, one after another
    JobsRun     \* the jobs among which each run is chosen

ASSUME JobsAssumption == MaxRuns \in Nat /\ JobsRun \subseteq Jobs

Runs == 1..MaxRuns

VARIABLES
    driver,     \* who calls run-sim: "emulate" or the user, "run-sim"
    now,        \* the number of the current run
    job,        \* the job of each run so far
    host,       \* what run-sim is doing: "idle", "built" or "waiting"
    image,      \* of each run: the run whose program its simulator loads
    program,    \* how far each program has come in its script
    simulator,  \* of each run: "off", "on", "ended", "broken" or "killed"
    caught,     \* the words in the pipes of the current run
    log,        \* <workload>.log: the words in it, none before it exists
    out,        \* <workload>.out: run and word, in order, none before it exists
    vmem,       \* the run whose program <workload>.vmem holds, 0 without the file
    events,     \* the run in <workload>-rtl-event.jsonl, 0 without the file
    code,       \* the exit code of the current simulator
    expired,    \* the runs whose timeout passed
    report      \* of each run: status, exit code and whose cycles

vars == << driver, now, job, host, image, program, simulator, caught, log, out,
           vmem, events, code, expired, report >>

Unreported == [status |-> "pending", code |-> 0, kernel |-> {}]
\* An exception: main prints an error and exits with 2, without a status.
Aborted == [status |-> "none", code |-> 2, kernel |-> {}]

Init ==
    /\ driver \in {"emulate", "run-sim"}
    /\ now = 0 /\ job = << >> /\ host = "idle"
    /\ image = [n \in Runs |-> n]
    /\ program = [n \in Runs |-> 0]
    /\ simulator = [n \in Runs |-> "off"]
    /\ caught = {} /\ log = {} /\ out = << >> /\ vmem = 0 /\ events = 0 /\ code = 0
    /\ expired = {}
    /\ report = [n \in Runs |-> Unreported]

\* Chipyard's simulators with a trace: sim 2> >(spike-dasm > out) | tee log.
Piped(n) == job[n].kind = "chipyard" /\ job[n].traced
Simulating == host = "waiting" /\ simulator[now] = "on"

\* The job whose program runs on the simulator of run n.
Simulated(n) == job[image[n]]

-----------------------------------------------------------------------------
(* The host starts a run.                                                    *)

(* emulate gives the next run a container and a directory of its own, where  *)
(* the build and the logs go.                                                *)
Begin(j) ==
    /\ host = "idle" /\ now < MaxRuns
    /\ now' = now + 1 /\ job' = Append(job, j) /\ host' = "built"
    /\ IF driver = "emulate"
          THEN /\ log' = {} /\ out' = << >> /\ vmem' = 0 /\ events' = 0
               /\ simulator' = [n \in Runs |-> IF simulator[n] = "on" THEN "killed"
                                               ELSE simulator[n]]
          ELSE UNCHANGED << log, out, vmem, events, simulator >>
    /\ UNCHANGED << driver, image, program, caught, code, expired, report >>

\* The build, or the conversion of the ELF for Vicuna, fails.
BuildFails ==
    /\ host = "built"
    /\ host' = "idle" /\ report' = [report EXCEPT ![now] = Aborted]
    /\ UNCHANGED << driver, now, job, image, program, simulator, caught, log, out,
                    vmem, events, code, expired >>

\* Variant: the redirection appends.
OutAtLaunch_Appends == out

\* The files behind a redirection are there, and empty, before the program runs.
OutAtLaunch == IF Piped(now) THEN << >> ELSE out

(* Vicuna loads the ELF converted to <workload>.vmem beside it, which is     *)
(* made only where there is none: one left by an earlier run is loaded as it *)
(* is, whatever has been built since.                                        *)
Convert ==
    IF job[now].kind # "vicuna" THEN UNCHANGED << vmem, image >>
    ELSE /\ vmem' = IF vmem = 0 THEN now ELSE vmem
         /\ image' = [image EXCEPT ![now] = vmem']

Launch ==
    /\ host = "built"
    /\ Convert
    /\ host' = "waiting"
    /\ simulator' = [simulator EXCEPT ![now] = "on"]
    /\ caught' = {}
    /\ out' = OutAtLaunch
    /\ log' = IF Piped(now) \/ (job[now].kind = "t1" /\ job[now].traced)
                 THEN {} ELSE log
    /\ UNCHANGED << driver, now, job, program, events, code, expired, report >>

-----------------------------------------------------------------------------
(* The simulator and the program on it.                                      *)

\* A word of the simulator or the program on standard output or error.
ToStdout(n, word) ==
    IF n # now THEN UNCHANGED << caught, log, out >>    \* nobody reads the pipe
    ELSE IF Piped(n)
         THEN caught' = caught \cup {word} /\ log' = log \cup {word} /\ UNCHANGED out
    ELSE IF job[n].kind = "t1" /\ job[n].traced         \* to the trace file
         THEN UNCHANGED << caught, log, out >>
    ELSE caught' = caught \cup {word} /\ UNCHANGED << log, out >>

ToStderr(n, word) ==
    IF Piped(n) THEN out' = Append(out, << n, word >>) /\ UNCHANGED << caught, log >>
    ELSE IF job[n].kind = "t1" /\ job[n].traced
         THEN log' = log \cup {word} /\ UNCHANGED << caught, out >>
    ELSE caught' = caught \cup {word} /\ UNCHANGED << log, out >>

ToConsole(n, word) ==
    IF word = "mcycle"       \* seen in a trace only
       THEN IF Piped(n) THEN ToStderr(n, word) ELSE UNCHANGED << caught, log, out >>
    ELSE IF job[n].kind = "t1" /\ job[n].console = "stderr" THEN ToStderr(n, word)
    ELSE ToStdout(n, word)

\* Simulators may greet or log before and between what the program writes.
Chatter ==
    /\ Simulating /\ "banner" \notin caught
    /\ ToStdout(now, "banner")
    /\ UNCHANGED << driver, now, job, host, image, program, simulator, vmem, events,
                    code, expired, report >>

(* T1's simulator opens its event file, and so empties it, before it runs    *)
(* the program; run-sim itself never removes the file.                       *)
OpensEvents ==
    /\ Simulating /\ job[now].kind = "t1" /\ events # now
    /\ events' = now
    /\ UNCHANGED << driver, now, job, host, image, program, simulator, caught, log,
                    out, vmem, code, expired, report >>

ProgramStep(n) ==
    /\ simulator[n] = "on" /\ program[n] < Reach(Simulated(n))
    /\ job[n].kind = "t1" => events = n
    /\ program' = [program EXCEPT ![n] = @ + 1]
    /\ ToConsole(n, Script(Simulated(n))[program[n] + 1])
    /\ UNCHANGED << driver, now, job, host, image, simulator, vmem, events, code,
                    expired, report >>

\* What the simulator itself writes when the program stops it.
LastWord(j) ==
    CASE j.kind = "chipyard" -> IF ~SignalsGood(j) THEN {"FAILED"}
                                ELSE IF j.traced THEN {"PASSED"} ELSE {}
      [] j.kind = "xiangshan" -> IF SignalsGood(j) THEN {"HIT GOOD TRAP"} ELSE {}
      [] j.kind = "t1" -> {"$finish"}
      [] OTHER -> {}

\* gem5's own exit code need not be that of the program it simulates.
ExitCodes(j) == IF SignalsGood(j) THEN {0} ELSE IF j.kind = "gem5" THEN {0, 1} ELSE {1}

ProgramStops(n) ==
    /\ simulator[n] = "on"
    /\ Simulated(n).conduct # "trap" /\ program[n] = Reach(Simulated(n))
    /\ simulator' = [simulator EXCEPT ![n] = "ended"]
    /\ IF LastWord(Simulated(n)) = {} THEN UNCHANGED << caught, log, out >>
       ELSE ToStderr(n, CHOOSE word \in LastWord(Simulated(n)) : TRUE)
    /\ \E c \in ExitCodes(Simulated(n)) : code' = IF n = now THEN c ELSE code
    /\ UNCHANGED << driver, now, job, host, image, program, vmem, events, expired, report >>

\* Whether XiangShan's limit of cycles is a failure to it, run-sim cannot know.
BrokenCodes(j) == IF j.kind = "xiangshan" THEN {0, 1} ELSE {1}

(* The simulator ends before the program does: its limit of cycles, where it *)
(* has one (Chipyard reports that as a failure), or an assertion in it.      *)
Breaks(n) ==
    /\ simulator[n] = "on"
    /\ simulator' = [simulator EXCEPT ![n] = "broken"]
    /\ \E c \in BrokenCodes(job[n]) : code' = IF n = now THEN c ELSE code
    /\ \/ UNCHANGED << caught, log, out >>
       \/ ToStderr(n, "Assertion failed")
       \/ job[n].kind = "chipyard" /\ ToStderr(n, "FAILED")
    /\ UNCHANGED << driver, now, job, host, image, program, vmem, events, expired, report >>

-----------------------------------------------------------------------------
(* The host reads the verdict.                                               *)

StatusFromLog(words, c) ==
    IF words \cap {"PASSED", "HIT GOOD TRAP"} # {} THEN "PASS"
    ELSE IF "FAILED" \in words THEN "FAIL"
    ELSE IF "Assertion failed" \in words THEN "ASSERT"
    ELSE IF c = 0 THEN "OK" ELSE IF c = 124 THEN "TIMEOUT" ELSE "EXIT"

\* The words of a chipyard run's out file, whoever wrote them.
OutWords == IF job[now].kind = "chipyard" THEN { e[2] : e \in Range(out) } ELSE {}

Captured == IF Piped(now) \/ (job[now].kind = "t1" /\ job[now].traced)
               THEN log \cup caught ELSE caught

\* Variant: T1's normal termination overrides a FAILED in the log.
Verdict_FinishWins(words, c) ==
    IF job[now].kind = "t1" /\ (c = 0 \/ "$finish" \in words)
       THEN "OK" ELSE StatusFromLog(words, c)

Verdict(words, c) ==
    LET s == StatusFromLog(words, c) IN
    IF job[now].kind = "t1" /\ (c = 0 \/ "$finish" \in words)
          /\ s \notin {"FAIL", "ASSERT", "TIMEOUT"}
       THEN "OK" ELSE s

(* The run whose cycles are printed as the kernel's: the last two reads in   *)
(* the trace, the number after KC= or cycles=, or what is in T1's event      *)
(* file, whoever left it; the cycles of Vicuna are reported as a total only. *)
LastTwo ==
    LET reads  == { k \in DOMAIN out : out[k][2] = "mcycle" }
        before == { k \in reads : \E l \in reads : k < l }    \* all but the last
    IN  IF before = {} THEN {}
        ELSE { out[k][1] : k \in { m \in reads : \A l \in before : l <= m } }

KernelCycles(words) ==
    CASE job[now].kind = "chipyard" -> LastTwo
      [] job[now].kind = "t1" -> { m \in Runs : m = events /\ program[m] >= 2 }
      [] job[now].kind = "vicuna" -> {}
      [] OTHER -> IF "cycles" \in words THEN {now} ELSE {}

Conclude(words, c) ==
    /\ host' = "idle"
    /\ report' = [report EXCEPT ![now] =
                    [status |-> Verdict(words, c), code |-> c,
                     kernel |-> KernelCycles(words)]]

Returns ==
    /\ host = "waiting" /\ simulator[now] \in {"ended", "broken"}
    /\ Conclude(Captured \cup OutWords, code)
    /\ log' = IF Piped(now) THEN log ELSE Captured
    /\ UNCHANGED << driver, now, job, image, program, simulator, caught, out, vmem,
                    events, code, expired >>

(* subprocess.run kills the process it started: for a pipe that is the       *)
(* shell, and the simulator goes on.  The partial output comes as bytes, to  *)
(* which "\nTIMEOUT" cannot be added: unless there is none, main ends with   *)
(* an exception.                                                             *)
TimesOut ==
    /\ Simulating
    /\ expired' = expired \cup {now}
    /\ code' = 124
    /\ simulator' = IF Piped(now) THEN simulator ELSE [simulator EXCEPT ![now] = "killed"]
    /\ IF caught = {} THEN Conclude(OutWords, 124)
       ELSE host' = "idle" /\ report' = [report EXCEPT ![now] = Aborted]
    /\ log' = IF caught = {} /\ job[now].kind = "gem5" THEN {} ELSE log
    /\ UNCHANGED << driver, now, job, image, program, caught, out, vmem, events >>

Next ==
    \/ \E j \in JobsRun : Begin(j)
    \/ BuildFails \/ Launch \/ Chatter \/ OpensEvents \/ Returns \/ TimesOut
    \/ \E n \in Runs : ProgramStep(n) \/ ProgramStops(n) \/ Breaks(n)

Spec == Init /\ [][Next]_vars

-----------------------------------------------------------------------------
(* What the verdict is worth.                                                *)

Reported(n) == report[n].status # "pending"

\* run-sim exits with 0 for OK and PASS; emulate fails on any other exit code.
Good(n) == report[n].status \in {"OK", "PASS"}

(* No other run's words can be in the files this run is judged by: always    *)
(* under emulate; called directly, unless an out file was left and this run  *)
(* does not replace it, or a simulator given up earlier still writes it.     *)
Alone(n) ==
    \/ driver = "emulate" \/ job[n].kind # "chipyard"
    \/ LET earlier == { m \in 1..(n - 1) : Piped(m) /\ simulator[m] # "off" }
       IN  IF Piped(n) THEN earlier \cap expired = {} ELSE earlier = {}

\* An earlier run of this kind came as far as its simulator, in the same directories.
Preceded(n) ==
    /\ driver = "run-sim"
    /\ \E m \in 1..(n - 1) : job[m].kind = job[n].kind /\ simulator[m] # "off"

(* What a verdict is about: the program the run has built, except for Vicuna *)
(* called directly when an earlier run has converted its own, which is then  *)
(* what is simulated.                                                        *)
Judged(n) == IF job[n].kind = "vicuna" /\ Preceded(n) THEN Simulated(n) ELSE job[n]

\* T1 with a trace: what the program writes to standard output is not read.
Unheard(n) == job[n].kind = "t1" /\ job[n].traced /\ job[n].console = "stdout"

\* XiangShan ended before the program did, with an exit code that may say nothing.
Limited(n) == job[n].kind = "xiangshan" /\ simulator[n] = "broken"

(* A good verdict is earned and a good run gets one.  Whatever the simulator *)
(* does, and whenever the timeout strikes, the program of a run reported     *)
(* good did what it should up to its end: no word of an earlier run, no exit *)
(* code 0 of a program that went wrong, no cut log makes it so.  And a       *)
(* program that does what it should and stops the simulator itself, in time, *)
(* is reported good, except a kernel on gem5 that leaves other values in a   *)
(* than its harness expects.  The program is the one this run has built      *)
(* wherever Judged says so.  (_parse_status_from_log, run_*_sim, emulate's   *)
(* "failed".)                                                                *)
VerdictTrue ==
    \A n \in 1..now : Reported(n) /\ Alone(n) =>
        /\ Good(n) /\ ~Unheard(n) /\ ~Limited(n) =>
              Judged(n).conduct = "right" /\ program[n] = Len(Script(Judged(n)))
        /\ /\ simulator[n] = "ended" /\ n \notin expired
           /\ Judged(n).conduct = "right" /\ Judged(n).matches
           => Good(n)

\* T1, called directly: an earlier run's event file, and no step of this program.
Unopened(n) == job[n].kind = "t1" /\ Preceded(n) /\ program[n] = 0

(* Cycles reported for the kernel come from this run and from a timed part   *)
(* that was finished, even where the files of earlier runs are still there   *)
(* and the trace was cut.  The exceptions are named: a chipyard run that is  *)
(* not Alone, and a T1 run whose simulator ends before its program begins    *)
(* where an earlier run has left its event file.                             *)
(* (_parse_kernel_cycles_from_*, the redirections of run_chipyard_sim.)      *)
MeasuredByItself ==
    \A n \in 1..now : Alone(n) /\ ~Unopened(n) /\ report[n].kernel # {} =>
        report[n].kernel = {n} /\ program[n] >= 2

(* src/emulator/README.md:221 says that whole programs report whole-program  *)
(* cycles "instead of kernel-only cycles": a kernel that runs to its end and *)
(* stops gem5 itself should report its cycles.                               *)
KernelIsMeasured ==
    \A n \in 1..now :
        /\ Reported(n) /\ job[n].entry = "kernel" /\ job[n].conduct = "right"
        /\ simulator[n] = "ended" /\ n \notin expired
        => report[n].kernel = {n}
=============================================================================
