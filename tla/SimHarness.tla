----------------------------- MODULE SimHarness -----------------------------
(* What a workload linked with one of the harnesses of                       *)
(* src/emulator/run/common does as far as the simulator and its host see it: *)
(* the reads of the cycle counter and the words written to the console, in   *)
(* order, and how it asks the simulator to stop.  A job names the kind of    *)
(* simulator, the entry mode of the workload, what the workload does, and    *)
(* how the run was asked for.                                                *)
EXTENDS Naturals, Sequences

Kinds == {"chipyard", "xiangshan", "t1", "vicuna", "gem5"}

(* entry: a kernel() with global arrays, or a whole program.  conduct: it    *)
(* returns what it should, returns something else (which only a whole        *)
(* program can tell), or runs into the trap handler of the start-up code.    *)
(* matches: the kernel leaves 0 and 2 alternating in the array a.            *)
(* traced: run-sim asks for the trace (and finds spike-dasm).  console:      *)
(* where T1 sends what the program writes to its UART.                       *)
Jobs ==
    { j \in [kind : Kinds, entry : {"kernel", "main"},
             conduct : {"right", "wrong", "trap"}, matches : BOOLEAN,
             traced : BOOLEAN, console : {"stdout", "stderr"}] :
        /\ j.conduct = "wrong" => j.entry = "main"
        /\ ~j.matches => j.kind = "gem5" /\ j.entry = "kernel"
        /\ j.traced => j.kind \in {"chipyard", "t1"}
        /\ j.console = "stdout" => j.kind = "t1" }

\* The cycle counter is read before and after the timed part.
Timed == << "mcycle", "mcycle" >>

\* ok ? "PASSED\n" : "FAILED\n" in the main_harness files.
Outcome(j) == IF j.conduct = "right" THEN "PASSED" ELSE "FAILED"

(* The harness for Chipyard prints nothing; the one of gem5 compares a with  *)
(* the values one kernel computes and prints no cycles when they differ.     *)
Console(j) ==
    IF j.kind = "chipyard" THEN << >>
    ELSE IF j.entry = "main" THEN << "cycles", Outcome(j) >>
    ELSE IF j.kind # "gem5" THEN << "cycles" >>
    ELSE IF j.matches THEN << "cycles", "PASSED" >> ELSE << "FAILED" >>

Script(j) == Timed \o Console(j)

(* Where a program that traps stays for ever: a kernel in its warm-up call,  *)
(* a whole program, which is called once, inside the timed part.             *)
Reach(j) == IF j.conduct # "trap" THEN Len(Script(j))
            ELSE IF j.entry = "kernel" THEN 0 ELSE 1

(* The result the simulator is told: tohost, nemu_trap, or the exit status   *)
(* of the Linux process; T1 and Vicuna end without one.                      *)
SignalsGood(j) ==
    \/ j.kind \in {"t1", "vicuna"}
    \/ j.entry = "kernel" /\ j.matches
    \/ j.entry = "main" /\ j.conduct = "right"
=============================================================================
