------------------------- MODULE SimulatedRunProofs -------------------------
(* Whatever the simulators do and whenever timeouts strike, in any number of *)
(* runs of any jobs: verdicts are earned, and cycles are a run's own.        *)
EXTENDS SimulatedRun, SequenceTheorems, TLAPS

States == {"off", "on", "ended", "broken", "killed"}

Printed == {"mcycle", "cycles", "PASSED", "FAILED"}
Said == Printed \cup {"banner", "HIT GOOD TRAP", "$finish", "Assertion failed"}
Statuses == {"pending", "none", "PASS", "FAIL", "ASSERT", "OK", "TIMEOUT", "EXIT"}

TypeOK ==
    /\ driver \in {"emulate", "run-sim"}
    /\ now \in 0..MaxRuns
    /\ job \in Seq(Jobs) /\ Len(job) = now
    /\ host \in {"idle", "built", "waiting"}
    /\ image \in [Runs -> Runs]
    /\ program \in [Runs -> Nat]
    /\ simulator \in [Runs -> States]
    /\ out \in Seq(Runs \X Said)
    /\ expired \subseteq Runs
    /\ report \in [Runs -> [status : Statuses, code : Nat, kernel : SUBSET Runs]]

\* A run that has not been launched has left nothing.
Fresh(n) ==
    /\ simulator[n] = "off" /\ image[n] = n /\ program[n] = 0
    /\ report[n] = Unreported /\ n \notin expired

(* Runs are launched one after another; a program stays inside its script.   *)
(* The only simulators that run without run-sim waiting for them are those   *)
(* behind the shell of a timed out run.                                      *)
Control ==
    /\ host # "idle" => now \in Runs
    /\ \A n \in Runs : n > now => Fresh(n)
    /\ host = "built" => Fresh(now)
    /\ host = "waiting" =>
          simulator[now] \in {"on", "ended", "broken"} /\ report[now] = Unreported
          /\ now \notin expired
    /\ \A n \in 1..now : program[n] <= Reach(Simulated(n))
    /\ \A n \in 1..now : simulator[n] = "on" /\ (n = now => host # "waiting") =>
          Piped(n) /\ n \in expired
    /\ \A n \in 1..now : simulator[n] = "on" /\ n # now => driver = "run-sim"

\* Which program was loaded, and what the files kept beside it and the logs hold.
LeftBy(m, kind) ==
    /\ m \in 1..now /\ job[m].kind = kind /\ simulator[m] # "off"
    /\ driver = "emulate" => m = now

Loads ==
    /\ \A n \in 1..now :
          /\ image[n] \in 1..now /\ job[image[n]].kind = job[n].kind
          /\ image[n] = n \/ (job[n].kind = "vicuna" /\ Preceded(n))
    /\ vmem # 0 => LeftBy(vmem, "vicuna")
    /\ events # 0 => LeftBy(events, "t1")
    /\ host = "waiting" /\ job[now].kind = "t1" /\ program[now] # 0 => events = now

\* Who has written to the out file.
Writers ==
    /\ \A k \in DOMAIN out :
          /\ out[k][1] \in 1..now /\ Piped(out[k][1]) /\ simulator[out[k][1]] # "off"
          /\ driver = "emulate" => out[k][1] = now
    /\ host = "waiting" /\ Alone(now) /\ job[now].kind = "chipyard" =>
          \A k \in DOMAIN out : out[k][1] = now

\* All a run is judged by.
Heard == Captured \cup OutWords

\* What the words heard so far say of a run with this job that has come to p in
\* its script and whose simulator is in state s, and what must have been heard.
Tell(j, heard, p, s) ==
    /\ "PASSED" \in heard \/ "HIT GOOD TRAP" \in heard =>
          j.conduct = "right" /\ p = Len(Script(j))
    /\ "$finish" \in heard => s = "ended"
    /\ "FAILED" \in heard => j.conduct # "right" \/ ~j.matches \/ s = "broken"
    /\ "Assertion failed" \in heard => s = "broken"
    /\ "cycles" \in heard => p >= 3
    /\ /\ j.conduct = "wrong" /\ j.kind # "chipyard" /\ p = Len(Script(j))
       /\ ~(j.kind = "t1" /\ j.traced /\ j.console = "stdout")
       => "FAILED" \in heard

Words == host = "waiting" /\ Alone(now) =>
            Tell(Simulated(now), Heard, program[now], simulator[now])

\* The reads of the cycle counter in the trace are those the program has made.
Reads ==
    host = "waiting" /\ Alone(now) /\ job[now].kind = "chipyard" =>
        /\ \A k \in DOMAIN out : out[k][2] = "mcycle" => program[now] >= 1
        /\ \A k, l \in DOMAIN out :
              k # l /\ out[k][2] = "mcycle" /\ out[l][2] = "mcycle" => program[now] >= 2

\* How the simulator of the run that waits has ended.
Exits ==
    host = "waiting" =>
        /\ simulator[now] = "ended" =>
              /\ Simulated(now).conduct # "trap" /\ program[now] = Reach(Simulated(now))
              /\ code \in ExitCodes(Simulated(now))
        /\ simulator[now] = "broken" => code \in BrokenCodes(job[now])

\* What is known of a run that has its report.
Kept ==
    /\ VerdictTrue
    /\ MeasuredByItself

IInv == TypeOK /\ Control /\ Loads /\ Writers /\ Words /\ Reads /\ Exits /\ Kept

-----------------------------------------------------------------------------
(* The scripts.                                                              *)

LEMMA ShortSeqs ==
    /\ << >> \in Seq(Printed)
    /\ \A x \in Printed : << x >> \in Seq(Printed)
    /\ \A x, y \in Printed : << x, y >> \in Seq(Printed)
<1>1. /\ \A x \in Printed : << x >> \in [1..1 -> Printed]
      /\ \A x, y \in Printed : << x, y >> \in [1..2 -> Printed]
    OBVIOUS
<1>2. QED
    BY <1>1, SeqDef

LEMMA ConsoleFacts ==
    ASSUME NEW j \in Jobs
    PROVE  /\ Console(j) \in Seq(Printed) /\ Len(Console(j)) \in 0..2
           /\ \A k \in 1..Len(Console(j)) :
                 /\ Console(j)[k] \in {"cycles", "PASSED", "FAILED"}
                 /\ Console(j)[k] = "cycles" => k = 1
                 /\ Console(j)[k] = "PASSED" => k = Len(Console(j)) /\ j.conduct # "wrong"
                 /\ Console(j)[k] = "FAILED" => j.conduct # "right" \/ ~j.matches
           /\ j.kind = "chipyard" => Len(Console(j)) = 0
           /\ j.kind # "chipyard" /\ j.conduct = "wrong" =>
                 Len(Console(j)) = 2 /\ Console(j)[2] = "FAILED"
<1>1. j.conduct \in {"right", "wrong", "trap"} /\ (j.conduct = "wrong" => j.entry = "main")
    BY DEF Jobs
<1>2. CASE j.kind = "chipyard"
  <2>1. Console(j) = << >>
    BY <1>2 DEF Console
  <2>2. QED
    BY <1>2, <2>1, ShortSeqs
<1>3. CASE j.kind # "chipyard" /\ j.entry = "main"
  <2>1. Console(j) = << "cycles", Outcome(j) >>
    BY <1>3 DEF Console
  <2>2. Outcome(j) = IF j.conduct = "right" THEN "PASSED" ELSE "FAILED"
    BY DEF Outcome
  <2>3. Console(j) \in Seq(Printed)
    BY <2>1, <2>2, ShortSeqs DEF Printed
  <2>4. QED
    BY <1>1, <1>3, <2>1, <2>2, <2>3
<1>4. CASE j.kind # "chipyard" /\ j.entry # "main"
  <2>1. j.conduct # "wrong"
    BY <1>1, <1>4
  <2>2. CASE j.kind # "gem5"
    <3>1. Console(j) = << "cycles" >>
      BY <1>4, <2>2 DEF Console
    <3>2. Console(j) \in Seq(Printed)
      BY <3>1, ShortSeqs DEF Printed
    <3>3. QED
      BY <1>4, <2>1, <3>1, <3>2
  <2>3. CASE j.kind = "gem5" /\ j.matches
    <3>1. Console(j) = << "cycles", "PASSED" >>
      BY <1>4, <2>3 DEF Console
    <3>2. Console(j) \in Seq(Printed)
      BY <3>1, ShortSeqs DEF Printed
    <3>3. QED
      BY <1>4, <2>1, <3>1, <3>2
  <2>4. CASE j.kind = "gem5" /\ ~j.matches
    <3>1. Console(j) = << "FAILED" >>
      BY <1>4, <2>4 DEF Console
    <3>2. Console(j) \in Seq(Printed)
      BY <3>1, ShortSeqs DEF Printed
    <3>3. QED
      BY <1>4, <2>1, <2>4, <3>1, <3>2
  <2>5. QED
    BY <2>2, <2>3, <2>4
<1>5. QED
    BY <1>2, <1>3, <1>4

LEMMA ScriptFacts ==
    ASSUME NEW j \in Jobs
    PROVE  /\ Script(j) \in Seq(Printed)
           /\ Len(Script(j)) \in 2..4
           /\ Reach(j) \in 0..Len(Script(j))
           /\ \A k \in 1..Len(Script(j)) :
                 /\ Script(j)[k] \in {"mcycle", "cycles", "PASSED", "FAILED"}
                 /\ k <= 2 <=> Script(j)[k] = "mcycle"
                 /\ Script(j)[k] = "cycles" => k = 3
                 /\ Script(j)[k] = "PASSED" => k = Len(Script(j)) /\ j.conduct # "wrong"
                 /\ Script(j)[k] = "FAILED" => j.conduct # "right" \/ ~j.matches
           /\ j.kind = "chipyard" => Len(Script(j)) = 2
           /\ j.kind # "chipyard" /\ j.conduct = "wrong" =>
                 Script(j)[Len(Script(j))] = "FAILED"
<1> DEFINE c == Console(j)
<1>1. /\ c \in Seq(Printed) /\ Len(c) \in 0..2
      /\ \A k \in 1..Len(c) :
            /\ c[k] \in {"cycles", "PASSED", "FAILED"}
            /\ c[k] = "cycles" => k = 1
            /\ c[k] = "PASSED" => k = Len(c) /\ j.conduct # "wrong"
            /\ c[k] = "FAILED" => j.conduct # "right" \/ ~j.matches
      /\ j.kind = "chipyard" => Len(c) = 0
      /\ j.kind # "chipyard" /\ j.conduct = "wrong" => Len(c) = 2 /\ c[2] = "FAILED"
    BY ConsoleFacts
<1>2. Script(j) = << "mcycle", "mcycle" >> \o c
    BY DEF Script, Timed
<1> HIDE DEF c
<1>3. << "mcycle", "mcycle" >> \in Seq(Printed) /\ Len(<< "mcycle", "mcycle" >>) = 2
    BY ShortSeqs DEF Printed
<1>4. /\ Script(j) \in Seq(Printed) /\ Len(Script(j)) = 2 + Len(c)
      /\ \A k \in 1..Len(Script(j)) :
            Script(j)[k] = IF k <= 2 THEN "mcycle" ELSE c[k - 2]
    BY <1>1, <1>2, <1>3, ConcatProperties
<1>5. \A k \in 1..Len(Script(j)) : k > 2 => k - 2 \in 1..Len(c)
    BY <1>1, <1>4
<1>6. Reach(j) \in {0, 1, Len(Script(j))}
    BY DEF Reach
<1>7. \A k \in 1..Len(Script(j)) :
            /\ Script(j)[k] \in {"mcycle", "cycles", "PASSED", "FAILED"}
            /\ k <= 2 <=> Script(j)[k] = "mcycle"
            /\ Script(j)[k] = "cycles" => k = 3
            /\ Script(j)[k] = "PASSED" => k = Len(Script(j)) /\ j.conduct # "wrong"
            /\ Script(j)[k] = "FAILED" => j.conduct # "right" \/ ~j.matches
    BY <1>1, <1>4, <1>5
<1>8. QED
    BY <1>1, <1>4, <1>6, <1>7

-----------------------------------------------------------------------------
(* What a step leaves alone.                                                 *)

LEMMA JobIs ==
    ASSUME TypeOK, NEW n \in 1..now
    PROVE  job[n] \in Jobs
BY ElementOfSeq DEF TypeOK

LEMMA NowRuns ==
    ASSUME TypeOK
    PROVE  /\ now \in Nat /\ MaxRuns \in Nat /\ now <= MaxRuns
           /\ \A n \in 1..now : n \in Runs
           /\ \A n \in Runs : n \in Nat /\ (n \in 1..now <=> ~(n > now))
BY JobsAssumption DEF TypeOK, Runs

\* What is simulated is the job's own program, or that of another run on Vicuna.
LEMMA SimulatedIs ==
    ASSUME TypeOK, Loads, NEW n \in 1..now
    PROVE  /\ Simulated(n) \in Jobs /\ Simulated(n).kind = job[n].kind
           /\ job[n].kind # "vicuna" => Simulated(n) = job[n]
           /\ Judged(n) = Simulated(n)
<1>1. /\ image[n] \in 1..now /\ job[image[n]].kind = job[n].kind
      /\ image[n] = n \/ (job[n].kind = "vicuna" /\ Preceded(n))
    BY DEF Loads
<1>2. job[image[n]] \in Jobs
    BY <1>1, JobIs
<1>3. QED
    BY <1>1, <1>2 DEF Simulated, Judged

\* What is on was launched, and only that.
LEMMA OnIsPast ==
    ASSUME TypeOK, Control, NEW n \in Runs, simulator[n] = "on"
    PROVE  n \in 1..now
BY NowRuns DEF Control, Fresh

LEMMA AloneMeans ==
    ASSUME NEW n
    PROVE  Alone(n) <=>
              \/ driver = "emulate" \/ job[n].kind # "chipyard"
              \/ \A m \in 1..(n - 1) :
                    Piped(m) /\ simulator[m] # "off" => Piped(n) /\ m \notin expired
BY DEF Alone

(* No step makes or ends a run's being alone: that was settled when it began. *)
LEMMA AloneStays ==
    ASSUME driver' = driver, NEW n \in 1..now, now \in Nat,
           \A m \in 1..now : job'[m] = job[m],
           \A m \in 1..(n - 1) : simulator'[m] = "off" <=> simulator[m] = "off",
           \A m \in 1..(n - 1) : m \in expired' <=> m \in expired
    PROVE  (Alone(n)' <=> Alone(n)) /\ (Preceded(n)' <=> Preceded(n))
<1>1. \A m \in 1..n : Piped(m)' <=> Piped(m)
    BY DEF Piped
<1>2. job'[n] = job[n]
    OBVIOUS
<1>3. Alone(n) <=>
         \/ driver = "emulate" \/ job[n].kind # "chipyard"
         \/ \A m \in 1..(n - 1) :
               Piped(m) /\ simulator[m] # "off" => Piped(n) /\ m \notin expired
    BY AloneMeans
<1>4. Alone(n)' <=>
         \/ driver' = "emulate" \/ job'[n].kind # "chipyard"
         \/ \A m \in 1..(n - 1) :
               Piped(m)' /\ simulator'[m] # "off" => Piped(n)' /\ m \notin expired'
    BY DEF Alone
<1>5. \A m \in 1..(n - 1) : m \in 1..n
    OBVIOUS
<1> HIDE DEF Piped, Alone
<1>6. n \in 1..n
    OBVIOUS
<1>7. Alone(n)' <=> Alone(n)
    BY <1>1, <1>2, <1>3, <1>4, <1>5, <1>6
<1>8. \A m \in 1..(n - 1) : m \in 1..now
    OBVIOUS
<1>9. Preceded(n)' <=> Preceded(n)
    BY <1>2, <1>8 DEF Preceded
<1>10. QED
    BY <1>7, <1>9

(* A simulator that is on writes a word, or a program on it does.            *)
Writes(n, word) == ToStdout(n, word) \/ ToStderr(n, word)
                      \/ UNCHANGED << caught, log, out >>

LEMMA ConsoleWrites ==
    ASSUME NEW n, NEW word, ToConsole(n, word)
    PROVE  Writes(n, word)
BY DEF ToConsole, Writes

\* Only a traced Chipyard run writes to the out file.
LEMMA WritesOut ==
    ASSUME NEW n, NEW word, Writes(n, word)
    PROVE  out' = out \/ (Piped(n) /\ out' = Append(out, << n, word >>))
BY DEF Writes, ToStdout, ToStderr

\* The out file after one more word.
LEMMA OneMore ==
    ASSUME TypeOK, NEW n \in Runs, NEW word \in Said, out' = Append(out, << n, word >>)
    PROVE  /\ out' \in Seq(Runs \X Said)
           /\ DOMAIN out' = DOMAIN out \cup {Len(out) + 1}
           /\ Len(out) + 1 \notin DOMAIN out
           /\ out'[Len(out) + 1] = << n, word >>
           /\ \A k \in DOMAIN out : out'[k] = out[k]
<1>1. out \in Seq(Runs \X Said) /\ << n, word >> \in Runs \X Said
    BY DEF TypeOK
<1>2. /\ out' \in Seq(Runs \X Said) /\ Len(out') = Len(out) + 1
      /\ \A k \in 1..Len(out) : out'[k] = out[k]
      /\ out'[Len(out) + 1] = << n, word >>
    BY <1>1, AppendProperties
<1>3. Len(out) \in Nat /\ DOMAIN out = 1..Len(out) /\ DOMAIN out' = 1..Len(out')
    BY <1>1, <1>2, LenProperties
<1>4. QED
    BY <1>2, <1>3

-----------------------------------------------------------------------------
(* What is heard.                                                            *)

LEMMA OutWordsGrow ==
    ASSUME TypeOK, NEW n \in Runs, NEW word \in Said, UNCHANGED << now, job >>,
           out' = out \/ out' = Append(out, << n, word >>)
    PROVE  OutWords \subseteq OutWords' /\ OutWords' \subseteq OutWords \cup {word}
<1>1. OutWords = IF job[now].kind = "chipyard" THEN { out[k][2] : k \in DOMAIN out } ELSE {}
    BY DEF OutWords, Range
<1>2. OutWords' = IF job[now].kind = "chipyard" THEN { out'[k][2] : k \in DOMAIN out' } ELSE {}
    BY DEF OutWords, Range
<1>3. CASE out' = out
    BY <1>1, <1>2, <1>3
<1>4. CASE out' = Append(out, << n, word >>)
  <2>1. /\ DOMAIN out' = DOMAIN out \cup {Len(out) + 1}
        /\ out'[Len(out) + 1][2] = word
        /\ \A k \in DOMAIN out : out'[k] = out[k]
    BY <1>4, OneMore
  <2>2. QED
    BY <1>1, <1>2, <2>1
<1>5. QED
    BY <1>3, <1>4

LEMMA HeardGrows ==
    ASSUME TypeOK, Control, host = "waiting", Alone(now),
           NEW n \in 1..now, simulator[n] = "on", NEW word \in Said, Writes(n, word),
           UNCHANGED << now, job >>
    PROVE  /\ Heard \subseteq Heard' /\ Heard' \subseteq Heard \cup {word}
           /\ n # now => Heard' = Heard
<1>1. n \in Runs /\ now \in Nat
    BY NowRuns
<1>2. out' = out \/ (Piped(n) /\ out' = Append(out, << n, word >>))
    BY WritesOut
<1>3. OutWords \subseteq OutWords' /\ OutWords' \subseteq OutWords \cup {word}
    BY <1>1, <1>2, OutWordsGrow
<1>4. Piped(now)' <=> Piped(now)
    BY DEF Piped
<1>5. /\ caught \subseteq caught' /\ caught' \subseteq caught \cup {word}
      /\ log \subseteq log' /\ log' \subseteq log \cup {word}
    BY DEF Writes, ToStdout, ToStderr
<1>6. Captured \subseteq Captured' /\ Captured' \subseteq Captured \cup {word}
    BY <1>4, <1>5 DEF Captured
<1>7. ASSUME n # now PROVE Heard' = Heard
  <2>1. Piped(n) /\ n \in expired
    BY <1>7 DEF Control
  <2>2. UNCHANGED << caught, log >>
    BY <1>7, <2>1 DEF Writes, ToStdout, ToStderr
  <2>3. Captured' = Captured
    BY <1>4, <2>2 DEF Captured
  <2>4. job[now].kind # "chipyard"
    <3>1. driver = "run-sim" /\ n \in 1..(now - 1)
      BY <1>1, <1>7 DEF Control
    <3>2. driver # "emulate" /\ simulator[n] # "off"
      BY <3>1
    <3>3. QED
      BY <2>1, <3>1, <3>2, AloneMeans
  <2>5. OutWords' = {} /\ OutWords = {}
    BY <2>4 DEF OutWords
  <2>6. QED
    BY <2>3, <2>5 DEF Heard
<1>8. QED
    BY <1>3, <1>6, <1>7 DEF Heard

LEMMA PrintedIsHeard ==
    ASSUME TypeOK, now \in 1..now, NEW word, word # "mcycle", ToConsole(now, word),
           UNCHANGED << now, job >>, job[now].kind # "chipyard", ~Unheard(now)
    PROVE  word \in Heard'
<1>1. job[now] \in Jobs
    BY JobIs
<1>2. ~Piped(now) /\ ~Piped(now)'
    BY DEF Piped
<1>3. CASE job[now].kind = "t1" /\ job[now].console = "stderr"
  <2>1. ToStderr(now, word)
    BY <1>3 DEF ToConsole
  <2>2. QED
    BY <1>2, <1>3, <2>1 DEF ToStderr, Heard, Captured
<1>4. CASE ~(job[now].kind = "t1" /\ job[now].console = "stderr")
  <2>1. ToStdout(now, word)
    BY <1>4 DEF ToConsole
  <2>2. ~(job[now].kind = "t1" /\ job[now].traced)
    BY <1>1, <1>4 DEF Unheard, Jobs
  <2>3. QED
    BY <1>2, <2>1, <2>2 DEF ToStdout, Heard, Captured
<1>5. QED
    BY <1>3, <1>4

-----------------------------------------------------------------------------
(* What was reported stays true.                                             *)

VerdictOf(n) ==
    Reported(n) /\ Alone(n) =>
        /\ Good(n) /\ ~Unheard(n) /\ ~Limited(n) =>
              Judged(n).conduct = "right" /\ program[n] = Len(Script(Judged(n)))
        /\ /\ simulator[n] = "ended" /\ n \notin expired
           /\ Judged(n).conduct = "right" /\ Judged(n).matches
           => Good(n)

MeasureOf(n) ==
    Alone(n) /\ ~Unopened(n) /\ report[n].kernel # {} =>
        report[n].kernel = {n} /\ program[n] >= 2

LEMMA KeptMeans == Kept <=> \A n \in 1..now : VerdictOf(n) /\ MeasureOf(n)
BY DEF Kept, VerdictTrue, MeasuredByItself, VerdictOf, MeasureOf

LEMMA KeptStays ==
    ASSUME TypeOK, Control, Loads, Kept, NEW n \in 1..now,
           \A m \in 1..now : job'[m] = job[m], image'[n] = image[n], report'[n] = report[n],
           (Alone(n)' <=> Alone(n)) /\ (Preceded(n)' <=> Preceded(n)),
           program'[n] = program[n] \/
              (/\ program'[n] = program[n] + 1 /\ program[n] < Reach(Simulated(n))
               /\ job[n].kind # "t1" \/ report[n].kernel = {}),
           Reported(n) /\ simulator'[n] = "ended" => simulator[n] = "ended" \/ n \in expired,
           simulator[n] = "broken" => simulator'[n] = "broken",
           expired \subseteq expired'
    PROVE  VerdictOf(n)' /\ MeasureOf(n)'
<1> DEFINE j == Judged(n)
           L == Len(Script(j))
<1>1. VerdictOf(n) /\ MeasureOf(n)
    BY KeptMeans
<1>2. /\ j = Simulated(n) /\ Simulated(n) \in Jobs
      /\ program[n] \in Nat /\ Reach(Simulated(n)) \in 0..L /\ L \in 2..4
  <2>1. j = Simulated(n) /\ Simulated(n) \in Jobs
    BY SimulatedIs
  <2>2. Reach(Simulated(n)) \in 0..Len(Script(Simulated(n)))
        /\ Len(Script(Simulated(n))) \in 2..4
    BY <2>1, ScriptFacts
  <2>3. program[n] \in Nat
    BY NowRuns DEF TypeOK
  <2>4. QED
    BY <2>1, <2>2, <2>3
<1>3. image[n] \in 1..now
    BY DEF Loads
<1>4. Judged(n)' = j
  <2>1. job'[n] = job[n] /\ job'[image'[n]] = job[image[n]]
    BY <1>3
  <2>2. QED
    BY <2>1 DEF Judged, Simulated
<1>5. Len(Script(Judged(n)))' = L
  <2>1. Len(Script(Judged(n)))' = Len(Script(Judged(n)'))
    BY DEF Script, Timed, Console, Outcome
  <2>2. QED
    BY <1>4, <2>1
<1> HIDE DEF j, L
<1>6. /\ program[n] = L => program'[n] = L
      /\ program[n] >= 2 => program'[n] >= 2
    BY <1>2
<1>7. /\ (Reported(n)' <=> Reported(n)) /\ (Good(n)' <=> Good(n))
      /\ (Unheard(n)' <=> Unheard(n)) /\ (Limited(n) => Limited(n)')
      /\ Unopened(n) /\ report[n].kernel # {} => Unopened(n)'
    BY DEF Reported, Good, Unheard, Limited, Unopened
<1>8. VerdictOf(n) <=>
         (Reported(n) /\ Alone(n) =>
            /\ Good(n) /\ ~Unheard(n) /\ ~Limited(n) => j.conduct = "right" /\ program[n] = L
            /\ /\ simulator[n] = "ended" /\ n \notin expired
               /\ j.conduct = "right" /\ j.matches
               => Good(n))
    BY DEF VerdictOf, j, L
<1>9. VerdictOf(n)' <=>
         (Reported(n)' /\ Alone(n)' =>
            /\ Good(n)' /\ ~Unheard(n)' /\ ~Limited(n)' =>
                  j.conduct = "right" /\ program'[n] = L
            /\ /\ simulator'[n] = "ended" /\ n \notin expired'
               /\ j.conduct = "right" /\ j.matches
               => Good(n)')
  <2>1. VerdictOf(n)' <=>
         (Reported(n)' /\ Alone(n)' =>
            /\ Good(n)' /\ ~Unheard(n)' /\ ~Limited(n)' =>
                  (Judged(n)').conduct = "right" /\ program'[n] = Len(Script(Judged(n)))'
            /\ /\ simulator'[n] = "ended" /\ n \notin expired'
               /\ (Judged(n)').conduct = "right" /\ (Judged(n)').matches
               => Good(n)')
    BY DEF VerdictOf
  <2>2. QED
    BY <1>4, <1>5, <2>1
<1> HIDE DEF Reported, Good, Unheard, Limited, Unopened, Alone
<1>10. VerdictOf(n)'
    BY <1>1, <1>6, <1>7, <1>8, <1>9
<1>11. MeasureOf(n)'
    BY <1>1, <1>6, <1>7 DEF MeasureOf
<1>12. QED
    BY <1>10, <1>11

-----------------------------------------------------------------------------
(* One more word, and what it tells.                                         *)

LEMMA TellBanner ==
    ASSUME NEW j, NEW heard, NEW more, NEW p, NEW s, Tell(j, heard, p, s),
           heard \subseteq more, more \subseteq heard \cup {"banner"}
    PROVE  Tell(j, more, p, s)
BY DEF Tell

LEMMA TellScript ==
    ASSUME NEW j \in Jobs, NEW heard, NEW more, NEW p \in Nat, p < Reach(j),
           Tell(j, heard, p, "on"),
           heard \subseteq more, more \subseteq heard \cup {Script(j)[p + 1]},
           /\ Script(j)[p + 1] # "mcycle" /\ j.kind # "chipyard"
           /\ ~(j.kind = "t1" /\ j.traced /\ j.console = "stdout")
           => Script(j)[p + 1] \in more
    PROVE  Tell(j, more, p + 1, "on")
<1> DEFINE w == Script(j)[p + 1]
           L == Len(Script(j))
<1>1. /\ L \in 2..4 /\ p + 1 \in 1..L /\ p < L /\ p # L
      /\ w \in {"mcycle", "cycles", "PASSED", "FAILED"}
      /\ p + 1 <= 2 <=> w = "mcycle"
      /\ w = "cycles" => p + 1 = 3
      /\ w = "PASSED" => p + 1 = L /\ j.conduct # "wrong"
      /\ w = "FAILED" => j.conduct # "right" \/ ~j.matches
      /\ j.kind # "chipyard" /\ j.conduct = "wrong" => Script(j)[L] = "FAILED"
    BY ScriptFacts
<1>2. w # "mcycle" => j.conduct # "trap"
    BY <1>1 DEF Reach
<1>3. j.conduct \in {"right", "wrong", "trap"}
    BY DEF Jobs
<1>4. Tell(j, heard, p, "on") <=>
         /\ "PASSED" \in heard \/ "HIT GOOD TRAP" \in heard => j.conduct = "right" /\ p = L
         /\ "$finish" \notin heard
         /\ "FAILED" \in heard => j.conduct # "right" \/ ~j.matches
         /\ "Assertion failed" \notin heard
         /\ "cycles" \in heard => p >= 3
         /\ /\ j.conduct = "wrong" /\ j.kind # "chipyard" /\ p = L
            /\ ~(j.kind = "t1" /\ j.traced /\ j.console = "stdout")
            => "FAILED" \in heard
    BY DEF Tell
<1>5. /\ j.conduct = "wrong" /\ j.kind # "chipyard" /\ p + 1 = L
      /\ ~(j.kind = "t1" /\ j.traced /\ j.console = "stdout")
      => "FAILED" \in more
    BY <1>1
<1> HIDE DEF w, L
<1>6. more \subseteq heard \cup {w}
    BY DEF w
<1>7. "PASSED" \notin heard /\ "HIT GOOD TRAP" \notin heard
    BY <1>1, <1>4
<1>8. "cycles" \in more => p + 1 >= 3
  <2>1. CASE "cycles" \in heard
    <3>1. p >= 3
      BY <2>1 DEF Tell
    <3>2. QED
      BY <3>1
  <2>2. CASE w = "cycles"
    BY <1>1, <2>2
  <2>3. "cycles" \in more => "cycles" \in heard \/ w = "cycles"
    BY <1>6
  <2>4. QED
    BY <2>1, <2>2, <2>3, Zenon
<1>9. /\ "PASSED" \in more \/ "HIT GOOD TRAP" \in more => j.conduct = "right" /\ p + 1 = L
      /\ "$finish" \notin more
      /\ "FAILED" \in more => j.conduct # "right" \/ ~j.matches
      /\ "Assertion failed" \notin more
    BY <1>1, <1>2, <1>3, <1>4, <1>6, <1>7
<1>10. QED
    BY <1>5, <1>8, <1>9 DEF Tell, L

LEMMA TellLast ==
    ASSUME NEW j \in Jobs, NEW heard, NEW more, NEW p, p = Reach(j), j.conduct # "trap",
           Tell(j, heard, p, "on"),
           heard \subseteq more, more \subseteq heard \cup LastWord(j)
    PROVE  Tell(j, more, p, "ended")
<1>1. p = Len(Script(j))
    BY DEF Reach
<1>2. /\ j.conduct \in {"right", "wrong", "trap"} /\ j.entry \in {"kernel", "main"}
      /\ j.conduct = "wrong" => j.entry = "main"
    BY DEF Jobs
<1>3. /\ j.kind \in {"chipyard", "xiangshan"} /\ SignalsGood(j) => j.conduct = "right"
      /\ j.kind = "chipyard" /\ ~SignalsGood(j) => j.conduct # "right" \/ ~j.matches
    BY <1>2 DEF SignalsGood
<1>4. /\ LastWord(j) \subseteq {"PASSED", "FAILED", "HIT GOOD TRAP", "$finish"}
      /\ "PASSED" \in LastWord(j) \/ "HIT GOOD TRAP" \in LastWord(j) =>
            j.kind \in {"chipyard", "xiangshan"} /\ SignalsGood(j)
      /\ "FAILED" \in LastWord(j) => j.kind = "chipyard" /\ ~SignalsGood(j)
  <2>1. CASE j.kind = "chipyard"
    BY <2>1 DEF LastWord
  <2>2. CASE j.kind = "xiangshan"
    BY <2>2 DEF LastWord
  <2>3. CASE j.kind = "t1"
    BY <2>3 DEF LastWord
  <2>4. CASE j.kind \notin {"chipyard", "xiangshan", "t1"}
    BY <2>4 DEF LastWord
  <2>5. QED
    BY <2>1, <2>2, <2>3, <2>4
<1> HIDE DEF LastWord
<1>5. QED
    BY <1>1, <1>3, <1>4 DEF Tell

LEMMA TellBroken ==
    ASSUME NEW j, NEW heard, NEW more, NEW p, Tell(j, heard, p, "on"),
           heard \subseteq more, more \subseteq heard \cup {"Assertion failed", "FAILED"}
    PROVE  Tell(j, more, p, "broken")
BY DEF Tell

-----------------------------------------------------------------------------
(* The steps of simulators and programs.                                     *)

LEMMA Speaking ==
    ASSUME IInv, NEW n \in 1..now, simulator[n] = "on", NEW word \in Said, Writes(n, word),
           UNCHANGED << driver, now, job, host, image, vmem, events, expired, report >>,
           \/ program' = program
           \/ /\ program[n] < Reach(Simulated(n)) /\ (job[n].kind = "t1" => events = n)
              /\ program' = [program EXCEPT ![n] = @ + 1],
           \/ simulator' = simulator
           \/ \E s \in {"ended", "broken"} : simulator' = [simulator EXCEPT ![n] = s]
    PROVE  /\ TypeOK' /\ Control' /\ Loads' /\ Writers' /\ Kept'
           /\ \A m \in 1..now : Alone(m)' <=> Alone(m)
<1>1. n \in Runs /\ now \in Nat /\ n <= now /\ \A m \in 1..now : m \in Runs
    BY NowRuns DEF IInv
<1>2. /\ \A m \in Runs : simulator'[m] = simulator[m] \/
            (m = n /\ simulator'[m] \in {"ended", "broken"})
      /\ simulator' \in [Runs -> States]
  <2>1. simulator \in [Runs -> States]
    BY DEF IInv, TypeOK
  <2>2. CASE simulator' = simulator
    BY <2>1, <2>2
  <2>3. ASSUME NEW s \in {"ended", "broken"}, simulator' = [simulator EXCEPT ![n] = s]
        PROVE  /\ \A m \in Runs : simulator'[m] = simulator[m] \/ (m = n /\ simulator'[m] = s)
               /\ simulator' \in [Runs -> States]
    BY <1>1, <2>1, <2>3 DEF States
  <2>4. QED
    BY <2>2, <2>3
<1>3. /\ \A m \in Runs : program'[m] = program[m] \/
            (/\ m = n /\ program[n] < Reach(Simulated(n)) /\ program'[m] = program[m] + 1
             /\ job[n].kind = "t1" => events = n)
      /\ program' \in [Runs -> Nat]
  <2>1. program \in [Runs -> Nat]
    BY DEF IInv, TypeOK
  <2>2. CASE program' = program
    BY <2>1, <2>2
  <2>3. CASE /\ program[n] < Reach(Simulated(n)) /\ (job[n].kind = "t1" => events = n)
             /\ program' = [program EXCEPT ![n] = @ + 1]
    <3>1. program[n] + 1 \in Nat
      BY <1>1, <2>1
    <3>2. QED
      BY <1>1, <2>1, <2>3, <3>1
  <2>4. QED
    BY <2>2, <2>3
<1>4. out' = out \/ (Piped(n) /\ out' = Append(out, << n, word >>))
    BY WritesOut
<1>5. TypeOK'
    BY <1>1, <1>2, <1>3, <1>4, OneMore DEF IInv, TypeOK
<1>6. \A m \in 1..now : Reach(Simulated(m)) \in Nat
    BY SimulatedIs, ScriptFacts DEF IInv
<1>7. \A m \in Runs : Piped(m)' <=> Piped(m)
    BY DEF Piped
<1>8. Control'
  <2>1. \A m \in Runs : m > now => Fresh(m)'
    BY <1>1, <1>2, <1>3 DEF IInv, Control, Fresh
  <2>2. host # "built" \/ n # now
    BY DEF IInv, Control, Fresh
  <2>3. host = "built" => Fresh(now)'
    BY <1>1, <1>2, <1>3, <2>2 DEF IInv, Control, Fresh
  <2>4. ASSUME NEW m \in 1..now PROVE program'[m] <= Reach(Simulated(m))
    <3>1. /\ program[m] \in Nat /\ Reach(Simulated(m)) \in Nat
          /\ program[m] <= Reach(Simulated(m))
      BY <1>1, <1>6 DEF IInv, Control, TypeOK
    <3>2. program'[m] = program[m] \/
             (program[m] < Reach(Simulated(m)) /\ program'[m] = program[m] + 1)
      BY <1>1, <1>3
    <3>3. QED
      BY <3>1, <3>2
  <2>5. host = "waiting" => simulator'[now] \in {"on", "ended", "broken"}
    BY <1>1, <1>2 DEF IInv, Control
  <2>6. \A m \in 1..now : simulator'[m] = "on" => simulator[m] = "on"
    BY <1>1, <1>2
  <2>7. \A m \in 1..now : Reach(Simulated(m))' = Reach(Simulated(m))
    BY DEF Simulated
  <2>8. QED
    BY <1>7, <1>1, <2>1, <2>3, <2>4, <2>5, <2>6, <2>7 DEF IInv, Control
<1>9. ASSUME NEW m \in 1..now
      PROVE  (Alone(m)' <=> Alone(m)) /\ (Preceded(m)' <=> Preceded(m))
  <2>1. \A k \in 1..(m - 1) : simulator'[k] = "off" <=> simulator[k] = "off"
    BY <1>1, <1>2
  <2>2. QED
    BY <1>1, <2>1, AloneStays
<1>10. Writers'
  <2>1. \A k \in DOMAIN out :
          /\ out[k][1] \in 1..now /\ Piped(out[k][1]) /\ simulator[out[k][1]] # "off"
          /\ driver = "emulate" => out[k][1] = now
    BY DEF IInv, Writers
  <2>2. \A m \in 1..now : simulator[m] # "off" => simulator'[m] # "off"
    BY <1>1, <1>2
  <2>3. CASE out' = out
    BY <1>1, <1>7, <1>9, <2>1, <2>2, <2>3 DEF IInv, Writers, Control
  <2>4. CASE Piped(n) /\ out' = Append(out, << n, word >>)
    <3>1. /\ DOMAIN out' = DOMAIN out \cup {Len(out) + 1}
          /\ out'[Len(out) + 1] = << n, word >>
          /\ \A k \in DOMAIN out : out'[k] = out[k]
      BY <1>1, <2>4, OneMore DEF IInv
    <3>2. simulator'[n] # "off" /\ (driver = "emulate" => n = now)
      BY <2>2 DEF IInv, Control
    <3>3. ASSUME NEW k \in DOMAIN out'
          PROVE  /\ out'[k][1] \in 1..now /\ simulator'[out'[k][1]] # "off"
                 /\ job[out'[k][1]].kind = "chipyard" /\ job[out'[k][1]].traced
                 /\ driver = "emulate" => out'[k][1] = now
      <4>1. CASE k = Len(out) + 1
        BY <2>4, <3>1, <3>2, <4>1 DEF Piped
      <4>2. CASE k \in DOMAIN out
        BY <2>1, <2>2, <3>1, <4>2 DEF Piped
      <4>3. QED
        BY <3>1, <4>1, <4>2
    <3>4. ASSUME host = "waiting", Alone(now), job[now].kind = "chipyard", n # now
          PROVE  FALSE
      <4>1. n \in expired /\ driver = "run-sim" /\ n \in 1..(now - 1)
        BY <1>1, <3>4 DEF IInv, Control
      <4>2. driver # "emulate" /\ simulator[n] # "off"
        BY <4>1
      <4>3. QED
        BY <2>4, <3>4, <4>1, <4>2, AloneMeans
    <3>5. now \in 1..now
      BY <1>1
    <3>6. host = "waiting" /\ Alone(now) /\ job[now].kind = "chipyard" =>
             \A k \in DOMAIN out' : out'[k][1] = now
      BY <3>1, <3>4 DEF IInv, Writers
    <3>7. QED
      BY <1>9, <3>3, <3>5, <3>6 DEF Writers, Piped
  <2>5. QED
    BY <1>4, <2>3, <2>4
<1>11. Kept'
  <2>1. ASSUME NEW m \in 1..now PROVE VerdictOf(m)' /\ MeasureOf(m)'
    <3>1. Reported(m) /\ simulator'[m] = "ended" => simulator[m] = "ended" \/ m \in expired
      <4>1. simulator'[m] = simulator[m] \/ m = n
        BY <1>1, <1>2
      <4>2. Reported(n) => n \in expired
        <5>1. host = "waiting" => ~Reported(now)
          BY DEF IInv, Control, Reported, Unreported
        <5>2. QED
          BY <5>1 DEF IInv, Control
      <4>3. QED
        BY <4>1, <4>2
    <3>2. job[n].kind # "t1" \/ report[n].kernel = {}
      <4>1. n = now /\ host = "waiting" => report[n] = Unreported
        BY DEF IInv, Control
      <4>2. ~(n = now /\ host = "waiting") => job[n].kind = "chipyard"
        BY DEF IInv, Control, Piped
      <4>3. QED
        BY <4>1, <4>2 DEF Unreported
    <3>3. program'[m] = program[m] \/
             (/\ program'[m] = program[m] + 1 /\ program[m] < Reach(Simulated(m))
              /\ job[m].kind # "t1" \/ report[m].kernel = {})
      BY <1>1, <1>3, <3>2
    <3>4. simulator[m] = "broken" => simulator'[m] = "broken"
      BY <1>1, <1>2
    <3>5. QED
      BY <1>9, <3>1, <3>3, <3>4, KeptStays DEF IInv
  <2>2. Kept' <=> \A m \in 1..now' : VerdictOf(m)' /\ MeasureOf(m)'
    BY DEF Kept, VerdictTrue, MeasuredByItself, VerdictOf, MeasureOf
  <2>3. QED
    BY <2>1, <2>2
<1>12. Loads'
  <2>1. \A m \in 1..now : simulator[m] # "off" => simulator'[m] # "off"
    BY <1>1, <1>2
  <2>2. LeftBy(vmem, "vicuna") => LeftBy(vmem, "vicuna")'
    BY <2>1 DEF LeftBy
  <2>3. LeftBy(events, "t1") => LeftBy(events, "t1")'
    BY <2>1 DEF LeftBy
  <2>4. host = "waiting" /\ job[now].kind = "t1" /\ program'[now] # 0 => events = now
    BY <1>1, <1>3 DEF IInv, Loads, Control
  <2>5. QED
    BY <1>9, <2>2, <2>3, <2>4 DEF IInv, Loads
<1>13. QED
    BY <1>5, <1>8, <1>9, <1>10, <1>11, <1>12

\* A simulator that was given up on disturbs only runs that are not alone.
LEMMA OthersSpeak ==
    ASSUME IInv, NEW n \in 1..now, simulator[n] = "on", NEW word \in Said, Writes(n, word),
           n # now,
           UNCHANGED << driver, now, job, host, image, vmem, events, code, expired, report >>,
           \/ program' = program
           \/ /\ program[n] < Reach(Simulated(n)) /\ (job[n].kind = "t1" => events = n)
              /\ program' = [program EXCEPT ![n] = @ + 1],
           \/ simulator' = simulator
           \/ \E s \in {"ended", "broken"} : simulator' = [simulator EXCEPT ![n] = s]
    PROVE  IInv'
<1>1. /\ TypeOK' /\ Control' /\ Loads' /\ Writers' /\ Kept'
      /\ \A m \in 1..now : Alone(m)' <=> Alone(m)
    BY Speaking
<1>2. n \in Runs /\ now \in 1..now /\ now \in Runs
    BY NowRuns DEF IInv
<1>3. program'[now] = program[now] /\ simulator'[now] = simulator[now]
  <2>1. program \in [Runs -> Nat] /\ simulator \in [Runs -> States]
    BY DEF IInv, TypeOK
  <2>2. program'[now] = program[now]
    BY <1>2, <2>1
  <2>3. simulator'[now] = simulator[now]
    BY <1>2, <2>1
  <2>4. QED
    BY <2>2, <2>3
<1>4. Words'
  <2>1. host = "waiting" /\ Alone(now) => Heard' = Heard
    BY HeardGrows DEF IInv
  <2>2. Simulated(now)' = Simulated(now)
    BY DEF Simulated
  <2>3. QED
    BY <1>1, <1>2, <1>3, <2>1, <2>2 DEF IInv, Words
<1>5. Reads'
  <2>1. ASSUME host = "waiting", Alone(now), job[now].kind = "chipyard" PROVE out' = out
    <3>1. \A k \in DOMAIN out' : out'[k][1] = now
      BY <1>1, <1>2, <2>1 DEF Writers
    <3>2. out' # Append(out, << n, word >>)
      BY <1>2, <3>1, OneMore DEF IInv
    <3>3. QED
      BY <3>2, WritesOut
  <2>2. QED
    BY <1>1, <1>2, <1>3, <2>1 DEF IInv, Reads
<1>6. Exits'
    BY <1>3 DEF IInv, Exits, Simulated
<1>7. QED
    BY <1>1, <1>4, <1>5, <1>6 DEF IInv

\* A word that is not a read of the counter adds no read to the trace.
LEMMA NoRead ==
    ASSUME IInv, NEW n \in 1..now, NEW word \in Said, word # "mcycle", Writes(n, word),
           UNCHANGED << now, job, host, program >>, Alone(now)' <=> Alone(now)
    PROVE  Reads'
<1>1. n \in Runs
    BY NowRuns DEF IInv
<1>2. CASE out' = out
    BY <1>2 DEF IInv, Reads
<1>3. CASE out' = Append(out, << n, word >>)
  <2>1. /\ DOMAIN out' = DOMAIN out \cup {Len(out) + 1}
        /\ out'[Len(out) + 1][2] = word
        /\ \A k \in DOMAIN out : out'[k] = out[k]
    BY <1>1, <1>3, OneMore DEF IInv
  <2>2. \A k \in DOMAIN out' : out'[k][2] = "mcycle" => k \in DOMAIN out /\ out[k][2] = "mcycle"
    BY <2>1
  <2>3. QED
    BY <2>2 DEF IInv, Reads
<1>4. QED
    BY <1>2, <1>3, WritesOut

LEMMA StepChatter == IInv /\ Chatter => IInv'
<1> SUFFICES ASSUME IInv, Chatter PROVE IInv'
    OBVIOUS
<1>1. /\ now \in 1..now /\ simulator[now] = "on" /\ host = "waiting"
      /\ UNCHANGED << driver, now, job, host, image, program, simulator, vmem, events,
                      code, expired, report >>
    BY NowRuns DEF IInv, Chatter, Simulating, Control
<1>2. "banner" \in Said /\ Writes(now, "banner")
    BY DEF Chatter, Writes, Said
<1>3. /\ TypeOK' /\ Control' /\ Loads' /\ Writers' /\ Kept' /\ (Alone(now)' <=> Alone(now))
    BY <1>1, <1>2, Speaking
<1>4. Words'
  <2>1. Alone(now) => Heard \subseteq Heard' /\ Heard' \subseteq Heard \cup {"banner"}
    BY <1>1, <1>2, HeardGrows DEF IInv
  <2>2. QED
    BY <1>1, <1>3, <2>1, TellBanner DEF IInv, Words, Simulated
<1>5. Reads' /\ Exits'
    BY <1>1, <1>2, <1>3, NoRead DEF IInv, Exits, Simulated
<1>6. QED
    BY <1>3, <1>4, <1>5 DEF IInv

LEMMA StepProgram ==
    ASSUME IInv, NEW n \in Runs, ProgramStep(n)
    PROVE  IInv'
<1> DEFINE j == Simulated(n)
           word == Script(j)[program[n] + 1]
<1>1. /\ n \in 1..now /\ simulator[n] = "on" /\ program[n] < Reach(Simulated(n))
      /\ job[n].kind = "t1" => events = n
      /\ program' = [program EXCEPT ![n] = @ + 1] /\ ToConsole(n, word)
      /\ UNCHANGED << driver, now, job, host, image, simulator, vmem, events, code,
                      expired, report >>
    BY OnIsPast DEF IInv, ProgramStep
<1>2. /\ j \in Jobs /\ j.kind = job[n].kind /\ (job[n].kind = "t1" => j = job[n])
      /\ program[n] \in Nat /\ program'[n] = program[n] + 1
    BY <1>1, SimulatedIs DEF IInv, TypeOK
<1>3. /\ program[n] + 1 \in 1..Len(Script(j)) /\ program[n] + 1 <= Len(Script(j))
      /\ word \in Printed
      /\ program[n] + 1 <= 2 <=> word = "mcycle"
      /\ j.kind = "chipyard" => Len(Script(j)) = 2
    BY <1>1, <1>2, ScriptFacts DEF Printed
<1>4. word \in Said /\ Writes(n, word)
    BY <1>1, <1>3, ConsoleWrites DEF Said
<1> HIDE DEF word
<1>5. /\ TypeOK' /\ Control' /\ Loads' /\ Writers' /\ Kept'
      /\ \A m \in 1..now : Alone(m)' <=> Alone(m)
    BY <1>1, <1>4, Speaking
<1>6. CASE n # now
    BY <1>1, <1>4, <1>6, OthersSpeak
<1>7. CASE n = now
  <2>1. Words'
    <3>1. ASSUME host = "waiting", Alone(now)
          PROVE  Tell(j, Heard', program[n] + 1, "on")
      <4>1. Heard \subseteq Heard' /\ Heard' \subseteq Heard \cup {word}
        BY <1>1, <1>4, <1>7, <3>1, HeardGrows DEF IInv
      <4>2. Tell(j, Heard, program[n], "on")
        BY <1>1, <1>7, <3>1 DEF IInv, Words
      <4>3. word # "mcycle" /\ j.kind # "chipyard"
            /\ ~(j.kind = "t1" /\ j.traced /\ j.console = "stdout")
            => word \in Heard'
        BY <1>1, <1>2, <1>7, PrintedIsHeard DEF IInv, Unheard
      <4>4. QED
        BY <1>1, <1>2, <4>1, <4>2, <4>3, TellScript DEF word
    <3>2. Simulated(now)' = j
      BY <1>1, <1>7 DEF Simulated
    <3>3. QED
      BY <1>1, <1>2, <1>5, <1>7, <3>1, <3>2 DEF Words
  <2>2. Reads'
    <3>1. CASE out' = out
      <4>1. program[n] >= 1 => program'[n] >= 1
        BY <1>2
      <4>2. program[n] >= 2 => program'[n] >= 2
        BY <1>2
      <4>3. QED
        BY <1>1, <1>5, <1>7, <3>1, <4>1, <4>2 DEF IInv, Reads
    <3>2. CASE out' = Append(out, << n, word >>)
      <4>1. /\ DOMAIN out' = DOMAIN out \cup {Len(out) + 1}
            /\ Len(out) + 1 \notin DOMAIN out
            /\ out'[Len(out) + 1][2] = word
            /\ \A k \in DOMAIN out : out'[k] = out[k]
        BY <1>4, <3>2, OneMore DEF IInv
      <4>2. program'[n] >= 1 /\ (program[n] >= 1 => program'[n] >= 2)
        BY <1>2
      <4>3. ASSUME host = "waiting", Alone(now), job[now].kind = "chipyard",
                   NEW k \in DOMAIN out', NEW l \in DOMAIN out', k # l,
                   out'[k][2] = "mcycle", out'[l][2] = "mcycle"
            PROVE  program'[n] >= 2
        <5>1. PICK e \in {k, l} : e \in DOMAIN out /\ out[e][2] = "mcycle"
          BY <4>1, <4>3
        <5>2. program[n] >= 1
          BY <1>7, <4>3, <5>1 DEF IInv, Reads
        <5>3. QED
          BY <4>2, <5>2
      <4>4. QED
        BY <1>1, <1>5, <1>7, <4>2, <4>3 DEF Reads
    <3>3. QED
      BY <1>4, <3>1, <3>2, WritesOut
  <2>3. Exits'
    BY <1>1, <1>7 DEF Exits
  <2>4. QED
    BY <1>5, <2>1, <2>2, <2>3 DEF IInv
<1>8. QED
    BY <1>6, <1>7

LEMMA LastWordSaid ==
    ASSUME NEW j, LastWord(j) # {}
    PROVE  \E word \in Said \ {"mcycle"} : LastWord(j) = {word}
<1>1. CASE j.kind = "chipyard"
    BY <1>1 DEF LastWord, Said, Printed
<1>2. CASE j.kind = "xiangshan"
    BY <1>2 DEF LastWord, Said
<1>3. CASE j.kind = "t1"
    BY <1>3 DEF LastWord, Said
<1>4. CASE j.kind \notin {"chipyard", "xiangshan", "t1"}
    BY <1>4 DEF LastWord
<1>5. QED
    BY <1>1, <1>2, <1>3, <1>4

LEMMA StepStops ==
    ASSUME IInv, NEW n \in Runs, ProgramStops(n)
    PROVE  IInv'
<1>1. /\ n \in 1..now /\ simulator[n] = "on" /\ simulator' = [simulator EXCEPT ![n] = "ended"]
      /\ Simulated(n).conduct # "trap" /\ program[n] = Reach(Simulated(n))
      /\ UNCHANGED << driver, now, job, host, image, program, vmem, events, expired, report >>
    BY OnIsPast DEF IInv, ProgramStops
<1>2. Simulated(n) \in Jobs
    BY <1>1, SimulatedIs DEF IInv
<1>3. PICK word \in Said \ {"mcycle"} :
          /\ Writes(n, word)
          /\ LastWord(Simulated(n)) = {} => UNCHANGED << caught, log, out >>
          /\ LastWord(Simulated(n)) # {} => LastWord(Simulated(n)) = {word}
  <2>1. CASE LastWord(Simulated(n)) = {}
    <3>1. "banner" \in Said \ {"mcycle"}
      BY DEF Said
    <3>2. UNCHANGED << caught, log, out >>
      BY <2>1 DEF ProgramStops
    <3>3. Writes(n, "banner")
      BY <3>2 DEF Writes
    <3>4. QED
      BY <2>1, <3>1, <3>2, <3>3
  <2>2. CASE LastWord(Simulated(n)) # {}
    <3>1. PICK word \in Said \ {"mcycle"} : LastWord(Simulated(n)) = {word}
      BY <2>2, LastWordSaid
    <3>2. ToStderr(n, CHOOSE w \in LastWord(Simulated(n)) : TRUE)
      BY <2>2 DEF ProgramStops
    <3>3. (CHOOSE w \in LastWord(Simulated(n)) : TRUE) = word
      BY <3>1
    <3>4. Writes(n, word)
      BY <3>2, <3>3 DEF Writes
    <3>5. QED
      BY <2>2, <3>1, <3>4
  <2>3. QED
    BY <2>1, <2>2
<1>4. /\ TypeOK' /\ Control' /\ Loads' /\ Writers' /\ Kept'
      /\ \A m \in 1..now : Alone(m)' <=> Alone(m)
    BY <1>1, <1>3, Speaking
<1>5. PICK c \in ExitCodes(Simulated(n)) : code' = IF n = now THEN c ELSE code
    BY DEF ProgramStops
<1>6. CASE n # now
  <2>1. code' = code
    BY <1>5, <1>6
  <2>2. QED
    BY <1>1, <1>3, <1>6, <2>1, OthersSpeak
<1>7. CASE n = now
  <2>1. simulator'[now] = "ended" /\ Simulated(now)' = Simulated(now)
    BY <1>1, <1>7 DEF IInv, TypeOK, Simulated
  <2>2. Words'
    <3>1. ASSUME host = "waiting", Alone(now)
          PROVE  Tell(Simulated(n), Heard', program[n], "ended")
      <4>1. Heard \subseteq Heard' /\ Heard' \subseteq Heard \cup {word}
        BY <1>1, <1>3, <1>7, <3>1, HeardGrows DEF IInv
      <4>2. LastWord(Simulated(n)) = {} => Heard' = Heard
        BY <1>1, <1>3 DEF Heard, Captured, OutWords, Piped
      <4>3. Heard' \subseteq Heard \cup LastWord(Simulated(n))
        BY <1>3, <4>1, <4>2
      <4>4. Tell(Simulated(n), Heard, program[n], "on")
        BY <1>1, <1>7, <3>1 DEF IInv, Words
      <4>5. QED
        BY <1>1, <1>2, <4>1, <4>3, <4>4, TellLast
    <3>2. QED
      BY <1>1, <1>4, <1>7, <2>1, <3>1 DEF Words
  <2>3. Reads'
    BY <1>1, <1>3, <1>4, <1>7, NoRead
  <2>4. Exits'
    BY <1>1, <1>5, <1>7, <2>1 DEF Exits
  <2>5. QED
    BY <1>4, <2>2, <2>3, <2>4 DEF IInv
<1>8. QED
    BY <1>6, <1>7

LEMMA StepBreaks ==
    ASSUME IInv, NEW n \in Runs, Breaks(n)
    PROVE  IInv'
<1>1. /\ n \in 1..now /\ simulator[n] = "on" /\ simulator' = [simulator EXCEPT ![n] = "broken"]
      /\ \E c \in BrokenCodes(job[n]) : code' = IF n = now THEN c ELSE code
      /\ UNCHANGED << driver, now, job, host, image, program, vmem, events, expired, report >>
    BY OnIsPast DEF IInv, Breaks
<1>2. PICK word \in {"Assertion failed", "FAILED"} : Writes(n, word)
    BY DEF Breaks, Writes
<1>3. word \in Said /\ word # "mcycle"
    BY DEF Said, Printed
<1>4. /\ TypeOK' /\ Control' /\ Loads' /\ Writers' /\ Kept'
      /\ \A m \in 1..now : Alone(m)' <=> Alone(m)
    BY <1>1, <1>2, <1>3, Speaking
<1>5. CASE n # now
  <2>1. code' = code
    BY <1>1, <1>5
  <2>2. QED
    BY <1>1, <1>2, <1>3, <1>5, <2>1, OthersSpeak
<1>6. CASE n = now
  <2>1. simulator'[now] = "broken" /\ Simulated(now)' = Simulated(now)
    BY <1>1, <1>6 DEF IInv, TypeOK, Simulated
  <2>2. Words'
    <3>1. ASSUME host = "waiting", Alone(now)
          PROVE  Tell(Simulated(n), Heard', program[n], "broken")
      <4>1. Heard \subseteq Heard' /\ Heard' \subseteq Heard \cup {"Assertion failed", "FAILED"}
        BY <1>1, <1>2, <1>3, <1>6, <3>1, HeardGrows DEF IInv
      <4>2. Tell(Simulated(n), Heard, program[n], "on")
        BY <1>1, <1>6, <3>1 DEF IInv, Words
      <4>3. QED
        BY <4>1, <4>2, TellBroken
    <3>2. QED
      BY <1>1, <1>4, <1>6, <2>1, <3>1 DEF Words
  <2>3. Reads'
    BY <1>1, <1>2, <1>3, <1>4, <1>6, NoRead
  <2>4. Exits'
    BY <1>1, <1>6, <2>1 DEF Exits
  <2>5. QED
    BY <1>4, <2>2, <2>3, <2>4 DEF IInv
<1>7. QED
    BY <1>5, <1>6

-----------------------------------------------------------------------------
(* The steps of the host.                                                    *)

LEMMA KeptMeansNext ==
    Kept' <=> \A m \in 1..now' : VerdictOf(m)' /\ MeasureOf(m)'
BY DEF Kept, VerdictTrue, MeasuredByItself, VerdictOf, MeasureOf

LEMMA StepBuildFails == IInv /\ BuildFails => IInv'
<1> SUFFICES ASSUME IInv, BuildFails PROVE IInv'
    OBVIOUS
<1>1. /\ host = "built" /\ host' = "idle" /\ report' = [report EXCEPT ![now] = Aborted]
      /\ UNCHANGED << driver, now, job, image, program, simulator, caught, log, out, vmem,
                      events, code, expired >>
      /\ now \in Runs /\ simulator[now] = "off" /\ now \notin expired /\ now \in 1..now
    BY NowRuns DEF IInv, BuildFails, Control, Fresh
<1>2. report'[now] = Aborted /\ \A m \in Runs : m # now => report'[m] = report[m]
    BY <1>1 DEF IInv, TypeOK
<1>3. TypeOK'
  <2>1. Aborted \in [status : Statuses, code : Nat, kernel : SUBSET Runs]
    BY DEF Aborted, Statuses
  <2>2. QED
    BY <1>1, <2>1 DEF IInv, TypeOK
<1>4. Control'
  <2>1. \A m \in Runs : m > now => Fresh(m)'
    BY <1>1, <1>2, NowRuns DEF IInv, Control, Fresh, Unreported
  <2>2. QED
    BY <1>1, <2>1, NowRuns DEF IInv, Control, Piped, Simulated
<1>5. \A m \in 1..now : (Alone(m)' <=> Alone(m)) /\ (Preceded(m)' <=> Preceded(m))
    BY <1>1, NowRuns, AloneStays DEF IInv
<1>6. Writers' /\ Words' /\ Reads' /\ Exits'
    BY <1>1 DEF IInv, Writers, Words, Reads, Exits, Piped
<1>7. Loads'
    BY <1>1, <1>5 DEF IInv, Loads, LeftBy
<1>8. Kept'
  <2>1. ASSUME NEW m \in 1..now, m # now PROVE VerdictOf(m)' /\ MeasureOf(m)'
    BY <1>1, <1>2, <1>5, <2>1, KeptStays, NowRuns DEF IInv
  <2>2. VerdictOf(now)' /\ MeasureOf(now)'
    BY <1>1, <1>2 DEF VerdictOf, MeasureOf, Aborted, Good
  <2>3. QED
    BY <1>1, <2>1, <2>2, KeptMeansNext
<1>9. QED
    BY <1>3, <1>4, <1>6, <1>8, <1>7 DEF IInv

LEMMA StepOpens == IInv /\ OpensEvents => IInv'
<1> SUFFICES ASSUME IInv, OpensEvents PROVE IInv'
    OBVIOUS
<1>1. /\ host = "waiting" /\ simulator[now] = "on" /\ job[now].kind = "t1" /\ events' = now
      /\ UNCHANGED << driver, now, job, host, image, program, simulator, caught, log,
                      out, vmem, code, expired, report >>
      /\ now \in 1..now
    BY NowRuns DEF IInv, OpensEvents, Simulating, Control
<1>2. /\ \A n : Alone(n)' <=> Alone(n)
      /\ \A n : Preceded(n)' <=> Preceded(n)
      /\ \A n : Simulated(n)' = Simulated(n)
      /\ \A n : Piped(n)' <=> Piped(n)
    BY <1>1 DEF Alone, Preceded, Simulated, Piped
<1>3. TypeOK' /\ Control' /\ Writers'
  <2>1. TypeOK'
    BY <1>1 DEF IInv, TypeOK
  <2>2. \A n : Reach(Simulated(n))' = Reach(Simulated(n))
    BY <1>2
  <2>3. Control'
    BY <1>1, <1>2, <2>2 DEF IInv, Control, Fresh
  <2>4. Writers'
    BY <1>1, <1>2 DEF IInv, Writers
  <2>5. QED
    BY <2>1, <2>3, <2>4
<1>4. Loads'
  <2>1. LeftBy(vmem, "vicuna") => LeftBy(vmem, "vicuna")'
    BY <1>1 DEF LeftBy
  <2>2. LeftBy(now, "t1")'
    BY <1>1 DEF LeftBy
  <2>3. QED
    BY <1>1, <1>2, <2>1, <2>2 DEF IInv, Loads
<1>5. Words' /\ Reads' /\ Exits'
  <2>1. Heard' = Heard
    BY <1>1, <1>2 DEF Heard, Captured, OutWords
  <2>2. QED
    BY <1>1, <1>2, <2>1 DEF IInv, Words, Reads, Exits
<1>6. Kept'
    BY <1>1, <1>2 DEF IInv, Kept, VerdictTrue, MeasuredByItself, Reported, Good, Unheard,
                      Limited, Unopened, Judged
<1>7. QED
    BY <1>3, <1>4, <1>5, <1>6 DEF IInv

LEMMA StepBegin ==
    ASSUME IInv, NEW j \in JobsRun, Begin(j)
    PROVE  IInv'
<1>1. /\ host = "idle" /\ now < MaxRuns /\ now' = now + 1 /\ job' = Append(job, j)
      /\ host' = "built"
      /\ UNCHANGED << driver, image, program, caught, code, expired, report >>
      /\ (vmem' = 0 /\ events' = 0) \/ (driver # "emulate" /\ UNCHANGED << vmem, events >>)
    BY DEF Begin
<1>2. j \in Jobs /\ now \in Nat /\ MaxRuns \in Nat /\ now + 1 \in Runs
    BY <1>1, NowRuns, JobsAssumption DEF IInv, Runs
<1>3. /\ job' \in Seq(Jobs) /\ Len(job') = now + 1 /\ job'[now + 1] = j
      /\ \A m \in 1..now : job'[m] = job[m]
  <2>1. job \in Seq(Jobs) /\ Len(job) = now
    BY DEF IInv, TypeOK
  <2>2. QED
    BY <1>1, <1>2, <2>1, AppendProperties
<1>4. /\ simulator' \in [Runs -> States]
      /\ \A m \in Runs : /\ simulator'[m] = simulator[m] \/
                               (simulator[m] = "on" /\ simulator'[m] = "killed")
                         /\ driver = "emulate" => simulator'[m] # "on"
      /\ (out' = out /\ driver # "emulate") \/ out' = << >>
  <2>1. CASE driver = "emulate"
    <3>1. /\ out' = << >>
          /\ simulator' = [n \in Runs |-> IF simulator[n] = "on" THEN "killed"
                                          ELSE simulator[n]]
      BY <2>1 DEF Begin
    <3>2. simulator \in [Runs -> States]
      BY DEF IInv, TypeOK
    <3>3. QED
      BY <2>1, <3>1, <3>2 DEF States
  <2>2. CASE driver # "emulate"
    BY <2>2 DEF Begin, IInv, TypeOK
  <2>3. QED
    BY <2>1, <2>2
<1>5. TypeOK'
  <2>1. << >> \in Seq(Runs \X Said)
    OBVIOUS
  <2>2. out' \in Seq(Runs \X Said)
    BY <1>4, <2>1 DEF IInv, TypeOK
  <2>3. now + 1 \in 0..MaxRuns
    BY <1>1, <1>2
  <2>4. QED
    BY <1>1, <1>3, <1>4, <2>2, <2>3 DEF IInv, TypeOK
<1>6. /\ \A m \in 1..(now + 1) : m \in 1..now \/ m = now + 1
      /\ \A m \in 1..now : m \in 1..(now + 1) /\ m # now + 1 /\ m \in Runs
      /\ \A m \in Runs : m > now + 1 => m > now
      /\ now + 1 > now /\ now + 1 \notin 1..now
    BY <1>2, NowRuns DEF IInv
<1>7. Fresh(now + 1) /\ \A m \in Runs : m > now => Fresh(m)
    BY <1>2, <1>6 DEF IInv, Control
<1>8. \A m \in Runs : m > now => Fresh(m)'
    BY <1>1, <1>4, <1>7 DEF Fresh
<1>9. Control'
  <2>1. \A m \in 1..(now + 1) : program'[m] <= Reach(job'[image'[m]])
    <3>1. program'[now + 1] = 0 /\ Reach(j) \in Nat /\ image'[now + 1] = now + 1
      BY <1>1, <1>2, <1>7, ScriptFacts DEF Fresh
    <3>2. job'[image'[now + 1]] = j
      BY <1>3, <3>1
    <3>3. program'[now + 1] <= Reach(job'[image'[now + 1]])
      BY <3>1, <3>2
    <3>4. ASSUME NEW m \in 1..now PROVE program'[m] <= Reach(job'[image'[m]])
      <4>1. job'[image'[m]] = Simulated(m)
        BY <1>1, <1>3 DEF IInv, Loads, Simulated
      <4>2. program'[m] <= Reach(Simulated(m))
        BY <1>1 DEF IInv, Control
      <4>3. QED
        BY <4>1, <4>2
    <3>5. QED
      BY <1>6, <3>3, <3>4
  <2>2. ASSUME NEW m \in 1..(now + 1), simulator'[m] = "on"
        PROVE  Piped(m)' /\ m \in expired' /\ driver' = "run-sim"
    <3>1. m # now + 1
      BY <1>2, <1>4, <1>7, <2>2 DEF Fresh
    <3>2. m \in 1..now /\ m \in Runs
      BY <1>6, <2>2, <3>1
    <3>3. simulator[m] = "on" /\ driver # "emulate"
      BY <1>4, <2>2, <3>2
    <3>4. Piped(m) /\ m \in expired
      BY <1>1, <3>2, <3>3 DEF IInv, Control
    <3>5. QED
      BY <1>1, <1>3, <3>2, <3>3, <3>4 DEF IInv, TypeOK, Piped
  <2>3. \A m : Reach(Simulated(m))' = Reach(job'[image'[m]])
    BY DEF Simulated
  <2>4. QED
    BY <1>1, <1>2, <1>6, <1>8, <2>1, <2>2, <2>3 DEF Control
<1>10. Writers'
  <2>1. CASE out' = << >>
    BY <1>1, <2>1 DEF Writers
  <2>2. CASE out' = out /\ driver # "emulate"
    <3>1. \A k \in DOMAIN out : out[k][1] \in 1..now /\ Piped(out[k][1])
              /\ simulator[out[k][1]] # "off"
      BY DEF IInv, Writers
    <3>2. \A k \in DOMAIN out : out[k][1] \in 1..(now + 1) /\ simulator'[out[k][1]] # "off"
              /\ job'[out[k][1]].kind = "chipyard" /\ job'[out[k][1]].traced
      BY <1>3, <1>4, <1>6, <3>1 DEF Piped
    <3>3. QED
      BY <1>1, <2>2, <3>2 DEF Writers, Piped
  <2>3. QED
    BY <1>4, <2>1, <2>2
<1>11. \A m \in 1..now : (Alone(m)' <=> Alone(m)) /\ (Preceded(m)' <=> Preceded(m))
  <2>1. ASSUME NEW m \in 1..now
        PROVE  (Alone(m)' <=> Alone(m)) /\ (Preceded(m)' <=> Preceded(m))
    <3>1. \A k \in 1..(m - 1) : simulator'[k] = "off" <=> simulator[k] = "off"
      BY <1>2, <1>4, <1>6
    <3>2. QED
      BY <1>1, <1>2, <1>3, <3>1, AloneStays
  <2>2. QED
    BY <2>1
<1>12. Words' /\ Reads' /\ Exits'
    BY <1>1 DEF Words, Reads, Exits
<1>13. Kept'
  <2>1. ASSUME NEW m \in 1..now PROVE VerdictOf(m)' /\ MeasureOf(m)'
    <3>1. /\ simulator'[m] = "ended" => simulator[m] = "ended"
          /\ simulator[m] = "broken" => simulator'[m] = "broken"
      BY <1>4, <1>6
    <3>2. QED
      BY <1>1, <1>3, <1>11, <3>1, KeptStays DEF IInv
  <2>2. ASSUME NEW n, n = now + 1 PROVE VerdictOf(n)' /\ MeasureOf(n)'
    <3>1. report'[n] = Unreported
      BY <1>1, <1>7, <2>2 DEF Fresh
    <3>2. QED
      BY <3>1 DEF VerdictOf, MeasureOf, Reported, Unreported
  <2>3. ASSUME NEW m \in 1..now' PROVE VerdictOf(m)' /\ MeasureOf(m)'
    BY <1>1, <1>6, <2>1, <2>2
  <2>4. QED
    BY <2>3, KeptMeansNext
<1>14. Loads'
  <2>1. \A m \in 1..(now + 1) :
            /\ image'[m] \in 1..(now + 1) /\ job'[image'[m]].kind = job'[m].kind
            /\ image'[m] = m \/ (job'[m].kind = "vicuna" /\ Preceded(m)')
    <3>1. image'[now + 1] = now + 1 /\ now + 1 \in 1..(now + 1)
      BY <1>1, <1>2, <1>7 DEF Fresh
    <3>2. \A m \in 1..now :
            /\ image'[m] \in 1..now /\ job'[image'[m]].kind = job'[m].kind
            /\ image'[m] = m \/ (job'[m].kind = "vicuna" /\ Preceded(m)')
      BY <1>1, <1>3, <1>11 DEF IInv, Loads
    <3>3. QED
      BY <1>6, <3>1, <3>2
  <2>2. ASSUME NEW m, NEW kind, LeftBy(m, kind), driver # "emulate"
        PROVE  LeftBy(m, kind)'
    <3>1. m \in 1..now /\ job[m].kind = kind /\ simulator[m] # "off"
      BY <2>2 DEF LeftBy
    <3>2. m \in 1..(now + 1) /\ job'[m].kind = kind /\ simulator'[m] # "off"
      BY <1>3, <1>4, <1>6, <3>1
    <3>3. QED
      BY <1>1, <2>2, <3>2 DEF LeftBy
  <2>3. (vmem' # 0 => LeftBy(vmem, "vicuna")') /\ (events' # 0 => LeftBy(events, "t1")')
    <3>1. CASE vmem' = 0 /\ events' = 0
      BY <3>1
    <3>2. CASE driver # "emulate" /\ UNCHANGED << vmem, events >>
      BY <2>2, <3>2 DEF IInv, Loads
    <3>3. QED
      BY <1>1, <3>1, <3>2
  <2>4. QED
    BY <1>1, <2>1, <2>3 DEF Loads
<1>15. QED
    BY <1>5, <1>9, <1>10, <1>12, <1>13, <1>14 DEF IInv

\* A run that is alone starts with empty files.
LEMMA EmptyAtLaunch ==
    ASSUME IInv, host = "built", Alone(now), job[now].kind = "chipyard", ~Piped(now),
           NEW k \in DOMAIN out
    PROVE  FALSE
<1>1. now \in Nat
    BY NowRuns DEF IInv
<1>2. /\ out[k][1] \in 1..now /\ Piped(out[k][1]) /\ simulator[out[k][1]] # "off"
      /\ driver = "emulate" => out[k][1] = now
    BY DEF IInv, Writers
<1>3. out[k][1] # now
    BY <1>2
<1>4. out[k][1] \in 1..(now - 1)
    BY <1>1, <1>2, <1>3
<1>5. QED
    BY <1>2, <1>3, <1>4, AloneMeans

LEMMA StepLaunch == IInv /\ Launch => IInv'
<1> SUFFICES ASSUME IInv, Launch PROVE IInv'
    OBVIOUS
<1>1. /\ host = "built" /\ host' = "waiting" /\ simulator' = [simulator EXCEPT ![now] = "on"]
      /\ caught' = {} /\ out' = IF Piped(now) THEN << >> ELSE out
      /\ log' = IF Piped(now) \/ (job[now].kind = "t1" /\ job[now].traced) THEN {} ELSE log
      /\ UNCHANGED << driver, now, job, program, events, code, expired, report >>
      /\ Convert
    BY DEF Launch, OutAtLaunch
<1>2. /\ now \in Runs /\ now \in 1..now /\ now \in Nat /\ \A m \in 1..now : m \in Runs
      /\ Fresh(now)
    BY <1>1, NowRuns DEF IInv, Control
<1>3. /\ simulator' \in [Runs -> States] /\ simulator'[now] = "on"
      /\ \A m \in Runs : m # now => simulator'[m] = simulator[m]
    BY <1>1, <1>2 DEF IInv, TypeOK, States
<1>4. /\ image' \in [Runs -> Runs] /\ image'[now] \in 1..now
      /\ \A m \in Runs : m # now => image'[m] = image[m]
      /\ job[image'[now]].kind = job[now].kind
      /\ image'[now] = now \/ (job[now].kind = "vicuna" /\ Preceded(now))
      /\ vmem' = vmem \/ (vmem' = now /\ job[now].kind = "vicuna")
  <2>1. image \in [Runs -> Runs] /\ image[now] = now
    BY <1>2 DEF IInv, TypeOK, Fresh
  <2>2. CASE job[now].kind # "vicuna"
    BY <1>1, <1>2, <2>1, <2>2 DEF Convert
  <2>3. CASE job[now].kind = "vicuna" /\ vmem = 0
    <3>1. vmem' = now /\ image' = [image EXCEPT ![now] = now]
      BY <1>1, <2>3 DEF Convert
    <3>2. QED
      BY <1>2, <2>1, <2>3, <3>1
  <2>4. CASE job[now].kind = "vicuna" /\ vmem # 0
    <3>1. vmem' = vmem /\ image' = [image EXCEPT ![now] = vmem]
      BY <1>1, <2>4 DEF Convert
    <3>2. /\ vmem \in 1..now /\ job[vmem].kind = "vicuna" /\ simulator[vmem] # "off"
          /\ driver = "emulate" => vmem = now
      BY <2>4 DEF IInv, Loads, LeftBy
    <3>3. vmem # now /\ vmem \in 1..(now - 1) /\ driver = "run-sim"
      BY <1>2, <3>2 DEF IInv, TypeOK, Fresh
    <3>4. Preceded(now)
      BY <2>4, <3>2, <3>3 DEF Preceded
    <3>5. QED
      BY <1>2, <2>1, <2>4, <3>1, <3>2, <3>4
  <2>5. QED
    BY <2>2, <2>3, <2>4
<1>5. TypeOK'
  <2>1. << >> \in Seq(Runs \X Said)
    OBVIOUS
  <2>2. out' \in Seq(Runs \X Said)
    BY <1>1, <2>1 DEF IInv, TypeOK
  <2>3. QED
    BY <1>1, <1>3, <1>4, <2>2 DEF IInv, TypeOK
<1>6. Control'
  <2>1. \A m \in Runs : m > now => Fresh(m)'
    BY <1>1, <1>2, <1>3, <1>4 DEF IInv, Control, Fresh
  <2>2. \A m \in 1..now : program'[m] <= Reach(job'[image'[m]])
    <3>1. program'[now] <= Reach(job'[image'[now]])
      <4>1. job'[image'[now]] \in Jobs
        BY <1>1, <1>4, JobIs DEF IInv
      <4>2. Reach(job'[image'[now]]) \in Nat
        BY <4>1, ScriptFacts
      <4>3. program'[now] = 0
        BY <1>1, <1>2 DEF Fresh
      <4>4. QED
        BY <4>2, <4>3
    <3>2. ASSUME NEW m \in 1..now, m # now PROVE program'[m] <= Reach(job'[image'[m]])
      <4>1. job'[image'[m]] = Simulated(m)
        BY <1>1, <1>2, <1>4, <3>2 DEF Simulated
      <4>2. program'[m] <= Reach(Simulated(m))
        BY <1>1 DEF IInv, Control
      <4>3. QED
        BY <4>1, <4>2
    <3>3. QED
      BY <3>1, <3>2
  <2>3. \A m \in 1..now : simulator'[m] = "on" /\ m # now =>
            Piped(m)' /\ m \in expired' /\ driver' = "run-sim"
    BY <1>1, <1>2, <1>3 DEF IInv, Control, Piped
  <2>4. simulator'[now] = "on" /\ report'[now] = Unreported /\ now \notin expired'
    BY <1>1, <1>2, <1>3 DEF Fresh
  <2>5. \A m : Reach(Simulated(m))' = Reach(job'[image'[m]])
    BY DEF Simulated
  <2>6. QED
    BY <1>1, <1>2, <2>1, <2>2, <2>3, <2>4, <2>5 DEF Control
<1>7. \A m \in 1..now : (Alone(m)' <=> Alone(m)) /\ (Preceded(m)' <=> Preceded(m))
  <2>1. ASSUME NEW m \in 1..now
        PROVE  (Alone(m)' <=> Alone(m)) /\ (Preceded(m)' <=> Preceded(m))
    <3>1. \A k \in 1..(m - 1) : simulator'[k] = "off" <=> simulator[k] = "off"
      BY <1>2, <1>3
    <3>2. QED
      BY <1>1, <1>2, <3>1, AloneStays
  <2>2. QED
    BY <2>1
<1>8. ASSUME Alone(now), job[now].kind = "chipyard" PROVE DOMAIN out' = {}
    BY <1>1, <1>8, EmptyAtLaunch
<1>9. Writers'
  <2>1. \A k \in DOMAIN out :
          /\ out[k][1] \in 1..now /\ Piped(out[k][1]) /\ simulator[out[k][1]] # "off"
          /\ driver = "emulate" => out[k][1] = now
    BY DEF IInv, Writers
  <2>2. \A m \in 1..now : simulator[m] # "off" => simulator'[m] # "off"
    BY <1>2, <1>3
  <2>3. \A k \in DOMAIN out' : k \in DOMAIN out /\ out'[k] = out[k]
    BY <1>1
  <2>4. \A k \in DOMAIN out' :
          /\ out'[k][1] \in 1..now /\ simulator'[out'[k][1]] # "off"
          /\ job[out'[k][1]].kind = "chipyard" /\ job[out'[k][1]].traced
          /\ driver = "emulate" => out'[k][1] = now
    BY <2>1, <2>2, <2>3 DEF Piped
  <2>5. QED
    BY <1>1, <1>2, <1>7, <1>8, <2>4 DEF Writers, Piped
<1>10. Words'
  <2>1. ASSUME Alone(now) PROVE Heard' = {}
    <3>1. Captured' = {}
      BY <1>1 DEF Captured, Piped
    <3>2. OutWords' = {}
      BY <1>1, <1>8, <2>1 DEF OutWords, Range
    <3>3. QED
      BY <3>1, <3>2 DEF Heard
  <2>2. Tell(Simulated(now)', {}, 0, "on")
    <3>1. Simulated(now)' \in Jobs
      BY <1>1, <1>4, JobIs DEF IInv, Simulated
    <3>2. Len(Script(Simulated(now)')) \in 2..4
      BY <3>1, ScriptFacts
    <3>3. Len(Script(Simulated(now)')) # 0
      BY <3>2
    <3>4. QED
      BY <3>3 DEF Tell
  <2>3. QED
    BY <1>1, <1>2, <1>3, <1>7, <2>1, <2>2 DEF Words, Fresh
<1>11. Reads'
    BY <1>1, <1>2, <1>7, <1>8 DEF Reads
<1>12. Exits'
    BY <1>1, <1>3 DEF Exits
<1>13. Kept'
  <2>1. ASSUME NEW m \in 1..now, m # now PROVE VerdictOf(m)' /\ MeasureOf(m)'
    <3>1. simulator'[m] = simulator[m] /\ image'[m] = image[m]
      BY <1>2, <1>3, <1>4, <2>1
    <3>2. QED
      BY <1>1, <1>7, <3>1, KeptStays DEF IInv
  <2>2. ASSUME NEW m, m = now PROVE VerdictOf(m)' /\ MeasureOf(m)'
    <3>1. report'[m] = Unreported
      BY <1>1, <1>2, <2>2 DEF Fresh
    <3>2. QED
      BY <3>1 DEF VerdictOf, MeasureOf, Reported, Unreported
  <2>3. ASSUME NEW m \in 1..now' PROVE VerdictOf(m)' /\ MeasureOf(m)'
    BY <1>1, <2>1, <2>2
  <2>4. QED
    BY <2>3, KeptMeansNext
<1>14. Loads'
  <2>1. \A m \in 1..now :
            /\ image'[m] \in 1..now /\ job[image'[m]].kind = job[m].kind
            /\ image'[m] = m \/ (job[m].kind = "vicuna" /\ Preceded(m))
    BY <1>2, <1>4 DEF IInv, Loads
  <2>2. \A m \in 1..now : simulator[m] # "off" => simulator'[m] # "off"
    BY <1>2, <1>3
  <2>3. LeftBy(vmem, "vicuna") /\ vmem' = vmem => LeftBy(vmem, "vicuna")'
    BY <1>1, <2>2 DEF LeftBy
  <2>4. job[now].kind = "vicuna" /\ vmem' = now => LeftBy(vmem, "vicuna")'
    BY <1>1, <1>2, <1>3 DEF LeftBy
  <2>5. LeftBy(events, "t1") => LeftBy(events, "t1")'
    BY <1>1, <2>2 DEF LeftBy
  <2>6. vmem' # 0 => LeftBy(vmem, "vicuna")'
    BY <1>4, <2>3, <2>4 DEF IInv, Loads
  <2>7. QED
    BY <1>1, <1>2, <1>7, <2>1, <2>5, <2>6 DEF IInv, Loads, Fresh
<1>15. QED
    BY <1>5, <1>6, <1>9, <1>10, <1>11, <1>12, <1>13, <1>14 DEF IInv

-----------------------------------------------------------------------------
(* The verdict and the cycles.                                               *)

LEMMA VerdictStatus ==
    ASSUME NEW heard, NEW c
    PROVE  Verdict(heard, c) \in Statuses \ {"pending", "none"}
BY DEF Verdict, StatusFromLog, Statuses

LEMMA LateVerdict ==
    ASSUME NEW heard, "$finish" \notin heard, Verdict(heard, 124) \in {"OK", "PASS"}
    PROVE  "PASSED" \in heard \/ "HIT GOOD TRAP" \in heard
<1>1. Verdict(heard, 124) = StatusFromLog(heard, 124)
    BY DEF Verdict
<1>2. CASE heard \cap {"PASSED", "HIT GOOD TRAP"} = {}
  <2>1. (124 = 0) = FALSE
    OBVIOUS
  <2>2. StatusFromLog(heard, 124) \in {"FAIL", "ASSERT", "TIMEOUT"}
    BY <1>2, <2>1, Zenon DEF StatusFromLog
  <2>3. QED
    BY <1>1, <2>2
<1>3. CASE heard \cap {"PASSED", "HIT GOOD TRAP"} # {}
    BY <1>3
<1>4. QED
    BY <1>2, <1>3

LEMMA JudgedRight ==
    ASSUME NEW j \in Jobs, j.kind = job[now].kind, j.kind = "t1" => j = job[now],
           NEW p, NEW heard, NEW c, NEW s \in {"ended", "broken"},
           Tell(j, heard, p, s),
           s = "ended" => j.conduct # "trap" /\ p = Reach(j) /\ c \in ExitCodes(j),
           s = "broken" /\ j.kind # "xiangshan" => c = 1
    PROVE  /\ /\ Verdict(heard, c) \in {"OK", "PASS"} /\ ~Unheard(now)
              /\ ~(j.kind = "xiangshan" /\ s = "broken")
              => j.conduct = "right" /\ p = Len(Script(j))
           /\ j.conduct = "right" /\ j.matches /\ s = "ended" =>
                 Verdict(heard, c) \in {"OK", "PASS"}
<1>1. /\ j.conduct \in {"right", "wrong", "trap"} /\ j.entry \in {"kernel", "main"}
      /\ j.conduct = "wrong" => j.entry = "main"
    BY DEF Jobs
<1>2. ExitCodes(j) \subseteq {0, 1} /\ (SignalsGood(j) => ExitCodes(j) = {0})
      /\ (j.kind = "chipyard" /\ j.conduct = "wrong" => ExitCodes(j) = {1})
    BY <1>1 DEF ExitCodes, SignalsGood
<1>3. Verdict(heard, c) = "PASS" => "PASSED" \in heard \/ "HIT GOOD TRAP" \in heard
    BY DEF Verdict, StatusFromLog
<1>4. Verdict(heard, c) = "OK" =>
         /\ c = 0 \/ "$finish" \in heard
         /\ "FAILED" \in heard => "PASSED" \in heard \/ "HIT GOOD TRAP" \in heard
         /\ j.kind = "chipyard" => c = 0
    BY DEF Verdict, StatusFromLog
<1>5. ASSUME Verdict(heard, c) \in {"OK", "PASS"}, ~Unheard(now),
             ~(j.kind = "xiangshan" /\ s = "broken")
      PROVE  j.conduct = "right" /\ p = Len(Script(j))
  <2>1. CASE "PASSED" \in heard \/ "HIT GOOD TRAP" \in heard
    BY <2>1 DEF Tell
  <2>2. CASE ~("PASSED" \in heard \/ "HIT GOOD TRAP" \in heard)
    <3>1. Verdict(heard, c) = "OK"
      BY <1>3, <1>5, <2>2
    <3>2. s = "ended"
      <4>1. CASE c = 0
        BY <1>5, <4>1
      <4>2. CASE "$finish" \in heard
        BY <4>2 DEF Tell
      <4>3. QED
        BY <1>4, <3>1, <4>1, <4>2
    <3>3. p = Len(Script(j)) /\ j.conduct # "trap" /\ c \in ExitCodes(j)
      BY <3>2 DEF Reach
    <3>4. j.conduct # "wrong"
      <4>1. CASE j.kind = "chipyard"
        <5>1. c = 0
          BY <1>4, <3>1, <4>1
        <5>2. j.conduct = "wrong" => c = 1
          BY <1>2, <3>3, <4>1
        <5>3. QED
          BY <5>1, <5>2
      <4>2. CASE j.kind # "chipyard"
        <5>1. "FAILED" \notin heard
          BY <1>4, <2>2, <3>1
        <5>2. ~(j.kind = "t1" /\ j.traced /\ j.console = "stdout")
          BY <1>5 DEF Unheard
        <5>3. Tell(j, heard, p, s)
          OBVIOUS
        <5>4. QED
          BY <3>3, <4>2, <5>1, <5>2, <5>3 DEF Tell
      <4>3. QED
        BY <4>1, <4>2
    <3>5. QED
      BY <1>1, <3>3, <3>4
  <2>3. QED
    BY <2>1, <2>2
<1>6. ASSUME j.conduct = "right", j.matches, s = "ended"
      PROVE  Verdict(heard, c) \in {"OK", "PASS"}
  <2>1. c = 0
    BY <1>1, <1>2, <1>6 DEF SignalsGood
  <2>2. "FAILED" \notin heard /\ "Assertion failed" \notin heard
    BY <1>6 DEF Tell
  <2>3. StatusFromLog(heard, c) \in {"OK", "PASS"}
    BY <2>1, <2>2 DEF StatusFromLog
  <2>4. QED
    BY <2>3 DEF Verdict
<1>7. QED
    BY <1>5, <1>6

LEMMA KernelOwn ==
    ASSUME TypeOK, Loads, Writers, Words, Reads, host = "waiting", now \in 1..now,
           NEW heard, heard \subseteq Heard
    PROVE  /\ KernelCycles(heard) \subseteq Runs
           /\ Alone(now) /\ ~Unopened(now) /\ KernelCycles(heard) # {} =>
                 KernelCycles(heard) = {now} /\ program[now] >= 2
<1>1. now \in Runs /\ program[now] \in Nat
    BY NowRuns DEF TypeOK
<1>2. CASE job[now].kind = "chipyard"
  <2> DEFINE reads == { k \in DOMAIN out : out[k][2] = "mcycle" }
             before == { k \in reads : \E l \in reads : k < l }
             lasts == { m \in reads : \A l \in before : l <= m }
  <2>1. KernelCycles(heard) = IF before = {} THEN {} ELSE { out[k][1] : k \in lasts }
    BY <1>2 DEF KernelCycles, LastTwo
  <2>2. \A k \in DOMAIN out : out[k][1] \in Runs /\ k \in Nat
    <3>1. /\ \A k \in 1..Len(out) : out[k] \in Runs \X Said
          /\ DOMAIN out = 1..Len(out) /\ Len(out) \in Nat
      BY ElementOfSeq, LenProperties DEF TypeOK
    <3>2. QED
      BY <3>1
  <2>3. KernelCycles(heard) \subseteq Runs
    BY <2>1, <2>2
  <2>4. ASSUME Alone(now), KernelCycles(heard) # {}
        PROVE  KernelCycles(heard) = {now} /\ program[now] >= 2
    <3>1. before # {} /\ KernelCycles(heard) = { out[k][1] : k \in lasts }
      BY <2>1, <2>4
    <3>2. \A k \in lasts : out[k][1] = now
      BY <1>2, <2>4 DEF Writers
    <3>3. lasts # {}
      BY <2>1, <2>4
    <3>4. KernelCycles(heard) = {now}
      BY <3>1, <3>2, <3>3
    <3>5. PICK k \in reads, l \in reads : k < l
      BY <3>1
    <3>6. k # l
      BY <2>2, <3>5
    <3>7. program[now] >= 2
      BY <1>2, <2>4, <3>5, <3>6 DEF Reads
    <3>8. QED
      BY <3>4, <3>7
  <2>5. QED
    BY <2>3, <2>4
<1>3. CASE job[now].kind = "t1"
  <2>1. KernelCycles(heard) = { m \in Runs : m = events /\ program[m] >= 2 }
    BY <1>3 DEF KernelCycles
  <2>2. ASSUME ~Unopened(now), KernelCycles(heard) # {}
        PROVE  KernelCycles(heard) = {now} /\ program[now] >= 2
    <3>1. events \in Runs /\ KernelCycles(heard) = {events} /\ program[events] >= 2
      BY <2>1, <2>2
    <3>2. LeftBy(events, "t1")
      <4>1. events # 0
        BY <3>1 DEF Runs
      <4>2. QED
        BY <4>1 DEF Loads
    <3>3. events = now
      <4>1. SUFFICES ASSUME events # now PROVE FALSE
        OBVIOUS
      <4>2. events \in 1..(now - 1) /\ driver = "run-sim"
        BY <3>2, <4>1, NowRuns DEF LeftBy, TypeOK
      <4>3. Preceded(now)
        BY <1>3, <3>2, <4>2 DEF Preceded, LeftBy
      <4>4. program[now] # 0
        BY <1>3, <2>2, <4>3 DEF Unopened
      <4>5. QED
        BY <1>3, <4>1, <4>4 DEF Loads
    <3>4. QED
      BY <3>1, <3>3
  <2>3. QED
    BY <2>1, <2>2
<1>4. CASE job[now].kind = "vicuna"
    BY <1>4 DEF KernelCycles
<1>5. CASE job[now].kind \notin {"chipyard", "t1", "vicuna"}
  <2>1. KernelCycles(heard) = IF "cycles" \in heard THEN {now} ELSE {}
    BY <1>5 DEF KernelCycles
  <2>2. Alone(now) /\ "cycles" \in heard => program[now] >= 3
    BY DEF Words, Tell
  <2>3. QED
    BY <1>1, <2>1, <2>2
<1>6. QED
    BY <1>2, <1>3, <1>4, <1>5

LEMMA Reporting ==
    ASSUME IInv, host = "waiting", host' = "idle",
           NEW r \in [status : Statuses, code : Nat, kernel : SUBSET Runs],
           report' = [report EXCEPT ![now] = r],
           UNCHANGED << driver, now, job, image, program, out, vmem, events >>,
           \/ simulator' = simulator
           \/ simulator' = [simulator EXCEPT ![now] = "killed"],
           expired' = expired \/ expired' = expired \cup {now},
           simulator'[now] = "on" => Piped(now) /\ now \in expired',
           Alone(now) =>
              /\ /\ r.status \in {"OK", "PASS"} /\ ~Unheard(now)
                 /\ ~(Simulated(now).kind = "xiangshan" /\ simulator'[now] = "broken")
                 => /\ Simulated(now).conduct = "right"
                    /\ program[now] = Len(Script(Simulated(now)))
              /\ /\ Simulated(now).conduct = "right" /\ Simulated(now).matches
                 /\ simulator'[now] = "ended" /\ now \notin expired'
                 => r.status \in {"OK", "PASS"}
              /\ ~Unopened(now) /\ r.kernel # {} => r.kernel = {now} /\ program[now] >= 2
    PROVE  IInv'
<1>1. /\ now \in Runs /\ now \in 1..now /\ now \in Nat /\ ~(now > now)
      /\ \A m \in 1..now : m \in Runs
      /\ \A m \in 1..now : \A k \in 1..(m - 1) : k \in Runs /\ k # now
    BY NowRuns DEF IInv, Control
<1>2. /\ simulator' \in [Runs -> States]
      /\ \A m \in Runs : m # now => simulator'[m] = simulator[m]
      /\ simulator[now] # "off" /\ simulator'[now] # "off"
  <2>1. simulator \in [Runs -> States] /\ simulator[now] \in {"on", "ended", "broken"}
    BY DEF IInv, TypeOK, Control
  <2>2. CASE simulator' = simulator
    BY <2>1, <2>2
  <2>3. CASE simulator' = [simulator EXCEPT ![now] = "killed"]
    BY <1>1, <2>1, <2>3 DEF States
  <2>4. QED
    BY <2>2, <2>3
<1>3. /\ report' \in [Runs -> [status : Statuses, code : Nat, kernel : SUBSET Runs]]
      /\ report'[now] = r /\ \A m \in Runs : m # now => report'[m] = report[m]
    BY <1>1 DEF IInv, TypeOK
<1>4. /\ expired' \subseteq Runs /\ expired \subseteq expired'
      /\ \A m \in Runs : m # now => (m \in expired' <=> m \in expired)
    BY <1>1 DEF IInv, TypeOK
<1>5. TypeOK'
    BY <1>2, <1>3, <1>4 DEF IInv, TypeOK
<1>6. Control'
  <2>1. \A m \in Runs : m > now => Fresh(m)'
    BY <1>1, <1>2, <1>3, <1>4 DEF IInv, Control, Fresh
  <2>2. \A m \in 1..now : simulator'[m] = "on" /\ m # now =>
            Piped(m) /\ m \in expired' /\ driver = "run-sim"
    BY <1>1, <1>2, <1>4 DEF IInv, Control
  <2>3. \A m \in 1..now : simulator'[m] = "on" => Piped(m)' /\ m \in expired'
    BY <2>2 DEF Piped
  <2>4. QED
    BY <1>1, <2>1, <2>2, <2>3 DEF IInv, Control, Simulated
<1>7. \A m \in 1..now : (Alone(m)' <=> Alone(m)) /\ (Preceded(m)' <=> Preceded(m))
    BY <1>1, <1>2, <1>4, AloneStays
<1>8. Writers'
  <2>1. \A m \in 1..now : simulator[m] # "off" => simulator'[m] # "off"
    BY <1>1, <1>2
  <2>2. QED
    BY <2>1 DEF IInv, Writers, Piped
<1>9. Words' /\ Reads' /\ Exits'
    BY DEF Words, Reads, Exits
<1>10. Kept'
  <2>1. ASSUME NEW m \in 1..now, m # now PROVE VerdictOf(m)' /\ MeasureOf(m)'
    <3>1. simulator'[m] = simulator[m] /\ report'[m] = report[m]
      BY <1>1, <1>2, <1>3, <2>1
    <3>2. QED
      BY <1>4, <1>7, <3>1, KeptStays DEF IInv
  <2>2. ASSUME NEW n, n = now PROVE VerdictOf(n)' /\ MeasureOf(n)'
    <3>1. /\ Good(n)' <=> r.status \in {"OK", "PASS"}
          /\ Unheard(n)' <=> Unheard(now)
          /\ Unopened(n)' <=> Unopened(now)
          /\ Limited(n)' <=> job[now].kind = "xiangshan" /\ simulator'[now] = "broken"
      BY <1>1, <1>3, <1>7, <2>2 DEF Good, Unheard, Unopened, Limited
    <3>2. Alone(n)' <=> Alone(now)
      BY <1>1, <1>7, <2>2
    <3>3. Simulated(now).kind = job[now].kind /\ Judged(now) = Simulated(now)
      BY <1>1, SimulatedIs DEF IInv
    <3>4. Judged(n)' = Simulated(now)
      <4>1. Simulated(now)' = Simulated(now)
        BY DEF Simulated
      <4>2. QED
        BY <1>1, <1>7, <2>2, <3>3, <4>1 DEF Judged
    <3>5. VerdictOf(n)'
      <4>1. VerdictOf(n)' <=>
              (Reported(n)' /\ Alone(n)' =>
                /\ Good(n)' /\ ~Unheard(n)' /\ ~Limited(n)' =>
                      Judged(n)'.conduct = "right" /\ program'[n] = Len(Script(Judged(n)'))
                /\ /\ simulator'[n] = "ended" /\ n \notin expired'
                   /\ Judged(n)'.conduct = "right" /\ Judged(n)'.matches
                   => Good(n)')
        BY DEF VerdictOf, Script, Timed, Console, Outcome
      <4>2. QED
        BY <2>2, <3>1, <3>2, <3>3, <3>4, <4>1
    <3>6. MeasureOf(n)'
      BY <1>3, <2>2, <3>1, <3>2 DEF MeasureOf
    <3>7. QED
      BY <3>5, <3>6
  <2>3. ASSUME NEW m \in 1..now' PROVE VerdictOf(m)' /\ MeasureOf(m)'
    BY <2>1, <2>2
  <2>4. QED
    BY <2>3, KeptMeansNext
<1>11. Loads'
  <2>1. \A m \in 1..now : simulator[m] # "off" => simulator'[m] # "off"
    BY <1>1, <1>2
  <2>2. /\ LeftBy(vmem, "vicuna") => LeftBy(vmem, "vicuna")'
        /\ LeftBy(events, "t1") => LeftBy(events, "t1")'
    BY <2>1 DEF LeftBy
  <2>3. QED
    BY <1>7, <2>2 DEF IInv, Loads
<1>12. QED
    BY <1>5, <1>6, <1>8, <1>9, <1>10, <1>11 DEF IInv

LEMMA StepReturns == IInv /\ Returns => IInv'
<1> SUFFICES ASSUME IInv, Returns PROVE IInv'
    OBVIOUS
<1> DEFINE r == [status |-> Verdict(Heard, code), code |-> code, kernel |-> KernelCycles(Heard)]
<1>1. /\ host = "waiting" /\ host' = "idle" /\ simulator[now] \in {"ended", "broken"}
      /\ report' = [report EXCEPT ![now] = r]
      /\ UNCHANGED << driver, now, job, image, program, simulator, out, vmem, events, expired >>
    BY DEF Returns, Conclude, Heard
<1> DEFINE j == Simulated(now)
<1>2. /\ now \in 1..now /\ j \in Jobs /\ j.kind = job[now].kind
      /\ j.kind = "t1" => j = job[now]
    BY <1>1, NowRuns, SimulatedIs DEF IInv, Control
<1>3. /\ simulator[now] = "ended" =>
            j.conduct # "trap" /\ program[now] = Reach(j) /\ code \in ExitCodes(j)
      /\ simulator[now] = "broken" => code \in BrokenCodes(job[now])
    BY <1>1 DEF IInv, Exits
<1>4. code \in Nat /\ (simulator[now] = "broken" /\ j.kind # "xiangshan" => code = 1)
    BY <1>1, <1>2, <1>3 DEF ExitCodes, BrokenCodes
<1>5. /\ KernelCycles(Heard) \subseteq Runs
      /\ Alone(now) /\ ~Unopened(now) /\ KernelCycles(Heard) # {} =>
            KernelCycles(Heard) = {now} /\ program[now] >= 2
    BY <1>1, <1>2, KernelOwn DEF IInv
<1>6. r \in [status : Statuses, code : Nat, kernel : SUBSET Runs]
    BY <1>4, <1>5, VerdictStatus
<1>7. ASSUME Alone(now)
      PROVE  /\ /\ Verdict(Heard, code) \in {"OK", "PASS"} /\ ~Unheard(now)
                /\ ~(j.kind = "xiangshan" /\ simulator[now] = "broken")
                => j.conduct = "right" /\ program[now] = Len(Script(j))
             /\ j.conduct = "right" /\ j.matches /\ simulator[now] = "ended" =>
                   Verdict(Heard, code) \in {"OK", "PASS"}
  <2>1. Tell(j, Heard, program[now], simulator[now])
    BY <1>1, <1>7 DEF IInv, Words
  <2> HIDE DEF j
  <2>2. QED
    BY <1>1, <1>2, <1>3, <1>4, <2>1, JudgedRight
<1>8. r.status = Verdict(Heard, code) /\ r.kernel = KernelCycles(Heard)
    OBVIOUS
<1> HIDE DEF r
<1>9. QED
    BY <1>1, <1>5, <1>6, <1>7, <1>8, Reporting

LEMMA StepTimesOut == IInv /\ TimesOut => IInv'
<1> SUFFICES ASSUME IInv, TimesOut PROVE IInv'
    OBVIOUS
<1>1. /\ host = "waiting" /\ host' = "idle" /\ simulator[now] = "on"
      /\ expired' = expired \cup {now}
      /\ simulator' = IF Piped(now) THEN simulator ELSE [simulator EXCEPT ![now] = "killed"]
      /\ UNCHANGED << driver, now, job, image, program, out, vmem, events >>
    BY DEF TimesOut, Simulating, Conclude
<1>2. now \in 1..now /\ now \in Runs
    BY <1>1, NowRuns DEF IInv, Control
<1>3. simulator'[now] = "on" => Piped(now) /\ now \in expired'
  <2>1. ~Piped(now) => simulator'[now] = "killed"
    BY <1>1, <1>2 DEF IInv, TypeOK
  <2>2. QED
    BY <1>1, <2>1
<1>4. CASE caught # {}
  <2>1. report' = [report EXCEPT ![now] = Aborted]
    BY <1>4 DEF TimesOut
  <2>2. /\ Aborted \in [status : Statuses, code : Nat, kernel : SUBSET Runs]
        /\ Aborted.status \notin {"OK", "PASS"} /\ Aborted.kernel = {}
    BY DEF Aborted, Statuses
  <2>3. now \in expired'
    BY <1>1
  <2>4. QED
    BY <1>1, <1>3, <2>1, <2>2, <2>3, Reporting
<1>5. CASE caught = {}
  <2> DEFINE r == [status |-> Verdict(OutWords, 124), code |-> 124,
                   kernel |-> KernelCycles(OutWords)]
  <2>1. report' = [report EXCEPT ![now] = r]
    BY <1>5 DEF TimesOut, Conclude
  <2>2. /\ KernelCycles(OutWords) \subseteq Runs
        /\ Alone(now) /\ ~Unopened(now) /\ KernelCycles(OutWords) # {} =>
              KernelCycles(OutWords) = {now} /\ program[now] >= 2
    BY <1>1, <1>2, KernelOwn DEF IInv, Heard
  <2>3. r \in [status : Statuses, code : Nat, kernel : SUBSET Runs]
    BY <2>2, VerdictStatus
  <2>4. ASSUME Alone(now), Verdict(OutWords, 124) \in {"OK", "PASS"}
        PROVE  /\ Simulated(now).conduct = "right"
               /\ program[now] = Len(Script(Simulated(now)))
    <3>1. Tell(Simulated(now), Heard, program[now], "on")
      BY <1>1, <2>4 DEF IInv, Words
    <3>2. "$finish" \notin OutWords
      BY <3>1 DEF Tell, Heard
    <3>3. "PASSED" \in OutWords \/ "HIT GOOD TRAP" \in OutWords
      BY <2>4, <3>2, LateVerdict
    <3>4. QED
      BY <3>1, <3>3 DEF Tell, Heard
  <2>5. r.status = Verdict(OutWords, 124) /\ r.kernel = KernelCycles(OutWords)
    OBVIOUS
  <2>6. now \in expired'
    BY <1>1
  <2> HIDE DEF r
  <2>7. QED
    BY <1>1, <1>3, <2>1, <2>2, <2>3, <2>4, <2>5, <2>6, Reporting
<1>6. QED
    BY <1>4, <1>5

-----------------------------------------------------------------------------
(* The theorems.                                                             *)

LEMMA InitInv == Init => IInv
<1> SUFFICES ASSUME Init PROVE IInv
    OBVIOUS
<1>1. /\ now = 0 /\ job = << >> /\ host = "idle" /\ out = << >> /\ expired = {}
      /\ program = [n \in Runs |-> 0] /\ simulator = [n \in Runs |-> "off"]
      /\ image = [n \in Runs |-> n] /\ vmem = 0 /\ events = 0
      /\ report = [n \in Runs |-> Unreported]
      /\ driver \in {"emulate", "run-sim"}
    BY DEF Init
<1>2. \A n \in 1..0 : FALSE
    OBVIOUS
<1>3. TypeOK
  <2>1. Unreported \in [status : Statuses, code : Nat, kernel : SUBSET Runs]
    BY DEF Unreported, Statuses
  <2>2. << >> \in Seq(Runs \X Said) /\ << >> \in Seq(Jobs) /\ Len(job) = 0
    BY <1>1
  <2>3. now \in 0..MaxRuns
    BY <1>1, JobsAssumption
  <2>4. QED
    BY <1>1, <2>1, <2>2, <2>3 DEF TypeOK, States
<1>4. Control
    BY <1>1, <1>2 DEF Control, Fresh
<1>5. Loads /\ Writers /\ Words /\ Reads /\ Exits
    BY <1>1, <1>2 DEF Loads, Writers, Words, Reads, Exits
<1>6. Kept
    BY <1>1, <1>2 DEF Kept, VerdictTrue, MeasuredByItself
<1>7. QED
    BY <1>3, <1>4, <1>5, <1>6 DEF IInv

LEMMA NextInv == IInv /\ [Next]_vars => IInv'
<1> SUFFICES ASSUME IInv, [Next]_vars PROVE IInv'
    OBVIOUS
<1>1. CASE UNCHANGED vars
  <2>1. UNCHANGED << driver, now, job, host, image, program, simulator, caught, log, out,
                     vmem, events, code, expired, report >>
    BY <1>1 DEF vars
  <2>2. TypeOK' /\ Control' /\ Writers'
    <3>1. TypeOK'
      BY <2>1 DEF IInv, TypeOK
    <3>2. Control'
      <4>1. \A n : Fresh(n)' <=> Fresh(n)
        BY <2>1 DEF Fresh
      <4>2. \A n : Reach(Simulated(n))' = Reach(Simulated(n))
        BY <2>1 DEF Simulated
      <4>3. \A n : Piped(n)' <=> Piped(n)
        BY <2>1 DEF Piped
      <4>4. Control
        BY DEF IInv
      <4>5. QED
        BY <2>1, <4>1, <4>2, <4>3, <4>4 DEF Control
    <3>3. Writers'
      BY <2>1 DEF IInv, Writers, Piped, Alone
    <3>4. QED
      BY <3>1, <3>2, <3>3
  <2>3. /\ Heard' = Heard
        /\ \A n : (Alone(n)' <=> Alone(n)) /\ (Preceded(n)' <=> Preceded(n))
        /\ \A n : Simulated(n)' = Simulated(n)
    BY <2>1 DEF Heard, Captured, OutWords, Piped, Alone, Preceded, Simulated
  <2>4. Words' /\ Loads'
    BY <2>1, <2>3 DEF IInv, Words, Loads, LeftBy
  <2>5. Reads' /\ Exits'
    BY <2>1, <2>3 DEF IInv, Reads, Exits
  <2>6. Kept'
    BY <2>1, <2>3 DEF IInv, Kept, VerdictTrue, MeasuredByItself, Reported, Good, Unheard,
                      Limited, Unopened, Judged
  <2>7. QED
    BY <2>2, <2>4, <2>5, <2>6 DEF IInv
<1>2. ASSUME NEW j \in JobsRun, Begin(j) PROVE IInv'
    BY <1>2, StepBegin
<1>3. CASE BuildFails \/ Launch \/ Chatter \/ OpensEvents \/ Returns \/ TimesOut
    BY <1>3, StepBuildFails, StepLaunch, StepChatter, StepOpens, StepReturns, StepTimesOut
<1>4. ASSUME NEW n \in Runs, ProgramStep(n) \/ ProgramStops(n) \/ Breaks(n) PROVE IInv'
    BY <1>4, StepProgram, StepStops, StepBreaks
<1>5. QED
    BY <1>1, <1>2, <1>3, <1>4 DEF Next

\* The inductive invariant: types, who runs and writes, and what words mean.
THEOREM RunInvariant == Spec => []IInv
BY InitInv, NextInv, PTL DEF Spec

(* The program of a run reported good did what it should up to its end, and  *)
(* one that did and stopped its simulator in time is reported good, for any  *)
(* number of runs of any jobs, and any timeouts: the program the run built,  *)
(* unless it is Vicuna's and an earlier one was kept beside it.              *)
THEOREM VerdictsAreTrue == Spec => []VerdictTrue
<1>1. IInv => VerdictTrue
    BY DEF IInv, Kept
<1>2. QED
    BY <1>1, RunInvariant, PTL

(* The cycles reported for a kernel are of its own run, and of a timed part  *)
(* that was finished, with the exceptions the property names.                *)
THEOREM CyclesAreItsOwn == Spec => []MeasuredByItself
<1>1. IInv => MeasuredByItself
    BY DEF IInv, Kept
<1>2. QED
    BY <1>1, RunInvariant, PTL
=============================================================================
