---------------------------- MODULE BatchPromise ----------------------------
(***************************************************************************)
(* What a batch driver promises its user, without pools, databases or      *)
(* processes: a set of wanted jobs, one verdict per job that never changes *)
(* once it is recorded, and a report that is published only when every     *)
(* wanted job has a verdict and whose status tells whether all are good.   *)
(* A batch may be abandoned at any time; then it publishes nothing.        *)
(***************************************************************************)
CONSTANTS Jobs, Verdicts, Good, Unknown

VARIABLES wanted,   \* jobs the batch has taken on
          verdict,  \* what is recorded of each job
          status,   \* "open", or how the batch ended
          report    \* the published verdicts, a set of <<job, verdict>>

vars == <<wanted, verdict, status, report>>

TypeOK == /\ wanted \subseteq Jobs
          /\ verdict \in [Jobs -> Verdicts \cup {Unknown}]
          /\ status \in {"open", "clean", "dirty", "abandoned"}
          /\ report \subseteq Jobs \X Verdicts

Init == /\ wanted = {}
        /\ verdict = [j \in Jobs |-> Unknown]
        /\ status = "open"
        /\ report = {}

\* Jobs are taken on before any of them has a verdict.
Want == /\ status = "open"
        /\ \A j \in Jobs : verdict[j] = Unknown
        /\ \E S \in SUBSET Jobs : wanted' = wanted \cup S
        /\ UNCHANGED <<verdict, status, report>>

Record(j) == /\ status = "open"
             /\ j \in wanted
             /\ verdict[j] = Unknown
             /\ \E v \in Verdicts : verdict' = [verdict EXCEPT ![j] = v]
             /\ UNCHANGED <<wanted, status, report>>

Publish == /\ status = "open"
           /\ \A j \in wanted : verdict[j] # Unknown
           /\ report' = {<<j, verdict[j]>> : j \in wanted}
           /\ status' = IF \A j \in wanted : verdict[j] = Good THEN "clean" ELSE "dirty"
           /\ UNCHANGED <<wanted, verdict>>

Abandon == /\ status = "open"
           /\ status' = "abandoned"
           /\ UNCHANGED <<wanted, verdict, report>>

Next == Want \/ (\E j \in Jobs : Record(j)) \/ Publish \/ Abandon

Spec == Init /\ [][Next]_vars
=============================================================================
