--------------------------- MODULE DiversityProofs ---------------------------
(***************************************************************************)
(* The safety properties of DiversityPipeline hold for any number of       *)
(* functions, sources and permits.  The inductive invariant is the         *)
(* conjunction IInv: types and permits need each other (a permit given     *)
(* back must be one that was taken), the modules are a matter of locks and *)
(* cache, the published results one of outcomes.                           *)
(***************************************************************************)
EXTENDS DiversityPipeline, FiniteSetTheorems, TLAPS

IInv == TypeOK /\ PermitsBalanced /\ ModuleInv /\ OutcomeInv /\ ShownIsFinished

\* The steps that end a coroutine.
Ends(f) == CompileFails(f) \/ ToolFails(f) \/ Explain(f)

LEMMA HoldersFinite == IsFiniteSet(Holders) /\ Cardinality(Holders) \in Nat
<1>1. IsFiniteSet(Holders)
    BY DiversityAssumption, FS_Subset DEF Holders
<1>2. QED
    BY <1>1, FS_CardinalityType

\* A coroutine enters the semaphore's block, leaves it, or the holders stay.
LEMMA HoldersStep ==
    ASSUME IInv, [Next]_vars
    PROVE  \/ Holders' = Holders /\ sem' = sem
           \/ \E f \in Funcs : f \notin Holders /\ Holders' = Holders \cup {f} /\ sem' = sem - 1 /\ sem > 0
           \/ \E f \in Funcs : f \in Holders /\ Holders' = Holders \ {f} /\ sem' = sem + 1
           \/ Holders' = {} /\ sem' = Parallelism
<1> USE DEF IInv, TypeOK, Holders, Inside
<1>1. ASSUME NEW f \in Funcs, Acquire(f)
      PROVE  f \notin Holders /\ Holders' = Holders \cup {f} /\ sem' = sem - 1 /\ sem > 0
    BY <1>1 DEF Acquire
<1>2. ASSUME NEW f \in Funcs, LockSource(f) \/ CompileOK(f) \/ Extract(f) \/ Lower(f)
      PROVE  Holders' = Holders /\ sem' = sem
    BY <1>2 DEF LockSource, CompileOK, Extract, Lower
<1>3. ASSUME NEW f \in Funcs, Ends(f)
      PROVE  f \in Holders /\ Holders' = Holders \ {f} /\ sem' = sem + 1
    BY <1>3 DEF Ends, CompileFails, ToolFails, Explain, Conclude
<1>4. CASE NewSession
    BY <1>4 DEF NewSession
<1>5. CASE Driver \/ Kill \/ Terminated \/ UNCHANGED vars
    BY <1>5 DEF Driver, ShowCached, StartRun, Gather, GatherRaises, SaveOpen, SaveClose, SaveFails,
                Kill, Terminated, vars, runVars
<1>6. QED
    BY <1>1, <1>2, <1>3, <1>4, <1>5 DEF Next, RunOne, Ends

\* Permits taken and permits left always add up, and none is given back twice.
LEMMA PermitsStep ==
    ASSUME IInv, [Next]_vars
    PROVE  PermitsBalanced' /\ sem' \in 0..Parallelism
<1> DEFINE n == Cardinality(Holders)
<1>1. sem \in 0..Parallelism /\ sem + n = Parallelism /\ n \in Nat /\ Parallelism \in Nat
    BY HoldersFinite, DiversityAssumption DEF IInv, TypeOK, PermitsBalanced
<1>2. CASE Holders' = Holders /\ sem' = sem
    BY <1>1, <1>2 DEF PermitsBalanced
<1>3. ASSUME NEW f \in Funcs, f \notin Holders, Holders' = Holders \cup {f}, sem' = sem - 1, sem > 0
      PROVE  PermitsBalanced' /\ sem' \in 0..Parallelism
  <2>1. Cardinality(Holders)' = n + 1
    BY <1>3, HoldersFinite, FS_AddElement
  <2>2. QED
    BY <1>1, <1>3, <2>1 DEF PermitsBalanced
<1>4. ASSUME NEW f \in Funcs, f \in Holders, Holders' = Holders \ {f}, sem' = sem + 1
      PROVE  PermitsBalanced' /\ sem' \in 0..Parallelism
  <2>1. Cardinality(Holders)' = n - 1
    BY <1>4, HoldersFinite, FS_RemoveElement
  <2>2. n # 0
    BY <1>4, HoldersFinite, FS_EmptySet
  <2>3. QED
    BY <1>1, <1>4, <2>1, <2>2 DEF PermitsBalanced
<1>5. CASE Holders' = {} /\ sem' = Parallelism
    BY <1>1, <1>5, FS_EmptySet DEF PermitsBalanced
<1>6. QED
    BY <1>2, <1>3, <1>4, <1>5, HoldersStep

\* A run that returns has a result for every function.
LEMMA OutcomesComplete ==
    ASSUME TypeOK, OutcomeInv, \A f \in Funcs : pc[f] = "done"
    PROVE  outcome \in Results
BY DEF TypeOK, OutcomeInv, Results

LEMMA TypeStep ==
    ASSUME IInv, [Next]_vars
    PROVE  TypeOK'
<1> USE DEF IInv, TypeOK, Inside, Ended
<1>1. sem' \in 0..Parallelism
    BY PermitsStep
<1>2. ASSUME NEW f \in Funcs, Acquire(f) \/ LockSource(f) \/ CompileOK(f) \/ Extract(f) \/ Lower(f)
      PROVE  TypeOK'
    BY <1>1, <1>2, DiversityAssumption DEF Acquire, LockSource, CompileOK, Extract, Lower
<1>3. ASSUME NEW f \in Funcs, Ends(f)
      PROVE  TypeOK'
    BY <1>1, <1>3, DiversityAssumption DEF Ends, CompileFails, ToolFails, Explain, Conclude
<1>4. CASE NewSession
    BY <1>1, <1>4, DiversityAssumption DEF NewSession, NoResults
<1>5. CASE Gather
    BY <1>1, <1>5, OutcomesComplete DEF Gather
<1>6. CASE SaveClose
  <2>1. outcome \in Results
    BY <1>6 DEF SaveClose, OutcomeInv
  <2>2. json_cache' \in JsonFile /\ shown' \in Results
    BY <1>6, <2>1 DEF SaveClose, JsonFile
  <2>3. QED
    BY <1>1, <1>6, <2>2 DEF SaveClose, runVars
<1>7. CASE ShowCached
  <2>1. json_cache.results \in Results
    BY <1>7 DEF ShowCached, JsonFile
  <2>2. QED
    BY <1>1, <1>7, <2>1 DEF ShowCached, runVars
<1>8. CASE SaveOpen
  <2>1. NoFile \in JsonFile
    BY DEF NoFile, JsonFile
  <2>2. QED
    BY <1>1, <1>8, <2>1 DEF SaveOpen, runVars
<1>9. CASE SaveFails
  <2>1. outcome \in Results
    BY <1>9 DEF SaveFails, OutcomeInv
  <2>2. QED
    BY <1>1, <1>9, <2>1 DEF SaveFails, runVars
<1>10. CASE StartRun \/ GatherRaises \/ Kill \/ Terminated \/ UNCHANGED vars
    BY <1>1, <1>10 DEF StartRun, GatherRaises, Kill, Terminated, vars, runVars
<1>11. QED
    BY <1>2, <1>3, <1>4, <1>5, <1>6, <1>7, <1>8, <1>9, <1>10 DEF Next, RunOne, Ends, Driver

\* Locks and cache tell who may touch a source's module.
LEMMA ModuleStep ==
    ASSUME IInv, [Next]_vars
    PROVE  ModuleInv'
<1> USE DiversityAssumption DEF IInv, TypeOK, ModuleInv, Alive, Inside, Ended
<1>1. ASSUME NEW f \in Funcs, Acquire(f)
      PROVE  ModuleInv'
    BY <1>1 DEF Acquire
<1>2. ASSUME NEW f \in Funcs, LockSource(f)
      PROVE  ModuleInv'
  <2>1. CASE SourceOf[f] \in ll_cache
    BY <1>2, <2>1 DEF LockSource
  <2>2. CASE SourceOf[f] \notin ll_cache
    BY <1>2, <2>2 DEF LockSource
  <2>3. QED
    BY <2>1, <2>2
<1>3. ASSUME NEW f \in Funcs, CompileOK(f)
      PROVE  ModuleInv'
    BY <1>3 DEF CompileOK
<1>4. ASSUME NEW f \in Funcs, CompileFails(f)
      PROVE  ModuleInv'
    BY <1>4 DEF CompileFails, Conclude
<1>5. ASSUME NEW f \in Funcs, Extract(f) \/ Lower(f)
      PROVE  ModuleInv'
    BY <1>5 DEF Extract, Lower
<1>6. ASSUME NEW f \in Funcs, ToolFails(f) \/ Explain(f)
      PROVE  ModuleInv'
    BY <1>6 DEF ToolFails, Explain, Conclude
<1>7. CASE NewSession
    BY <1>7 DEF NewSession
<1>8. CASE Gather \/ GatherRaises
    BY <1>8 DEF Gather, GatherRaises
<1>9. CASE ShowCached \/ StartRun \/ SaveOpen \/ SaveClose \/ SaveFails
    BY <1>9 DEF ShowCached, StartRun, SaveOpen, SaveClose, SaveFails, runVars
<1>10. CASE Kill \/ Terminated \/ UNCHANGED vars
    BY <1>10 DEF Kill, Terminated, vars, runVars
<1>11. QED
    BY <1>1, <1>2, <1>3, <1>4, <1>5, <1>6, <1>7, <1>8, <1>9, <1>10 DEF Next, RunOne, Driver

\* A module that is whole stays as it is while the run lasts.
LEMMA ModulesStep ==
    ASSUME IInv, [Next]_vars
    PROVE  KeepsModules
<1> USE DiversityAssumption DEF IInv, TypeOK, ModuleInv, KeepsModules, Alive, Inside, Ended
<1>1. ASSUME NEW f \in Funcs, Acquire(f) \/ Extract(f) \/ Lower(f) \/ ToolFails(f) \/ Explain(f)
      PROVE  KeepsModules
    BY <1>1 DEF Acquire, Extract, Lower, ToolFails, Explain
<1>2. ASSUME NEW f \in Funcs, LockSource(f)
      PROVE  KeepsModules
    BY <1>2 DEF LockSource
<1>3. ASSUME NEW f \in Funcs, CompileOK(f)
      PROVE  KeepsModules
    BY <1>3 DEF CompileOK
<1>4. ASSUME NEW f \in Funcs, CompileFails(f)
      PROVE  KeepsModules
    BY <1>4 DEF CompileFails
<1>5. CASE Driver
    BY <1>5 DEF Driver, ShowCached, StartRun, Gather, GatherRaises, SaveOpen, SaveClose, SaveFails
<1>6. CASE Kill \/ NewSession \/ Terminated \/ UNCHANGED vars
    BY <1>6 DEF Kill, NewSession, Terminated, vars, runVars
<1>7. QED
    BY <1>1, <1>2, <1>3, <1>4, <1>5, <1>6 DEF Next, RunOne

\* Outcomes are final, and only those of a run that returned are published.
LEMMA OutcomeStep ==
    ASSUME IInv, [Next]_vars
    PROVE  OutcomeInv' /\ ShownIsFinished'
<1> USE DEF IInv, TypeOK, OutcomeInv, ShownIsFinished, Alive, Inside, Ended
<1>1. ASSUME NEW f \in Funcs, Acquire(f) \/ LockSource(f) \/ CompileOK(f) \/ Extract(f) \/ Lower(f)
      PROVE  OutcomeInv' /\ ShownIsFinished'
    BY <1>1 DEF Acquire, LockSource, CompileOK, Extract, Lower
<1>2. ASSUME NEW f \in Funcs, Ends(f)
      PROVE  OutcomeInv' /\ ShownIsFinished'
    BY <1>2 DEF Ends, CompileFails, ToolFails, Explain, Conclude
<1>3. CASE NewSession
    BY <1>3 DEF NewSession, NoResults
<1>4. CASE Gather
    BY <1>4 DEF Gather
<1>5. CASE SaveOpen \/ SaveClose \/ SaveFails
    BY <1>5 DEF SaveOpen, SaveClose, SaveFails, NoFile, runVars
<1>6. CASE ShowCached
    BY <1>6 DEF ShowCached, runVars
<1>7. CASE StartRun \/ GatherRaises \/ Kill \/ Terminated \/ UNCHANGED vars
    BY <1>7 DEF StartRun, GatherRaises, Kill, Terminated, vars, runVars
<1>8. QED
    BY <1>1, <1>2, <1>3, <1>4, <1>5, <1>6, <1>7 DEF Next, RunOne, Ends, Driver

LEMMA InitHolds == Init => IInv
<1> SUFFICES ASSUME Init PROVE IInv
    OBVIOUS
<1> USE DiversityAssumption DEF Init
<1>1. NoFile \in JsonFile /\ NoResults \in [Funcs -> {"none", "ok", "error"}]
    BY DEF NoFile, JsonFile, NoResults
<1>2. TypeOK
    BY <1>1 DEF TypeOK, Ended, Inside
<1>3. Holders = {}
    BY DEF Holders, Inside
<1>4. PermitsBalanced
    BY <1>3, FS_EmptySet DEF PermitsBalanced
<1>5. ModuleInv
    BY DEF ModuleInv, Alive
<1>6. OutcomeInv /\ ShownIsFinished
    BY DEF OutcomeInv, ShownIsFinished, NoFile, NoResults
<1>7. QED
    BY <1>2, <1>4, <1>5, <1>6 DEF IInv

\* The inductive invariant holds in every reachable state.
THEOREM InvariantCorrect == Spec => []IInv
<1>1. IInv /\ [Next]_vars => IInv'
    BY TypeStep, PermitsStep, ModuleStep, OutcomeStep DEF IInv
<1>2. QED
    BY InitHolds, <1>1, PTL DEF Spec

\* Type correctness; in particular the semaphore never exceeds --jobs.
THEOREM TypeCorrect == Spec => []TypeOK
<1>1. IInv => TypeOK
    BY DEF IInv
<1>2. QED
    BY InvariantCorrect, <1>1, PTL

\* async with self.sem: permits taken and left add up on every path of run_one.
THEOREM PermitsBalancedCorrect == Spec => []PermitsBalanced
<1>1. IInv => PermitsBalanced
    BY DEF IInv
<1>2. QED
    BY InvariantCorrect, <1>1, PTL

\* _get_full_ll: whoever extracts from full.ll reads a finished module.
THEOREM WholeModuleReadCorrect == Spec => []WholeModuleRead
<1>1. IInv => WholeModuleRead
    BY DiversityAssumption DEF IInv, ModuleInv, WholeModuleRead, Alive
<1>2. QED
    BY InvariantCorrect, <1>1, PTL

\* _get_full_ll: a source that has been compiled is not compiled again.
THEOREM CompiledOnceCorrect == Spec => CompiledOnce
<1>1. IInv /\ [Next]_vars => [KeepsModules]_vars
    BY ModulesStep
<1>2. QED
    BY InvariantCorrect, <1>1, PTL DEF Spec, CompiledOnce

\* load_cache and save_cache: only results of a finished run are presented.
THEOREM ShownIsFinishedCorrect == Spec => []ShownIsFinished
<1>1. IInv => ShownIsFinished
    BY DEF IInv
<1>2. QED
    BY InvariantCorrect, <1>1, PTL
=============================================================================
