--------------------------- MODULE TaskDagProofs ---------------------------
(***************************************************************************)
(* Proofs about TaskDag for every number of tasks, every plan, every bound *)
(* on concurrency, retries, runs and failing writes.                       *)
(***************************************************************************)
EXTENDS TaskDag, OrderLemmas

----------------------------------------------------------------------------
(* Facts about batches.                                                    *)

\* Every set of tasks the run keeps is finite.
LEMMA TaskSetsFinite ==
  ASSUME NEW S \in SUBSET Task
  PROVE  IsFiniteSet(S) /\ Cardinality(S) \in Nat
  BY TaskAssumption, SegmentSetsFinite DEF Task

\* slice(0, n) takes at most n: a batch never exceeds the concurrency bound.
LEMMA BatchBound ==
  ASSUME running \subseteq Task
  PROVE  Cardinality(Batch) <= MaxConcurrency
  <1> DEFINE Before(t) == {u \in Ready : u < t}
  <1>1. Batch \subseteq Task /\ \A t : Before(t) \subseteq Task
    BY DEF Batch, Ready
  <1>2. Cardinality(running) \in Nat /\ MaxConcurrency \in Nat
    BY TaskSetsFinite, DagAssumption
  <1>3. CASE Batch = {}
    BY <1>2, <1>3, FS_EmptySet
  <1>4. CASE Batch # {}
    <2> DEFINE r == [t \in Task |-> N - t]
    <2>1. \A s \in Batch : r[s] \in Nat
      BY <1>1, TaskAssumption DEF Task
    <2>2. PICK m \in Batch : \A u \in Batch : r[m] <= r[u]
      BY <1>4, <2>1, LeastRank
    <2>3. \A u \in Batch : u <= m
      <3>1. TAKE u \in Batch
      <3>2. r[m] = N - m /\ r[u] = N - u /\ r[m] <= r[u]
        BY <1>1, <2>2
      <3>3. m \in Int /\ u \in Int /\ N \in Int
        BY <1>1, TaskAssumption DEF Task
      <3>4. QED
        BY <3>2, <3>3
    <2>4. Batch \ {m} \subseteq Before(m)
      <3>1. SUFFICES ASSUME NEW u \in Batch, u # m PROVE u \in Before(m)
        OBVIOUS
      <3>2. u \in Ready
        BY DEF Batch
      <3>3. u \in Int /\ m \in Int /\ u <= m
        BY <1>1, <2>3, TaskAssumption DEF Task
      <3>4. QED
        BY <3>1, <3>2, <3>3
    <2>5. Cardinality(Before(m)) < MaxConcurrency - Cardinality(running)
      BY DEF Batch
    <2>6. Cardinality(Batch \ {m}) <= Cardinality(Before(m))
      BY <1>1, <2>4, TaskSetsFinite, FS_Subset
    <2>7. Cardinality(Batch \ {m}) = Cardinality(Batch) - 1
      BY <1>1, TaskSetsFinite, FS_RemoveElement
    <2>8. Cardinality(Batch) \in Nat /\ Cardinality(Before(m)) \in Nat
      BY <1>1, TaskSetsFinite
    <2>9. QED
      BY <1>2, <2>5, <2>6, <2>7, <2>8
  <1>5. QED
    BY <1>3, <1>4

\* Something is ready exactly when, with nothing running, the batch is not empty.
LEMMA BatchEmpty ==
  ASSUME running = {}, Batch = {}
  PROVE  Ready = {}
  <1>1. SUFFICES ASSUME Ready # {} PROVE FALSE
    OBVIOUS
  <1> DEFINE r == [t \in Task |-> t]
  <1>2. Ready \subseteq Task
    BY DEF Ready
  <1>3. \A s \in Ready : r[s] \in Nat
    BY <1>2 DEF Task
  <1>4. PICK m \in Ready : \A u \in Ready : r[m] <= r[u]
    BY <1>1, <1>3, LeastRank
  <1>5. {u \in Ready : u < m} = {}
    <2>1. SUFFICES ASSUME NEW u \in Ready, u < m PROVE FALSE
      OBVIOUS
    <2>2. m <= u
      BY <1>2, <1>4
    <2>3. QED
      BY <1>2, <2>1, <2>2, TaskAssumption DEF Task
  <1>6. Cardinality({}) = 0
    BY FS_EmptySet
  <1>7. m \in Batch
    BY <1>5, <1>6, DagAssumption DEF Batch
  <1>8. QED
    BY <1>7

----------------------------------------------------------------------------
(* Type correctness.                                                       *)

\* Every variable keeps its type, whatever fails or starts over.
THEOREM TypeCorrect == Spec => []TypeOK
  <1>1. Init => TypeOK
    BY TaskAssumption, DagAssumption
    DEF Init, TaskInit, TypeOK, TaskTypeOK, Status
  <1>2. TypeOK /\ [Next]_vars => TypeOK'
    <2> SUFFICES ASSUME TypeOK, [Next]_vars PROVE TypeOK'
      OBVIOUS
    <2> USE TaskAssumption, DagAssumption DEF TypeOK, TaskTypeOK, Status, InFlight, Settled
    <2>1. CASE ReadApprovals
      BY <2>1 DEF ReadApprovals, taskVars
    <2>2. CASE TakeBatch
      BY <2>2 DEF TakeBatch, Batch, Ready
    <2>3. CASE LeaveLoop
      BY <2>3 DEF LeaveLoop, taskVars, runMemory
    <2>4. CASE CascadeDone
      BY <2>4 DEF CascadeDone, taskVars
    <2>5. CASE EndRound
      BY <2>5 DEF EndRound, taskVars, runMemory
    <2>6. CASE Conclude
      BY <2>6 DEF Conclude, Verdict, taskVars, runMemory
    <2>7. ASSUME NEW t \in Task, RunTask(t) PROVE TypeOK'
      BY <2>7 DEF RunTask, ExecuteTask, Decline, Assign, Start, SpecialistReturns,
                  SpecialistThrows, Caught, Complete, Fail, Move, Write, runMemory
    <2>8. ASSUME NEW t \in Task, AccountCompleted(t) PROVE TypeOK'
      BY <2>8 DEF AccountCompleted, taskVars
    <2>9. ASSUME NEW t \in Task, AccountFailed(t) PROVE TypeOK'
      BY <2>9 DEF AccountFailed, taskVars
    <2>10. ASSUME NEW t \in Task, AccountRejected(t) PROVE TypeOK'
      BY <2>10 DEF AccountRejected, taskVars
    <2>11. ASSUME NEW t \in Task, BlockDependent(t) PROVE TypeOK'
      BY <2>11 DEF BlockDependent, Write
    <2>12. CASE StartRun
      BY <2>12 DEF StartRun, FreshMemory
    <2>13. CASE RunThrows
      BY <2>13 DEF RunThrows, FreshMemory, FailedWrite, Verdict, Dependents
    <2>14. CASE Crash
      BY <2>14 DEF Crash, FreshMemory
    <2>15. ASSUME NEW t \in Task, RunTaskFault(t) PROVE TypeOK'
      BY <2>15 DEF RunTaskFault, ExecuteTaskFault, CompleteThrows, Reject, Caught,
                   Move, FailedWrite, runMemory
    <2>16. CASE UNCHANGED vars
      BY <2>16 DEF vars, taskVars, runMemory
    <2>17. QED
      BY <2>1, <2>2, <2>3, <2>4, <2>5, <2>6, <2>7, <2>8, <2>9, <2>10, <2>11, <2>12,
         <2>13, <2>14, <2>15, <2>16 DEF Next, RunStep
  <1>3. QED
    BY <1>1, <1>2, PTL DEF Spec

\* A step leaves the batch within the bound: only TakeBatch enlarges it.
LEMMA BatchBoundedStep ==
  TypeOK /\ TypeOK' /\ BatchBounded /\ [Next]_vars => BatchBounded'
  <1> SUFFICES ASSUME TypeOK, TypeOK', BatchBounded, [Next]_vars PROVE BatchBounded'
    OBVIOUS
  <1>1. CASE TakeBatch
    BY <1>1, BatchBound DEF TakeBatch, TypeOK, BatchBounded
  <1>2. CASE batch' \subseteq batch
    <2>1. IsFiniteSet(batch) /\ Cardinality(batch) \in Nat /\ Cardinality(batch') \in Nat
      BY TaskSetsFinite DEF TypeOK
    <2>2. Cardinality(batch') <= Cardinality(batch)
      BY <1>2, <2>1, FS_Subset
    <2>3. QED
      BY <2>1, <2>2, DagAssumption DEF BatchBounded
  <1>3. TakeBatch \/ batch' \subseteq batch
    BY DEF Next, RunStep, ReadApprovals, LeaveLoop, CascadeDone, EndRound, Conclude, RunTask,
           AccountCompleted, AccountFailed, AccountRejected, BlockDependent, StartRun,
           RunThrows, Crash, RunTaskFault, FreshMemory, vars, runMemory
  <1>4. QED
    BY <1>1, <1>2, <1>3

----------------------------------------------------------------------------
(* The inductive invariant.                                                *)

\* The invariant holds before the first run of the goal.
LEMMA InvariantInit == Init => IInv
  <1> SUFFICES ASSUME Init PROVE IInv
    OBVIOUS
  <1>1. TypeOK
    BY TaskAssumption, DagAssumption DEF Init, TaskInit, TypeOK, TaskTypeOK, Status
  <1>2. BatchBounded
    BY FS_EmptySet, DagAssumption DEF Init, BatchBounded
  <1>3. QED
    BY <1>1, <1>2 DEF Init, TaskInit, IInv, MemoryAgrees, CalledInOrder, CascadeProgress,
                      ControlAgrees, InFlight

\* No step of the run, of its failures or of a rerun leaves the invariant.
LEMMA InvariantStep == IInv /\ TypeOK' /\ [Next]_vars => IInv'
  <1> SUFFICES ASSUME IInv, TypeOK', [Next]_vars PROVE IInv'
    OBVIOUS
  <1> USE TaskAssumption, DagAssumption
      DEF InFlight, Settled, Status, IInv, TypeOK, TaskTypeOK, MemoryAgrees,
          CalledInOrder, CascadeProgress
  <1>0. BatchBounded'
    BY BatchBoundedStep
  <1>1. CASE ReadApprovals
    BY <1>0, <1>1 DEF ReadApprovals, ControlAgrees, taskVars
  <1>2. CASE TakeBatch
    <2>1. /\ Batch \subseteq Task \ (completed \cup failed \cup blocked)
          /\ \A t \in Batch : deps[t] \subseteq completed
      BY DEF Batch, Ready
    <2> HIDE DEF Batch
    <2>2. MemoryAgrees'
      BY <1>2, <2>1 DEF TakeBatch, ControlAgrees
    <2>3. CalledInOrder'
      BY <1>2, <2>1 DEF TakeBatch
    <2>4. CascadeProgress' /\ ControlAgrees'
      BY <1>2 DEF TakeBatch, ControlAgrees
    <2>5. QED
      BY <1>0, <2>2, <2>3, <2>4
  <1>3. CASE LeaveLoop
    <2>1. Ready = {} /\ running = {}
      BY <1>3, BatchEmpty DEF LeaveLoop
    <2>2. Ready' = Ready
      BY <1>3 DEF LeaveLoop, Ready, runMemory
    <2>3. ControlAgrees'
      BY <1>3, <2>1, <2>2 DEF LeaveLoop, ControlAgrees, runMemory
    <2>4. QED
      BY <1>0, <1>3, <2>3 DEF LeaveLoop, taskVars, runMemory
  <1>4. CASE CascadeDone
    \* A task below the frontier was not visited only if it was blocked before:
    \* nothing that ran has a failed or blocked dependency.
    <2>1. completed \cap (failed \cup blocked) = {}
      OBVIOUS
    <2>2. \A t \in Task : deps[t] \cap frontier # {} => t \in blocked
      <3>1. SUFFICES ASSUME NEW t \in Task, deps[t] \cap frontier # {} PROVE t \in blocked
        OBVIOUS
      <3>2. t \in completed \cup failed \cup blocked
        BY <1>4, <3>1 DEF CascadeDone, Dependents
      <3>3. ~(deps[t] \subseteq completed)
        BY <2>1, <3>1
      <3>4. QED
        BY <3>2, <3>3
    <2>3. CascadeProgress'
      BY <1>4, <2>2 DEF CascadeDone, taskVars
    <2>4. QED
      BY <1>0, <1>4, <2>3 DEF CascadeDone, ControlAgrees, taskVars
  <1>5. CASE EndRound
    BY <1>0, <1>5 DEF EndRound, ControlAgrees, Ready, taskVars, runMemory
  <1>6. CASE Conclude
    <2>1. Ready' = Ready /\ Awaiting' = Awaiting
      BY <1>6 DEF Conclude, Ready, Awaiting, runMemory
    <2>2. Verdict = "completed" => failed \cup blocked \cup Awaiting = {}
      BY <1>6 DEF Conclude, Verdict, ControlAgrees
    <2>3. ControlAgrees'
      BY <1>6, <2>1, <2>2 DEF Conclude, ControlAgrees, runMemory
    <2>4. QED
      BY <1>0, <1>6, <2>3 DEF Conclude, taskVars, runMemory
  <1>7. ASSUME NEW t \in Task, RunTask(t) PROVE IInv'
    <2>1. ControlAgrees'
      BY <1>7 DEF RunTask, ControlAgrees, runMemory
    <2>2. QED
      BY <1>0, <1>7, <2>1 DEF RunTask, ExecuteTask, Decline, Assign, Start, SpecialistReturns,
                        SpecialistThrows, Caught, Complete, Fail, Move, Write, runMemory
  <1>8. ASSUME NEW t \in Task, AccountCompleted(t) PROVE IInv'
    BY <1>0, <1>8 DEF AccountCompleted, NextResult, ControlAgrees, taskVars
  <1>9. ASSUME NEW t \in Task, AccountFailed(t) PROVE IInv'
    <2>1. frontier = {} /\ frontier' = {t} /\ t \notin blocked
      BY <1>9 DEF AccountFailed, NextResult, ControlAgrees
    <2>2. failed' = failed \cup {t} /\ blocked' = blocked /\ deps' = deps
      BY <1>9 DEF AccountFailed
    <2>3. CascadeProgress'
      <3>1. \A u \in blocked : deps[u] \cap (failed' \cup blocked) # {}
        BY <2>2
      <3>2. \A u \in Task : deps[u] \cap ((failed' \cup blocked) \ {t}) # {} => u \in blocked
        BY <2>1, <2>2
      <3>3. QED
        BY <2>1, <2>2, <3>1, <3>2
    <2>4. QED
      BY <1>0, <1>9, <2>3 DEF AccountFailed, NextResult, ControlAgrees, taskVars
  <1>10. ASSUME NEW t \in Task, AccountRejected(t) PROVE IInv'
    BY <1>0, <1>10 DEF AccountRejected, NextResult, ControlAgrees, taskVars
  <1>11. ASSUME NEW t \in Task, BlockDependent(t) PROVE IInv'
    BY <1>0, <1>11 DEF BlockDependent, Write, Dependents, ControlAgrees
  <1>12. CASE StartRun
    BY <1>0, <1>12 DEF StartRun, FreshMemory, ControlAgrees
  <1>13. CASE RunThrows
    BY <1>0, <1>13 DEF RunThrows, FreshMemory, ControlAgrees
  <1>14. CASE Crash
    BY <1>0, <1>14 DEF Crash, FreshMemory, ControlAgrees
  <1>15. ASSUME NEW t \in Task, RunTaskFault(t) PROVE IInv'
    <2>1. ControlAgrees'
      BY <1>15 DEF RunTaskFault, ControlAgrees, runMemory
    <2>2. QED
      BY <1>0, <1>15, <2>1 DEF RunTaskFault, ExecuteTaskFault, CompleteThrows, Reject, Caught,
                         Move, FailedWrite, runMemory
  <1>16. CASE UNCHANGED vars
    BY <1>0, <1>16 DEF vars, ControlAgrees, Ready, Awaiting, taskVars, runMemory
  <1>17. QED
    BY <1>1, <1>2, <1>3, <1>4, <1>5, <1>6, <1>7, <1>8, <1>9, <1>10, <1>11, <1>12,
       <1>13, <1>14, <1>15, <1>16 DEF Next, RunStep

\* The run's memory, the promises, the rows and the control point agree in
\* every reachable state.
THEOREM Invariance == Spec => []IInv
  <1>1. QED
    BY InvariantInit, InvariantStep, TypeCorrect, PTL DEF Spec

----------------------------------------------------------------------------
(* The safety properties.                                                  *)

\* No task is in flight before its dependencies are completed, in memory and
\* in the database.
THEOREM DependenciesFirstHolds == Spec => []DependenciesFirst
  <1>1. IInv => DependenciesFirst
    BY DEF IInv, TypeOK, MemoryAgrees, CalledInOrder, DependenciesFirst, InFlight
  <1>2. QED
    BY <1>1, Invariance, PTL

\* Between rounds exactly the tasks below a failure are blocked.
THEOREM CascadeExactHolds == Spec => []CascadeExact
  <1>1. IInv => CascadeExact
    BY DEF IInv, TypeOK, CascadeProgress, ControlAgrees, CascadeExact
  <1>2. QED
    BY <1>1, Invariance, PTL

\* The database keeps the verdicts of a run that ended.
THEOREM RecordsAgreeHolds == Spec => []RecordsAgree
  <1>1. IInv => RecordsAgree
    BY DEF IInv, MemoryAgrees, RecordsAgree
  <1>2. QED
    BY <1>1, Invariance, PTL

\* A goal marked completed has every task completed, for every plan whose
\* dependencies stay inside the goal: this is where acyclicity is needed, to
\* find among the unfinished tasks one that was ready when the loop was left.
THEOREM CompletedMeansAllHolds == Spec => []CompletedMeansAll
  <1>1. IInv => CompletedMeansAll
    <2>1. SUFFICES ASSUME IInv, pc = "ended", goalStatus = "completed",
                          \A t \in Task : deps[t] \subseteq Task
                   PROVE  Task \subseteq completed
      BY DEF CompletedMeansAll, IInv, MemoryAgrees
    <2>2. failed \cup blocked \cup Awaiting = {} /\ running = {} /\ Ready = {}
      BY <2>1 DEF IInv, ControlAgrees
    <2>3. approvalBlocked \subseteq completed
      BY <2>2 DEF Awaiting
    <2>4. PICK rank \in [Task -> Task] :
                 \A t \in Task : \A d \in deps[t] \cap Task : rank[d] < rank[t]
      BY <2>1 DEF IInv, TypeOK, Graphs, Acyclic
    <2>5. SUFFICES ASSUME Task \ completed # {} PROVE FALSE
      OBVIOUS
    <2>6. \A s \in Task \ completed : rank[s] \in Nat
      BY <2>4, TaskAssumption DEF Task
    <2>7. PICK t \in Task \ completed : \A u \in Task \ completed : rank[t] <= rank[u]
      BY <2>5, <2>6, LeastRank
    <2>8. deps[t] \subseteq completed
      BY <2>1, <2>4, <2>6, <2>7
    <2>9. t \in Ready
      BY <2>2, <2>3, <2>8 DEF Ready
    <2>10. QED
      BY <2>2, <2>9
  <1>2. QED
    BY <1>1, Invariance, PTL

\* No more than MAX_TASK_CONCURRENCY tasks are in flight.
THEOREM ConcurrencyBoundHolds == Spec => []ConcurrencyBound
  <1>1. IInv => ConcurrencyBound
    <2>1. SUFFICES ASSUME IInv PROVE ConcurrencyBound
      OBVIOUS
    <2> DEFINE Flying == {t \in Task : step[t] \in InFlight}
    <2>2. Flying \subseteq batch /\ batch \subseteq Task
      BY <2>1 DEF IInv, TypeOK, MemoryAgrees
    <2>3. /\ IsFiniteSet(batch) /\ Cardinality(batch) \in Nat
          /\ Cardinality(Flying) \in Nat
      BY <2>2, TaskSetsFinite
    <2>4. Cardinality(Flying) <= Cardinality(batch)
      BY <2>2, <2>3, FS_Subset
    <2>5. QED
      BY <2>1, <2>3, <2>4, DagAssumption DEF IInv, BatchBounded, ConcurrencyBound
  <1>2. QED
    BY <1>1, Invariance, PTL

----------------------------------------------------------------------------
(* Progress.                                                               *)

\* What a task has left is a natural number.
LEMMA StepsLeftType ==
  TaskTypeOK => \A t \in Task : StepsLeft(t) \in Nat
  BY TaskAssumption DEF TaskTypeOK, StepsLeft, InFlight, Settled

\* Each step of a task, a failing one included, leaves it fewer, and every other
\* task as many.
LEMMA StepsLeftFalls ==
  ASSUME TaskTypeOK, NEW t \in Task, ExecuteTask(t) \/ ExecuteTaskFault(t)
  PROVE  /\ StepsLeft(t)' < StepsLeft(t) /\ StepsLeft(t)' \in Nat
         /\ \A u \in Task \ {t} : StepsLeft(u)' = StepsLeft(u)
  <1> USE TaskAssumption DEF TaskTypeOK, StepsLeft, InFlight, Settled
  <1>1. CASE ExecuteTask(t)
    BY <1>1 DEF ExecuteTask, Decline, Assign, Start, SpecialistReturns, SpecialistThrows,
                Caught, Complete, Fail, Move
  <1>2. CASE ExecuteTaskFault(t)
    BY <1>2 DEF ExecuteTaskFault, CompleteThrows, Reject, Caught, Move
  <1>3. QED
    BY <1>1, <1>2

\* Remaining at a task is what that task has left.
LEMMA RemainingOfTasks ==
  /\ 0 \in 0..N
  /\ \A u \in 0..N : u # 0 => u \in Task
  /\ \A u \in Task : /\ u \in 0..N /\ u # 0
                     /\ Remaining[u] = StepsLeft(u)
                     /\ Remaining'[u] = StepsLeft(u)'
  <1>1. 0 \in 0..N /\ \A u \in 0..N : u # 0 => u \in Task
    BY TaskAssumption DEF Task
  <1>2. \A u \in Task : u \in 0..N /\ u # 0
    BY TaskAssumption DEF Task
  <1>3. \A u \in Task : Remaining[u] = StepsLeft(u) /\ Remaining'[u] = StepsLeft(u)'
    BY <1>2 DEF Remaining
  <1>4. QED
    BY <1>1, <1>2, <1>3

\* A step of a task makes what it has left fall, and nothing rise.
LEMMA TaskAdvances ==
  ASSUME IInv, NEW t \in Task, RunTask(t) \/ RunTaskFault(t)
  PROVE  Advances
  <1>1. /\ StepsLeft(t)' < StepsLeft(t) /\ StepsLeft(t) \in Nat /\ StepsLeft(t)' \in Nat
        /\ \A u \in Task \ {t} : StepsLeft(u)' = StepsLeft(u) /\ StepsLeft(u) \in Nat
    BY StepsLeftFalls, StepsLeftType DEF RunTask, RunTaskFault, IInv, TypeOK
  <1>2. Remaining'[0] = Remaining[0]
    BY RemainingOfTasks DEF RunTask, RunTaskFault, Remaining
  <1>3. Remaining'[t] < Remaining[t] /\ Remaining'[t] # Remaining[t]
    BY <1>1, RemainingOfTasks
  <1>4. \A u \in Task : Remaining'[u] <= Remaining[u]
    BY <1>1, RemainingOfTasks
  <1>5. Remaining[0] \in Nat
    BY RemainingOfTasks DEF Remaining
  <1>6. \A u \in 0..N : Remaining'[u] <= Remaining[u]
    BY <1>2, <1>4, <1>5, RemainingOfTasks
  <1>7. Untouched' = Untouched /\ batch' = batch
    <2>1. step[t] # "none" /\ step'[t] # "none" /\ \A u \in Task \ {t} : step'[u] = step[u]
      BY DEF IInv, TypeOK, TaskTypeOK, RunTask, RunTaskFault, ExecuteTask, ExecuteTaskFault,
             Decline, Assign, Start, SpecialistReturns, SpecialistThrows, Caught, Complete,
             Fail, CompleteThrows, Reject, Move
    <2>2. blocked' = blocked /\ batch' = batch
      BY DEF RunTask, RunTaskFault, runMemory
    <2>3. QED
      BY <2>1, <2>2 DEF Untouched
  <1>8. QED
    BY <1>3, <1>6, <1>7 DEF Advances

\* A step of the run itself around its rounds makes what it has left fall.
LEMMA ControlAdvances ==
  ASSUME IInv, ReadApprovals \/ LeaveLoop \/ CascadeDone \/ EndRound \/ Conclude
  PROVE  Advances
  <1>1. /\ Untouched' = Untouched /\ batch' = batch
        /\ step' = step /\ retries' = retries
    BY DEF ReadApprovals, LeaveLoop, CascadeDone, EndRound, Conclude, Untouched, taskVars,
           runMemory
  <1>2. \A t \in Task : StepsLeft(t)' = StepsLeft(t) /\ StepsLeft(t) \in Nat
    BY <1>1, StepsLeftType DEF IInv, TypeOK, StepsLeft
  <1>3. Remaining'[0] < Remaining[0]
    BY RemainingOfTasks DEF ReadApprovals, LeaveLoop, CascadeDone, EndRound, Conclude, Remaining
  <1>4. \A t \in Task : Remaining'[t] <= Remaining[t]
    BY <1>2, RemainingOfTasks
  <1>5. Remaining[0] \in Nat /\ Remaining'[0] \in Nat
    BY RemainingOfTasks DEF Remaining
  <1>6. \A t \in 0..N : Remaining'[t] <= Remaining[t]
    BY <1>3, <1>4, <1>5, RemainingOfTasks
  <1>7. Remaining' # Remaining
    BY <1>3, <1>5
  <1>8. QED
    BY <1>1, <1>6, <1>7 DEF Advances

\* A round that calls a task makes one less untouched, and a round that calls
\* none found a task whose promise was rejected.
LEMMA RoundAdvances ==
  ASSUME IInv, TakeBatch
  PROVE  Advances \/ (Batch = {} /\ \E t \in running : step[t] = "rejected")
  <1>1. CASE Batch = {}
    BY <1>1 DEF TakeBatch, IInv, TypeOK, MemoryAgrees, ControlAgrees
  <1>2. CASE Batch # {}
    <2>1. /\ Batch \subseteq Task
          /\ \A t \in Batch : t \notin completed \cup failed \cup blocked \cup running
      BY DEF Batch, Ready
    <2> HIDE DEF Batch
    <2>2. \A t \in Batch : step[t] = "none" /\ t \notin blocked /\ step'[t] = "called"
      BY <2>1 DEF TakeBatch, IInv, MemoryAgrees
    <2>3. \A t \in Task \ Batch : step'[t] = step[t]
      BY DEF TakeBatch
    <2>4. blocked' = blocked
      BY DEF TakeBatch
    <2>5. Untouched' = Untouched \ Batch /\ Batch \subseteq Untouched
      BY <2>1, <2>2, <2>3, <2>4 DEF Untouched
    <2>6. QED
      BY <1>2, <2>5 DEF Advances
  <1>3. QED
    BY <1>1, <1>2

\* Accounting for a result shortens the batch, and blocking a task leaves one
\* less untouched.
LEMMA ResultAdvances ==
  ASSUME IInv, NEW t \in Task,
         AccountCompleted(t) \/ AccountFailed(t) \/ AccountRejected(t) \/ BlockDependent(t)
  PROVE  Advances
  <1>1. CASE AccountCompleted(t) \/ AccountFailed(t) \/ AccountRejected(t)
    <2>1. batch' = batch \ {t} /\ t \in batch
      BY <1>1 DEF AccountCompleted, AccountFailed, AccountRejected, NextResult
    <2>2. Untouched' = Untouched
      BY <1>1 DEF AccountCompleted, AccountFailed, AccountRejected, Untouched, taskVars
    <2>3. QED
      BY <2>1, <2>2 DEF Advances
  <1>2. CASE BlockDependent(t)
    <2>1. t \notin blocked /\ deps[t] \cap frontier # {}
      BY <1>2 DEF BlockDependent, Dependents
    <2>2. ~(deps[t] \subseteq completed)
      <3>1. completed \cap (failed \cup blocked) = {}
        BY DEF IInv, TypeOK, MemoryAgrees
      <3>2. QED
        BY <2>1, <3>1 DEF IInv, CascadeProgress
    <2>3. t \in Untouched
      BY <2>1, <2>2 DEF IInv, CalledInOrder, Untouched
    <2>4. Untouched' = Untouched \ {t}
      BY <1>2 DEF BlockDependent, Untouched
    <2>5. QED
      BY <2>3, <2>4 DEF Advances
  <1>3. QED
    BY <1>1, <1>2

\* Every step of a run under way ends it or brings it closer to its end, but for
\* the empty rounds that a rejected promise leaves it turning in.
THEOREM OnlyForwardHolds == Spec => OnlyForward
  <1>1. IInv /\ [Next]_vars =>
          [pc \notin {"idle", "ended"} =>
             pc' = "idle" \/ Advances
             \/ (TakeBatch /\ Batch = {} /\ \E t \in running : step[t] = "rejected")]_vars
    <2> SUFFICES ASSUME IInv, Next, pc \notin {"idle", "ended"}, pc' # "idle"
                 PROVE  \/ Advances
                        \/ TakeBatch /\ Batch = {} /\ \E t \in running : step[t] = "rejected"
      OBVIOUS
    <2>1. CASE TakeBatch
      BY <2>1, RoundAdvances
    <2>2. CASE ReadApprovals \/ LeaveLoop \/ CascadeDone \/ EndRound \/ Conclude
      BY <2>2, ControlAdvances
    <2>3. CASE \E t \in Task : RunTask(t) \/ RunTaskFault(t)
      BY <2>3, TaskAdvances
    <2>4. CASE \E t \in Task : AccountCompleted(t) \/ AccountFailed(t) \/ AccountRejected(t)
                              \/ BlockDependent(t)
      BY <2>4, ResultAdvances
    <2>5. QED
      BY <2>1, <2>2, <2>3, <2>4 DEF Next, RunStep, StartRun, RunThrows, Crash
  <1>2. QED
    BY <1>1, Invariance, PTL DEF Spec, OnlyForward

\* A round is waited for only while a task of it is in flight.
THEOREM GoesOnHolds == Spec => []GoesOn
  <1>1. IInv => GoesOn
    <2> SUFFICES ASSUME IInv, pc = "batch", batch # {}, \A t \in batch : step[t] \notin InFlight
                 PROVE  \E t \in batch : NextResult(t)
      BY DEF GoesOn
    <2>1. batch \subseteq Task /\ \A t \in batch : step[t] \in Settled
      BY DEF IInv, TypeOK, TaskTypeOK, MemoryAgrees
    <2>2. \A t \in Task : t \in Nat
      BY TaskAssumption DEF Task
    <2>3. batch \in SUBSET Nat
      BY <2>1, <2>2
    <2>4. PICK t \in batch : \A u \in batch : t <= u
      BY <2>3, LeastNumber
    <2>5. QED
      BY <2>1, <2>4 DEF NextResult
  <1>2. QED
    BY <1>1, Invariance, PTL

----------------------------------------------------------------------------
(* Refinement: the dispatcher implements the dependency-ordered execution. *)

\* The abstract state is kept by every step that keeps step and blocked.
LEMMA OrderStutter ==
  ASSUME step' = step, blocked' = blocked, deps' = deps
  PROVE  UNCHANGED <<deps, [t \in Task |-> StateOf(t)]>>
  BY DEF StateOf

\* The abstract module's Cardinality is the one used here.
LEMMA OrderCardinality == \A S : Order!Cardinality(S) = Cardinality(S)
  BY Zenon DEF Order!Cardinality, Order!IsFiniteSet, Cardinality, IsFiniteSet

\* Starting, throwing or dying forgets every verdict: the abstract StartOver.
LEMMA OrderFresh ==
  ASSUME FreshMemory, deps' = deps
  PROVE  Order!Next
  <1>1. \A t \in Task : StateOf(t)' = "waiting"
    BY DEF FreshMemory, StateOf
  <1>2. [t \in Task |-> StateOf(t)]' = [t \in Task |-> "waiting"]
    BY <1>1
  <1>3. QED
    BY <1>2 DEF Order!Next, Order!StartOver

\* Every step of the dispatcher is a step of DependencyOrder or changes
\* nothing that it sees.
LEMMA OrderStep ==
  IInv /\ TypeOK' /\ [Next]_vars => [Order!Next]_<<deps, [t \in Task |-> StateOf(t)]>>
  <1> SUFFICES ASSUME IInv, TypeOK', [Next]_vars
               PROVE  [Order!Next]_<<deps, [t \in Task |-> StateOf(t)]>>
    OBVIOUS
  <1> DEFINE state == [t \in Task |-> StateOf(t)]
  <1> USE DEF IInv, TypeOK, TaskTypeOK, MemoryAgrees, InFlight, Settled
  <1>1. CASE TakeBatch
    <2>1. /\ Batch \subseteq Task
          /\ \A t \in Batch : /\ t \notin completed \cup failed \cup blocked \cup running
                              /\ deps[t] \subseteq completed
      BY DEF Batch, Ready
    <2>2. Cardinality(Batch) <= MaxConcurrency
      BY BatchBound
    <2> HIDE DEF Batch
    <2>3. deps' = deps /\ blocked' = blocked
      BY <1>1 DEF TakeBatch
    <2>4. CASE Batch = {}
      BY <1>1, <2>3, <2>4, OrderStutter DEF TakeBatch
    <2>5. CASE Batch # {}
      <3>1. \A t \in Batch : state[t] = "waiting" /\ \A d \in deps[t] : d \in Task /\ state[d] = "completed"
        BY <2>1 DEF StateOf
      <3>2. {t \in Task : state[t] = "working"} = {}
        BY <1>1 DEF TakeBatch, StateOf, ControlAgrees
      <3>3. Cardinality({t \in Task : state[t] = "working"} \cup Batch) <= MaxConcurrency
        BY <2>2, <3>2
      <3>4. \A t \in Task : StateOf(t)' = IF t \in Batch THEN "working" ELSE StateOf(t)
        BY <1>1, <2>1 DEF TakeBatch, StateOf
      <3>5. state' = [t \in Task |-> IF t \in Batch THEN "working" ELSE state[t]]
        BY <3>4
      <3>6. Order!Begin
        <4> SUFFICES \E S \in SUBSET Task :
                       /\ S # {}
                       /\ \A t \in S : /\ state[t] = "waiting"
                                       /\ \A d \in deps[t] : d \in Task /\ state[d] = "completed"
                       /\ Cardinality({t \in Task : state[t] = "working"} \cup S) <= MaxConcurrency
                       /\ state' = [t \in Task |-> IF t \in S THEN "working" ELSE state[t]]
          BY OrderCardinality, Zenon DEF Order!Begin, Order!Working
        <4> Batch \in SUBSET Task
          BY <2>1
        <4> WITNESS Batch \in SUBSET Task
        <4> QED
          BY <2>5, <3>1, <3>3, <3>5
      <3>7. QED
        BY <2>3, <3>6 DEF Order!Next
    <2>6. QED
      BY <2>4, <2>5
  <1>2. ASSUME NEW t \in Task, RunTask(t) \/ RunTaskFault(t)
        PROVE  [Order!Next]_<<deps, state>>
    <2>1. deps' = deps /\ blocked' = blocked
      BY <1>2 DEF RunTask, RunTaskFault, runMemory
    <2>2. step[t] \in InFlight
      BY <1>2 DEF RunTask, RunTaskFault, ExecuteTask, ExecuteTaskFault, Decline, Assign, Start,
                  SpecialistReturns, SpecialistThrows, Complete, Fail, CompleteThrows, Reject
    <2>3. t \notin blocked
      BY <2>2
    <2>4. PICK s \in InFlight \cup Settled : step' = [step EXCEPT ![t] = s]
      BY <1>2 DEF RunTask, RunTaskFault, ExecuteTask, ExecuteTaskFault, Decline, Assign, Start,
                  SpecialistReturns, SpecialistThrows, Caught, Complete, Fail, CompleteThrows,
                  Reject, Move
    <2>5. CASE s \in InFlight
      <3>1. \A u \in Task : StateOf(u)' = StateOf(u)
        BY <2>1, <2>2, <2>4, <2>5 DEF StateOf
      <3>2. QED
        BY <2>1, <3>1
    <2>6. CASE s \in Settled
      <3>1. \A u \in Task : StateOf(u)' = IF u = t THEN s ELSE StateOf(u)
        BY <2>1, <2>2, <2>3, <2>4, <2>6 DEF StateOf
      <3>2. state' = [state EXCEPT ![t] = s]
        BY <3>1
      <3>3. state[t] = "working"
        BY <2>2, <2>3 DEF StateOf
      <3>4. Order!Settle(t)
        BY <2>6, <3>2, <3>3 DEF Order!Settle
      <3>5. QED
        BY <2>1, <3>4 DEF Order!Next
    <2>7. QED
      BY <2>4, <2>5, <2>6
  <1>3. ASSUME NEW t \in Task, BlockDependent(t) PROVE [Order!Next]_<<deps, state>>
    <2>1. /\ deps' = deps /\ step' = step /\ blocked' = blocked \cup {t}
          /\ t \notin completed \cup failed \cup blocked
      BY <1>3 DEF BlockDependent, Dependents
    <2>2. PICK d \in deps[t] : d \in failed \cup blocked
      BY <1>3 DEF BlockDependent, Dependents, CascadeProgress
    <2>3. d \in Task /\ state[d] \in {"failed", "skipped"}
      BY <2>2 DEF StateOf
    <2>4. step[t] = "none"
      BY <2>2 DEF CalledInOrder
    <2>5. state[t] = "waiting"
      BY <2>1, <2>4 DEF StateOf
    <2>6. \A u \in Task : StateOf(u)' = IF u = t THEN "skipped" ELSE StateOf(u)
      BY <2>1 DEF StateOf
    <2>7. state' = [state EXCEPT ![t] = "skipped"]
      BY <2>6
    <2>8. Order!Skip(t)
      BY <2>3, <2>5, <2>7 DEF Order!Skip
    <2>9. QED
      BY <2>1, <2>8 DEF Order!Next
  <1>4. CASE StartRun \/ RunThrows \/ Crash
    BY <1>4, OrderFresh DEF StartRun, RunThrows, Crash
  <1>5. CASE ReadApprovals \/ LeaveLoop \/ CascadeDone \/ EndRound \/ Conclude
    BY <1>5, OrderStutter DEF ReadApprovals, LeaveLoop, CascadeDone, EndRound, Conclude,
                              taskVars, runMemory
  <1>6. ASSUME NEW t \in Task, AccountCompleted(t) \/ AccountFailed(t) \/ AccountRejected(t)
        PROVE  [Order!Next]_<<deps, state>>
    BY <1>6, OrderStutter DEF AccountCompleted, AccountFailed, AccountRejected, taskVars
  <1>7. CASE UNCHANGED vars
    BY <1>7, OrderStutter DEF vars, taskVars, runMemory
  <1>8. QED
    BY <1>1, <1>2, <1>3, <1>4, <1>5, <1>6, <1>7 DEF Next, RunStep

\* runGoalDAG implements DependencyOrder: tasks begin in dependency order and
\* within the bound, are skipped only below a failure, and a verdict stands
\* until the goal is run again.
THEOREM Refinement == Spec => ImplementsOrder
  <1>1. Init => Order!Init
    BY DEF Init, TaskInit, Order!Init, StateOf
  <1>2. QED
    BY <1>1, OrderStep, Invariance, TypeCorrect, PTL DEF Spec, ImplementsOrder, Order!Spec
=============================================================================
