-------------------------- MODULE TaskGroupsProofs --------------------------
(***************************************************************************)
(* Proofs about TaskGroups for every number of tasks, every grouping,      *)
(* every bound on retries, runs and failing writes.                        *)
(***************************************************************************)
EXTENDS TaskGroups, OrderLemmas

\* A sort key is a natural number.
LEMMA SortKeyType ==
  ASSUME group \in [Task -> Group \cup {NoGroup}], NEW t \in Task
  PROVE  SortKey(t) \in Nat
  <1>1. (t - 1) + Ungrouped \in Nat
    BY TaskAssumption, GroupsAssumption DEF Task
  <1>2. group[t] = NoGroup \/ group[t] \in Group
    OBVIOUS
  <1>3. \A g \in Group : g \in Nat
    BY GroupsAssumption
  <1>4. CASE group[t] = NoGroup
    BY <1>1, <1>4 DEF SortKey
  <1>5. CASE group[t] # NoGroup
    BY <1>2, <1>3, <1>5, Zenon DEF SortKey
  <1>6. QED
    BY <1>4, <1>5

\* Steps that keep the plan keep its sort keys.
LEMMA SortKeyFixed ==
  ASSUME group' = group, NEW t
  PROVE  SortKey(t)' = SortKey(t)
  BY DEF SortKey

----------------------------------------------------------------------------
(* Type correctness.                                                       *)

\* Every variable keeps its type, whatever fails or starts over.
THEOREM TypeCorrect == Spec => []TypeOK
  <1>1. Init => TypeOK
    BY TaskAssumption, GroupsAssumption DEF Init, TaskInit, TypeOK, TaskTypeOK, Status
  <1>2. TypeOK /\ [Next]_vars => TypeOK'
    <2> SUFFICES ASSUME TypeOK, [Next]_vars PROVE TypeOK'
      OBVIOUS
    <2> USE TaskAssumption, GroupsAssumption DEF TypeOK, TaskTypeOK, Status, InFlight, Settled
    <2>1. CASE ReadApprovals
      BY <2>1 DEF ReadApprovals, taskVars
    <2>2. CASE TakeGroup
      BY <2>2 DEF TakeGroup, NextGroup
    <2>3. CASE StopAtGate
      BY <2>3 DEF StopAtGate, NextGroup, taskVars
    <2>4. CASE LeaveLoop
      BY <2>4 DEF LeaveLoop, taskVars, runMemory
    <2>5. CASE EndGroup
      BY <2>5 DEF EndGroup, Ended, taskVars
    <2>6. CASE Conclude
      BY <2>6 DEF Conclude, Verdict, taskVars, runMemory
    <2>7. ASSUME NEW t \in Task, RunTask(t) PROVE TypeOK'
      BY <2>7 DEF RunTask, ExecuteTask, Decline, Assign, Start, SpecialistReturns,
                  SpecialistThrows, Caught, Complete, Fail, Move, Write, runMemory
    <2>8. CASE StartRun
      BY <2>8 DEF StartRun, FreshMemory
    <2>9. CASE RunThrows
      BY <2>9 DEF RunThrows, FreshMemory, Verdict
    <2>10. CASE Crash
      BY <2>10 DEF Crash, FreshMemory
    <2>11. ASSUME NEW t \in Task, RunTaskFault(t) PROVE TypeOK'
      BY <2>11 DEF RunTaskFault, ExecuteTaskFault, CompleteThrows, Reject, Caught,
                   Move, FailedWrite, runMemory
    <2>12. CASE UNCHANGED vars
      BY <2>12 DEF vars, taskVars, runMemory
    <2>13. QED
      BY <2>1, <2>2, <2>3, <2>4, <2>5, <2>6, <2>7, <2>8, <2>9, <2>10, <2>11, <2>12
      DEF Next, RunStep
  <1>3. QED
    BY <1>1, <1>2, PTL DEF Spec

----------------------------------------------------------------------------
(* The inductive invariant.                                                *)

\* The invariant holds before the first run of the goal.
LEMMA InvariantInit == Init => IInv
  BY TaskAssumption, GroupsAssumption
  DEF Init, TaskInit, IInv, TypeOK, TaskTypeOK, Status, MemoryAgrees, FrontFirst,
      ControlAgrees, InFlight

\* Taking the next group keeps the order of the sorted list.
LEMMA TakeGroupInOrder ==
  ASSUME IInv, TakeGroup
  PROVE  FrontFirst'
  <1>1. /\ batch = {} /\ group' = group
        /\ batch' = NextGroup /\ left' = left \ NextGroup
        /\ left \subseteq Task /\ NextGroup \subseteq left
    BY DEF IInv, TypeOK, ControlAgrees, TakeGroup, NextGroup
  <1>2. \A t \in NextGroup, u \in left : SortKey(t) <= SortKey(u)
    BY DEF NextGroup
  <1>3. \A t \in NextGroup, u \in left \ NextGroup : SortKey(t) < SortKey(u)
    <2>1. SUFFICES ASSUME NEW t \in NextGroup, NEW u \in left \ NextGroup
                   PROVE  SortKey(t) < SortKey(u)
      OBVIOUS
    <2>2. PICK v \in left : ~(SortKey(u) <= SortKey(v))
      BY <2>1 DEF NextGroup
    <2>3. SortKey(t) \in Int /\ SortKey(u) \in Int /\ SortKey(v) \in Int
      BY <1>1, SortKeyType DEF IInv, TypeOK
    <2>4. SortKey(t) <= SortKey(v)
      BY <1>2
    <2>5. QED
      BY <2>2, <2>3, <2>4
  <1>4. \A t \in Task \ left, u \in left : SortKey(t) < SortKey(u)
    BY DEF IInv, FrontFirst
  <1>5. \A t \in Task : SortKey(t) \in Int /\ SortKey(t)' = SortKey(t)
    BY <1>1, SortKeyType, SortKeyFixed DEF IInv, TypeOK
  <1>6. \A t \in Task \ left', u \in left' : SortKey(t) < SortKey(u)
    BY <1>1, <1>3, <1>4
  <1>7. \A t \in batch', u \in Task \ left' : SortKey(u) <= SortKey(t)
    BY <1>1, <1>2, <1>4, <1>5
  <1>8. \A t \in batch', u \in Task \ (left' \cup batch') : SortKey(u) < SortKey(t)
    BY <1>1, <1>4
  <1>9. QED
    BY <1>1, <1>5, <1>6, <1>7, <1>8 DEF FrontFirst

\* A step that keeps the plan and the list, and takes nothing into the batch,
\* keeps the order.
LEMMA OrderKept ==
  ASSUME TypeOK, FrontFirst, group' = group, left' = left, batch' = batch \/ batch' = {}
  PROVE  FrontFirst'
  <1>1. \A t : SortKey(t)' = SortKey(t)
    BY SortKeyFixed
  <1>2. QED
    BY <1>1 DEF FrontFirst, TypeOK

\* With everything still to come and nothing under way there is no order to keep.
LEMMA OrderFresh == FreshMemory => FrontFirst'
  BY DEF FreshMemory, FrontFirst

\* No step of the run, of its failures or of a rerun leaves the invariant.
LEMMA InvariantStep == IInv /\ TypeOK' /\ [Next]_vars => IInv'
  <1> SUFFICES ASSUME IInv, TypeOK', [Next]_vars PROVE IInv'
    OBVIOUS
  <1> USE TaskAssumption, GroupsAssumption
      DEF InFlight, Settled, Status, IInv, TypeOK, TaskTypeOK, MemoryAgrees
  <1>1. CASE ReadApprovals
    <2>1. FrontFirst'
      BY <1>1, OrderKept DEF ReadApprovals
    <2>2. QED
      BY <1>1, <2>1 DEF ReadApprovals, ControlAgrees, taskVars
  <1>2. CASE TakeGroup
    <2>1. FrontFirst'
      BY <1>2, TakeGroupInOrder
    <2>2. NextGroup \subseteq left
      BY DEF NextGroup
    <2> HIDE DEF NextGroup
    <2>3. MemoryAgrees'
      BY <1>2, <2>2 DEF TakeGroup, ControlAgrees
    <2>4. ControlAgrees'
      BY <1>2, <2>2 DEF TakeGroup, ControlAgrees
    <2>5. QED
      BY <2>1, <2>3, <2>4
  <1>3. CASE StopAtGate
    <2>1. FrontFirst'
      BY <1>3, OrderKept DEF StopAtGate
    <2>2. QED
      BY <1>3, <2>1 DEF StopAtGate, ControlAgrees, taskVars
  <1>4. CASE LeaveLoop
    <2>1. FrontFirst'
      BY <1>4, OrderKept DEF LeaveLoop, runMemory
    <2>2. QED
      BY <1>4, <2>1 DEF LeaveLoop, ControlAgrees, taskVars, runMemory
  <1>5. CASE EndGroup
    <2>1. FrontFirst'
      BY <1>5, OrderKept DEF EndGroup
    <2>2. MemoryAgrees'
      BY <1>5 DEF EndGroup, Ended, taskVars
    <2>3. ControlAgrees'
      BY <1>5 DEF EndGroup, ControlAgrees
    <2>4. QED
      BY <2>1, <2>2, <2>3
  <1>6. CASE Conclude
    <2>1. FrontFirst'
      BY <1>6, OrderKept DEF Conclude, runMemory
    <2>2. Verdict = "completed" => failed \cup awaiting = {}
      BY <1>6 DEF Conclude, Verdict, ControlAgrees
    <2>3. ControlAgrees'
      BY <1>6, <2>2 DEF Conclude, ControlAgrees, runMemory
    <2>4. QED
      BY <1>6, <2>1, <2>3 DEF Conclude, taskVars, runMemory
  <1>7. ASSUME NEW t \in Task, RunTask(t) PROVE IInv'
    <2>1. FrontFirst'
      BY <1>7, OrderKept DEF RunTask, runMemory
    <2>2. ControlAgrees'
      BY <1>7 DEF RunTask, ControlAgrees, runMemory
    <2>3. MemoryAgrees'
      BY <1>7 DEF RunTask, ExecuteTask, Decline, Assign, Start, SpecialistReturns,
                  SpecialistThrows, Caught, Complete, Fail, Move, Write, runMemory
    <2>4. QED
      BY <2>1, <2>2, <2>3
  <1>8. CASE StartRun
    <2>1. FrontFirst'
      BY <1>8, OrderFresh DEF StartRun
    <2>2. QED
      BY <1>8, <2>1 DEF StartRun, FreshMemory, ControlAgrees
  <1>9. CASE RunThrows
    <2>1. FrontFirst'
      BY <1>9, OrderFresh DEF RunThrows
    <2>2. QED
      BY <1>9, <2>1 DEF RunThrows, FreshMemory, ControlAgrees
  <1>10. CASE Crash
    <2>1. FrontFirst'
      BY <1>10, OrderFresh DEF Crash
    <2>2. QED
      BY <1>10, <2>1 DEF Crash, FreshMemory, ControlAgrees
  <1>11. ASSUME NEW t \in Task, RunTaskFault(t) PROVE IInv'
    <2>1. FrontFirst'
      BY <1>11, OrderKept DEF RunTaskFault, runMemory
    <2>2. ControlAgrees'
      BY <1>11 DEF RunTaskFault, ControlAgrees, runMemory
    <2>3. MemoryAgrees'
      BY <1>11 DEF RunTaskFault, ExecuteTaskFault, CompleteThrows, Reject, Caught,
                   Move, FailedWrite, runMemory
    <2>4. QED
      BY <2>1, <2>2, <2>3
  <1>12. CASE UNCHANGED vars
    <2>1. FrontFirst'
      BY <1>12, OrderKept DEF vars, runMemory
    <2>2. QED
      BY <1>12, <2>1 DEF vars, ControlAgrees, taskVars, runMemory
  <1>13. QED
    BY <1>1, <1>2, <1>3, <1>4, <1>5, <1>6, <1>7, <1>8, <1>9, <1>10, <1>11, <1>12
    DEF Next, RunStep

\* The run's memory, the promises, the rows and the order of the groups agree
\* in every reachable state.
THEOREM Invariance == Spec => []IInv
  <1>1. QED
    BY InvariantInit, InvariantStep, TypeCorrect, PTL DEF Spec

----------------------------------------------------------------------------
(* The safety properties.                                                  *)

\* Groups execute one after another, in the order of their numbers, ungrouped
\* tasks last.
THEOREM GroupsInSequenceHolds == Spec => []GroupsInSequence
  <1>1. IInv => GroupsInSequence
    <2> SUFFICES ASSUME IInv, NEW t \in Task, NEW u \in Task, step[t] \in InFlight
                 PROVE  /\ SortKey(u) < SortKey(t) => step[u] \in Settled
                        /\ SortKey(u) > SortKey(t) => step[u] = "none"
      BY DEF GroupsInSequence
    <2>1. t \in batch /\ t \notin left
      BY DEF IInv, MemoryAgrees
    <2>2. SortKey(t) \in Int /\ SortKey(u) \in Int
      BY SortKeyType DEF IInv, TypeOK
    <2>3. CASE u \in left
      <3>1. SortKey(t) < SortKey(u) /\ step[u] = "none"
        BY <2>1, <2>3 DEF IInv, FrontFirst, MemoryAgrees
      <3>2. QED
        BY <2>2, <3>1
    <2>4. CASE u \in batch
      <3>1. SortKey(t) = SortKey(u)
        <4>1. SortKey(t) <= SortKey(u) /\ SortKey(u) <= SortKey(t)
          BY <2>1, <2>4 DEF IInv, FrontFirst, MemoryAgrees
        <4>2. QED
          BY <2>2, <4>1
      <3>2. QED
        BY <2>2, <3>1
    <2>5. CASE u \notin left /\ u \notin batch
      <3>1. SortKey(u) < SortKey(t)
        BY <2>1, <2>5 DEF IInv, FrontFirst
      <3>2. step[u] \in Settled
        BY <2>5 DEF IInv, TypeOK, TaskTypeOK, MemoryAgrees
      <3>3. QED
        BY <2>2, <3>1, <3>2
    <2>6. QED
      BY <2>3, <2>4, <2>5
  <1>2. QED
    BY <1>1, Invariance, PTL

\* No run goes past a task that awaited approval when it started.
THEOREM GateHoldsAlways == Spec => []GateHolds
  <1>1. IInv => GateHolds
    <2> SUFFICES ASSUME IInv, NEW t \in Task, NEW u \in gated,
                        SortKey(u) <= SortKey(t), step[t] # "none"
                 PROVE  FALSE
      BY DEF GateHolds
    <2>1. u \in left /\ t \notin left /\ u \in Task
      BY DEF IInv, TypeOK, MemoryAgrees, ControlAgrees
    <2>2. SortKey(t) < SortKey(u)
      BY <2>1 DEF IInv, FrontFirst
    <2>3. SortKey(t) \in Int /\ SortKey(u) \in Int
      BY <2>1, SortKeyType DEF IInv, TypeOK
    <2>4. QED
      BY <2>2, <2>3
  <1>2. QED
    BY <1>1, Invariance, PTL

\* A goal marked completed has every task completed but those whose promise was
\* rejected.
THEOREM CompletedUnlessRejectedHolds == Spec => []CompletedUnlessRejected
  <1>1. IInv => CompletedUnlessRejected
    <2> SUFFICES ASSUME IInv, pc = "ended", goalStatus = "completed", NEW t \in Task,
                        step[t] # "rejected"
                 PROVE  t \in completed /\ taskStatus[t] = "completed"
      BY DEF CompletedUnlessRejected
    <2>1. left = {} /\ batch = {} /\ failed = {}
      BY DEF IInv, ControlAgrees
    <2>2. step[t] = "completed"
      BY <2>1 DEF IInv, TypeOK, TaskTypeOK, MemoryAgrees, InFlight, Settled
    <2>3. QED
      BY <2>1, <2>2 DEF IInv, MemoryAgrees
  <1>2. QED
    BY <1>1, Invariance, PTL

----------------------------------------------------------------------------
(* Progress.                                                               *)

\* A non-empty list has a next group.
LEMMA NextGroupExists ==
  ASSUME TypeOK, left # {}
  PROVE  NextGroup # {}
  <1> DEFINE key == [t \in Task |-> SortKey(t)]
  <1>1. left \subseteq Task /\ \A t \in left : key[t] \in Nat
    BY SortKeyType DEF TypeOK
  <1>2. PICK t \in left : \A u \in left : key[t] <= key[u]
    BY <1>1, LeastRank
  <1>3. QED
    BY <1>1, <1>2 DEF NextGroup

\* What a task has left is a natural number.
LEMMA StepsLeftType ==
  TaskTypeOK => \A t \in Task : StepsLeft(t) \in Nat
  BY TaskAssumption DEF TaskTypeOK, StepsLeft, InFlight, Settled

\* Each step of a task, a failing one included, leaves it fewer, and every other
\* task as many.
LEMMA StepsLeftFalls ==
  ASSUME TaskTypeOK, NEW t \in Task, ExecuteTask(t) \/ ExecuteTaskFault(t)
  PROVE  /\ StepsLeft(t)' < StepsLeft(t) /\ StepsLeft(t)' \in Nat
         /\ \A u \in Task \ {t} : StepsLeft(u)' = StepsLeft(u)
  <1> USE TaskAssumption DEF TaskTypeOK, StepsLeft, InFlight, Settled
  <1>1. CASE ExecuteTask(t)
    BY <1>1 DEF ExecuteTask, Decline, Assign, Start, SpecialistReturns, SpecialistThrows,
                Caught, Complete, Fail, Move
  <1>2. CASE ExecuteTaskFault(t)
    BY <1>2 DEF ExecuteTaskFault, CompleteThrows, Reject, Caught, Move
  <1>3. QED
    BY <1>1, <1>2

\* Remaining at a task is what that task has left.
LEMMA RemainingOfTasks ==
  /\ 0 \in 0..N
  /\ \A u \in 0..N : u # 0 => u \in Task
  /\ \A u \in Task : /\ u \in 0..N /\ u # 0
                     /\ Remaining[u] = StepsLeft(u)
                     /\ Remaining'[u] = StepsLeft(u)'
  <1>1. 0 \in 0..N /\ \A u \in 0..N : u # 0 => u \in Task
    BY TaskAssumption DEF Task
  <1>2. \A u \in Task : u \in 0..N /\ u # 0
    BY TaskAssumption DEF Task
  <1>3. \A u \in Task : Remaining[u] = StepsLeft(u) /\ Remaining'[u] = StepsLeft(u)'
    BY <1>2 DEF Remaining
  <1>4. QED
    BY <1>1, <1>2, <1>3

\* A step within a group makes one task fall, and nothing rise.
LEMMA TaskAdvances ==
  ASSUME IInv, NEW t \in Task, RunTask(t) \/ RunTaskFault(t)
  PROVE  Advances
  <1>1. /\ StepsLeft(t)' < StepsLeft(t) /\ StepsLeft(t) \in Nat /\ StepsLeft(t)' \in Nat
        /\ \A u \in Task \ {t} : StepsLeft(u)' = StepsLeft(u) /\ StepsLeft(u) \in Nat
    BY StepsLeftFalls, StepsLeftType DEF RunTask, RunTaskFault, IInv, TypeOK
  <1>2. left' = left /\ Remaining'[0] = Remaining[0]
    BY RemainingOfTasks DEF RunTask, RunTaskFault, runMemory, Remaining
  <1>3. Remaining'[t] < Remaining[t] /\ Remaining'[t] # Remaining[t]
    BY <1>1, RemainingOfTasks
  <1>4. \A u \in Task : Remaining'[u] <= Remaining[u]
    BY <1>1, RemainingOfTasks
  <1>5. Remaining[0] \in Nat
    BY RemainingOfTasks DEF Remaining
  <1>6. \A u \in 0..N : Remaining'[u] <= Remaining[u]
    BY <1>2, <1>4, <1>5, RemainingOfTasks
  <1>7. QED
    BY <1>2, <1>3, <1>6 DEF Advances

\* A step of the run itself between groups makes what it has left fall.
LEMMA ControlAdvances ==
  ASSUME IInv, ReadApprovals \/ StopAtGate \/ LeaveLoop \/ EndGroup \/ Conclude
  PROVE  Advances
  <1>1. left' = left /\ step' = step /\ retries' = retries
    BY DEF ReadApprovals, StopAtGate, LeaveLoop, EndGroup, Conclude, taskVars, runMemory
  <1>2. \A t \in Task : StepsLeft(t)' = StepsLeft(t) /\ StepsLeft(t) \in Nat
    BY <1>1, StepsLeftType DEF IInv, TypeOK, StepsLeft
  <1>3. Remaining'[0] < Remaining[0]
    BY RemainingOfTasks
    DEF ReadApprovals, StopAtGate, LeaveLoop, EndGroup, Conclude, Remaining
  <1>4. \A t \in Task : Remaining'[t] <= Remaining[t]
    BY <1>2, RemainingOfTasks
  <1>5. Remaining[0] \in Nat /\ Remaining'[0] \in Nat
    BY RemainingOfTasks DEF Remaining
  <1>6. \A t \in 0..N : Remaining'[t] <= Remaining[t]
    BY <1>3, <1>4, <1>5, RemainingOfTasks
  <1>7. Remaining' # Remaining
    BY <1>3, <1>5
  <1>8. QED
    BY <1>1, <1>6, <1>7 DEF Advances

\* Every step of a run under way ends it or brings it closer to its end: each
\* group is cut off the list once, and in between everything counts down.
THEOREM OnlyForwardHolds == Spec => OnlyForward
  <1>1. IInv /\ [Next]_vars =>
          [pc \notin {"idle", "ended"} => pc' = "idle" \/ Advances]_vars
    <2> SUFFICES ASSUME IInv, Next, pc \notin {"idle", "ended"}, pc' # "idle"
                 PROVE  Advances
      OBVIOUS
    <2>1. CASE TakeGroup
      BY <2>1, NextGroupExists DEF TakeGroup, NextGroup, Advances, IInv
    <2>2. CASE ReadApprovals \/ StopAtGate \/ LeaveLoop \/ EndGroup \/ Conclude
      BY <2>2, ControlAdvances
    <2>3. CASE \E t \in Task : RunTask(t) \/ RunTaskFault(t)
      BY <2>3, TaskAdvances
    <2>4. QED
      BY <2>1, <2>2, <2>3 DEF Next, RunStep, StartRun, RunThrows, Crash
  <1>2. QED
    BY <1>1, Invariance, PTL DEF Spec, OnlyForward

\* Nothing that a run waits for is out of its own hands.
THEOREM GoesOnHolds == Spec => []GoesOn
  <1>1. IInv => GoesOn
    <2> SUFFICES ASSUME IInv PROVE GoesOn
      OBVIOUS
    <2>1. \A t \in batch : step[t] \in InFlight \cup Settled
      BY DEF IInv, TypeOK, TaskTypeOK, MemoryAgrees
    <2>2. ASSUME NextGroup \cap gated # {}
          PROVE  \E t \in NextGroup \cap gated : \A u \in NextGroup \cap gated : t <= u
      <3>1. gated \subseteq Task
        BY DEF IInv, TypeOK
      <3>2. \A t \in Task : t \in Nat
        BY TaskAssumption DEF Task
      <3>3. NextGroup \cap gated \in SUBSET Nat
        BY <3>1, <3>2
      <3>4. QED
        BY <2>2, <3>3, LeastNumber
    <2>3. left # {} => NextGroup # {}
      BY NextGroupExists DEF IInv
    <2>4. QED
      BY <2>1, <2>2, <2>3 DEF GoesOn
  <1>2. QED
    BY <1>1, Invariance, PTL

----------------------------------------------------------------------------
(* Refinement: the dispatcher implements the execution group by group.     *)

\* The next group is everything on the list with the key of any of its tasks,
\* and whatever is off the list has a smaller key.
LEMMA NextGroupIsGroup ==
  ASSUME IInv, NEW first \in NextGroup, NEW t \in Task
  PROVE  /\ t \in NextGroup <=> SortKey(t) = SortKey(first)
         /\ t \in left <=> SortKey(first) <= SortKey(t)
         /\ SortKey(t) \in Nat /\ SortKey(first) \in Nat
  <1>1. /\ first \in left /\ first \in Task
        /\ \A u \in left : SortKey(first) <= SortKey(u)
    BY DEF NextGroup, IInv, TypeOK
  <1>2. \A u \in Task : SortKey(u) \in Nat
    BY SortKeyType DEF IInv, TypeOK
  <1>3. t \notin left => SortKey(t) < SortKey(first)
    BY <1>1 DEF IInv, FrontFirst
  <1>4. t \in left <=> SortKey(first) <= SortKey(t)
    BY <1>1, <1>2, <1>3
  <1>5. t \in NextGroup => SortKey(t) = SortKey(first)
    <2>1. t \in NextGroup => t \in left /\ SortKey(t) <= SortKey(first)
      BY <1>1 DEF NextGroup
    <2>2. QED
      BY <1>1, <1>2, <2>1
  <1>6. SortKey(t) = SortKey(first) => t \in NextGroup
    BY <1>1, <1>2, <1>4 DEF NextGroup
  <1>7. QED
    BY <1>1, <1>2, <1>4, <1>5, <1>6

\* A step that keeps the plan, the gates and the promises changes nothing that
\* GroupOrder sees.
LEMMA GroupsStutter ==
  ASSUME group' = group, gated' = gated, step' = step
  PROVE  UNCHANGED <<[t \in Task |-> SortKey(t)], gated, [t \in Task |-> StateOf(t)]>>
  BY DEF SortKey, StateOf

\* Steps that keep the plan keep its sort keys as a whole.
LEMMA KeysFixed ==
  group' = group => [t \in Task |-> SortKey(t)]' = [t \in Task |-> SortKey(t)]
  BY DEF SortKey

\* Starting, throwing or dying forgets every verdict and every gate.
LEMMA GroupsFresh ==
  ASSUME FreshMemory, group' = group
  PROVE  Groups!Next
  <1>1. \A t \in Task : StateOf(t)' = "waiting"
    BY DEF FreshMemory, StateOf
  <1>2. [t \in Task |-> StateOf(t)]' = [t \in Task |-> "waiting"]
    BY <1>1
  <1>3. gated' = {}
    BY DEF FreshMemory
  <1>4. QED
    BY <1>2, <1>3, KeysFixed DEF Groups!Next, Groups!StartOver

\* Taking a group off the list begins it.
LEMMA TakeGroupBegins ==
  ASSUME IInv, TakeGroup
  PROVE  Groups!Next
  <1> DEFINE key == [t \in Task |-> SortKey(t)]
             state == [t \in Task |-> StateOf(t)]
  <1>1. PICK first \in NextGroup : first \in Task
    BY NextGroupExists DEF TakeGroup, NextGroup, IInv, TypeOK
  <1>2. ASSUME NEW t \in Task
        PROVE  /\ key[t] < key[first] => state[t] \in {"completed", "failed", "rejected"}
               /\ key[t] = key[first] => state[t] = "waiting" /\ t \notin gated
               /\ key[t] > key[first] => state[t] = "waiting"
    <2>1. /\ t \in NextGroup <=> key[t] = key[first]
          /\ t \in left <=> key[first] <= key[t]
          /\ key[t] \in Nat /\ key[first] \in Nat
      BY <1>1, NextGroupIsGroup
    <2>2. t \in left => state[t] = "waiting"
      BY DEF IInv, MemoryAgrees, StateOf
    <2>3. t \notin left => state[t] \in {"completed", "failed", "rejected"}
      BY DEF IInv, TypeOK, TaskTypeOK, MemoryAgrees, ControlAgrees, TakeGroup, StateOf, InFlight,
             Settled
    <2>4. t \in NextGroup => t \notin gated
      BY DEF TakeGroup
    <2> HIDE DEF key, state
    <2>5. QED
      BY <2>1, <2>2, <2>3, <2>4
  <1>3. \A t \in Task : StateOf(t)' = IF key[t] = key[first] THEN "working" ELSE state[t]
    <2>1. TAKE t \in Task
    <2>2. t \in NextGroup <=> key[t] = key[first]
      BY <1>1, NextGroupIsGroup
    <2>3. StateOf(t)' = IF t \in NextGroup THEN "working" ELSE state[t]
      BY DEF TakeGroup, StateOf, InFlight
    <2> HIDE DEF key, state
    <2>4. QED
      BY <2>2, <2>3
  <1>4. state' = [t \in Task |-> IF key[t] = key[first] THEN "working" ELSE state[t]]
    BY <1>3
  <1>5. gated' = gated /\ key' = key
    BY KeysFixed DEF TakeGroup
  <1>6. Groups!Begin(first)
    BY <1>2, <1>4, <1>5 DEF Groups!Begin
  <1>7. QED
    BY <1>1, <1>5, <1>6 DEF Groups!Next

\* A step of a task settles it or is not seen.
LEMMA TaskSettles ==
  ASSUME IInv, NEW t \in Task, RunTask(t) \/ RunTaskFault(t)
  PROVE  [Groups!Next]_<<[u \in Task |-> SortKey(u)], gated, [u \in Task |-> StateOf(u)]>>
  <1> DEFINE state == [u \in Task |-> StateOf(u)]
  <1> USE DEF IInv, TypeOK, TaskTypeOK, InFlight, Settled
  <1>1. group' = group /\ gated' = gated
    BY DEF RunTask, RunTaskFault, runMemory
  <1>2. step[t] \in InFlight
    BY DEF RunTask, RunTaskFault, ExecuteTask, ExecuteTaskFault, Decline, Assign, Start,
           SpecialistReturns, SpecialistThrows, Complete, Fail, CompleteThrows, Reject
  <1>3. PICK s \in InFlight \cup Settled : step' = [step EXCEPT ![t] = s]
    BY DEF RunTask, RunTaskFault, ExecuteTask, ExecuteTaskFault, Decline, Assign, Start,
           SpecialistReturns, SpecialistThrows, Caught, Complete, Fail, CompleteThrows,
           Reject, Move
  <1>4. CASE s \in InFlight
    <2>1. \A u \in Task : StateOf(u)' = StateOf(u)
      BY <1>2, <1>3, <1>4 DEF StateOf
    <2>2. QED
      BY <1>1, <2>1, KeysFixed
  <1>5. CASE s \in Settled
    <2>1. \A u \in Task : StateOf(u)' = IF u = t THEN s ELSE StateOf(u)
      BY <1>2, <1>3, <1>5 DEF StateOf
    <2>2. state' = [state EXCEPT ![t] = s]
      BY <2>1
    <2>3. state[t] = "working"
      BY <1>2 DEF StateOf
    <2>4. Groups!Settle(t)
      BY <1>1, <1>5, <2>2, <2>3 DEF Groups!Settle
    <2>5. QED
      BY <1>1, <2>4, KeysFixed DEF Groups!Next
  <1>6. QED
    BY <1>3, <1>4, <1>5

\* Every step of the dispatcher is a step of GroupOrder or changes nothing that
\* it sees.
LEMMA GroupsStep ==
  IInv /\ [Next]_vars =>
    [Groups!Next]_<<[t \in Task |-> SortKey(t)], gated, [t \in Task |-> StateOf(t)]>>
  <1> SUFFICES ASSUME IInv, [Next]_vars
               PROVE  [Groups!Next]_<<[t \in Task |-> SortKey(t)], gated,
                                      [t \in Task |-> StateOf(t)]>>
    OBVIOUS
  <1>1. CASE TakeGroup
    BY <1>1, TakeGroupBegins
  <1>2. CASE ReadApprovals
    <2>1. \A t \in Task : StateOf(t) = "waiting" /\ StateOf(t)' = StateOf(t)
      BY <1>2 DEF ReadApprovals, IInv, MemoryAgrees, ControlAgrees, StateOf, taskVars
    <2>2. group' = group /\ gated' \in SUBSET Task
      BY <1>2 DEF ReadApprovals
    <2>3. Groups!Gate
      BY <2>1, <2>2 DEF Groups!Gate
    <2>4. QED
      BY <2>2, <2>3, KeysFixed DEF Groups!Next
  <1>3. ASSUME NEW t \in Task, RunTask(t) \/ RunTaskFault(t)
        PROVE  [Groups!Next]_<<[u \in Task |-> SortKey(u)], gated, [u \in Task |-> StateOf(u)]>>
    BY <1>3, TaskSettles
  <1>4. CASE StartRun \/ RunThrows \/ Crash
    BY <1>4, GroupsFresh DEF StartRun, RunThrows, Crash
  <1>5. CASE StopAtGate \/ LeaveLoop \/ EndGroup \/ Conclude \/ UNCHANGED vars
    BY <1>5, GroupsStutter DEF StopAtGate, LeaveLoop, EndGroup, Conclude, vars, taskVars, runMemory
  <1>6. QED
    BY <1>1, <1>2, <1>3, <1>4, <1>5 DEF Next, RunStep

\* runGoalGrouped implements GroupOrder: groups begin as a whole and in order,
\* never one with a gated task or anything after it, and a verdict stands until
\* the goal is run again.
THEOREM Refinement == Spec => ImplementsGroups
  <1>1. Init => Groups!Init
    BY DEF Init, TaskInit, Groups!Init, StateOf
  <1>2. QED
    BY <1>1, GroupsStep, Invariance, PTL DEF Spec, ImplementsGroups, Groups!Spec
=============================================================================
