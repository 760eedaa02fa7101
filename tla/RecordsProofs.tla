--------------------------- MODULE RecordsProofs ---------------------------
(***************************************************************************)
(* Proofs about plans and deployments.  For every plan of every size, the  *)
(* validation refuses exactly the plans that no order of execution exists  *)
(* for, and whatever a run reads while one is being stored is sound.  For  *)
(* every number of deployments, attempts and incidents, a verification     *)
(* ends only with a verdict.                                               *)
(***************************************************************************)
EXTENDS Records, OrderLemmas

\* Every set of tasks has at most N members.
LEMMA TaskSetsFinite ==
  ASSUME NEW S \in SUBSET Task
  PROVE  IsFiniteSet(S) /\ Cardinality(S) \in 0..N
  BY PlanAssumption, SegmentSetsFinite DEF Task

\* The plan has N tasks.
LEMMA TaskCardinality == IsFiniteSet(Task) /\ Cardinality(Task) = N
  <1>1. IsFiniteSet(1..N) /\ Cardinality(1..N) = IF 1 > N THEN 0 ELSE N - 1 + 1
    BY PlanAssumption, FS_Interval
  <1>2. QED
    BY <1>1, PlanAssumption DEF Task

\* The in-degree of a task is zero exactly when nothing is left to wait for.
LEMMA NothingLeft ==
  ASSUME NEW S \in SUBSET Task
  PROVE  Cardinality(S) = 0 <=> S = {}
  BY TaskSetsFinite, FS_EmptySet

\* The invariant holds before the first index is read.
LEMMA GraphInvInit == GraphInit => GraphInv
  <1> SUFFICES ASSUME GraphInit PROVE GraphInv
    OBVIOUS
  <1>1. Visited = {}
    BY DEF GraphInit, Visited
  <1>2. visited = Cardinality(Visited)
    BY <1>1, FS_EmptySet DEF GraphInit
  <1>3. QED
    BY <1>1, <1>2, PlanAssumption
    DEF GraphInit, GraphInv, GraphTypeOK, InDegreeExact, VisitsInOrder, StageAgrees, Scanned

\* Neither reading the edges, a visit nor the decision leaves the invariant.
LEMMA GraphInvStep == GraphInv /\ [GraphNext]_graphVars => GraphInv'
  <1> SUFFICES ASSUME GraphInv, [GraphNext]_graphVars PROVE GraphInv'
    OBVIOUS
  <1> USE PlanAssumption DEF GraphInv, GraphTypeOK, VisitsInOrder, StageAgrees, Scanned
  <1>1. CASE ReadEdges
    <2>1. Visited = {} /\ Visited' = Visited
      BY <1>1 DEF ReadEdges, Visited
    <2>2. CASE verdict' = "invalid"
      BY <1>1, <2>1, <2>2 DEF ReadEdges, InDegreeExact
    <2>3. CASE verdict' = "visiting"
      <3>1. /\ \A t \in Task : dependsOn[t] \subseteq Task \ {t}
            /\ inDegree' = [t \in Task |-> Cardinality(dependsOn[t])]
            /\ queue' = {t \in Task : dependsOn[t] = {}}
            /\ dependsOn' = dependsOn /\ visited' = visited /\ position' = position
        BY <1>1, <2>3 DEF ReadEdges, InRange
      <3>2. \A t \in Task : Cardinality(dependsOn[t]) \in Nat
        BY <3>1, TaskSetsFinite
      <3>3. InDegreeExact'
        BY <2>1, <3>1 DEF InDegreeExact
      <3>4. GraphTypeOK'
        BY <2>3, <3>1, <3>2
      <3>5. QED
        BY <2>1, <2>3, <3>1, <3>3, <3>4 DEF InRange
    <2>4. QED
      BY <1>1, <2>2, <2>3 DEF ReadEdges
  <1>2. ASSUME NEW node \in Task, Visit(node) PROVE GraphInv'
    <2>1. /\ verdict = "visiting" /\ verdict' = verdict
          /\ dependsOn' = dependsOn
          /\ visited' = visited + 1
          /\ position' = [position EXCEPT ![node] = visited + 1]
      BY <1>2 DEF Visit
    <2>2. /\ node \in Task \ Visited /\ dependsOn[node] \subseteq Visited
          /\ \A t \in Task : inDegree[t] = Cardinality(dependsOn[t] \ Visited)
          /\ queue = {t \in Task \ Visited : dependsOn[t] \subseteq Visited}
          /\ \A t \in Task : dependsOn[t] \subseteq Task \ {t}
      BY <1>2, <2>1 DEF Visit, InDegreeExact, InRange
    <2>3. Visited' = Visited \cup {node}
      BY <2>1, <2>2 DEF Visited
    <2>4. Visited \subseteq Task
      BY DEF Visited
    <2>5. visited' = Cardinality(Visited')
      BY <2>1, <2>2, <2>3, <2>4, TaskSetsFinite, FS_AddElement
    <2>6. visited' \in 0..N
      BY <2>2, <2>3, <2>4, <2>5, TaskSetsFinite
    <2>7. \A t \in Task : inDegree'[t] = Cardinality(dependsOn[t] \ Visited')
      <3>1. SUFFICES ASSUME NEW t \in Task
                     PROVE  inDegree'[t] = Cardinality(dependsOn[t] \ Visited')
        OBVIOUS
      <3>2. inDegree'[t] = IF node \in dependsOn[t] THEN inDegree[t] - 1 ELSE inDegree[t]
        BY <1>2 DEF Visit
      <3>3. dependsOn[t] \ Visited' = (dependsOn[t] \ Visited) \ {node}
        BY <2>3
      <3>4. IsFiniteSet(dependsOn[t] \ Visited)
        BY <2>2, TaskSetsFinite
      <3>5. Cardinality((dependsOn[t] \ Visited) \ {node}) =
              IF node \in dependsOn[t] \ Visited
              THEN Cardinality(dependsOn[t] \ Visited) - 1 ELSE Cardinality(dependsOn[t] \ Visited)
        BY <3>4, FS_RemoveElement
      <3>6. QED
        BY <2>2, <3>2, <3>3, <3>5
    <2>8. queue' = {t \in Task \ Visited' : dependsOn[t] \subseteq Visited'}
      <3>1. queue' = (queue \ {node}) \cup {t \in Task : node \in dependsOn[t] /\ inDegree[t] = 1}
        BY <1>2 DEF Visit
      <3>2. ASSUME NEW t \in Task, node \in dependsOn[t]
            PROVE  inDegree[t] = 1 <=> dependsOn[t] \subseteq Visited'
        <4>1. inDegree'[t] = inDegree[t] - 1
          BY <1>2, <3>2 DEF Visit
        <4>2. Cardinality(dependsOn[t] \ Visited') = 0 <=> dependsOn[t] \ Visited' = {}
          BY <2>2, NothingLeft
        <4>3. QED
          BY <2>7, <4>1, <4>2
      <3>3. \A t \in Visited : node \notin dependsOn[t]
        BY <2>2
      <3>4. QED
        BY <2>2, <2>3, <2>4, <3>1, <3>2, <3>3
    <2>9. InDegreeExact'
      BY <2>1, <2>7, <2>8 DEF InDegreeExact
    <2>10. VisitsInOrder'
      <3>1. \A t \in Visited : node \notin dependsOn[t] /\ t # node
        BY <2>2
      <3>2. \A t \in Visited : position'[t] = position[t]
        BY <2>1, <3>1
      <3>3. position'[node] = visited + 1
        BY <2>1
      <3>4. \A t \in Task : position'[t] <= visited'
        BY <2>1
      <3>5. \A d \in dependsOn[node] : position'[d] < position'[node]
        BY <2>1, <2>2, <2>4, <3>2, <3>3
      <3>6. \A t \in Visited : \A d \in dependsOn[t] : position'[d] < position'[t]
        BY <2>2, <3>1, <3>2
      <3>7. QED
        BY <2>1, <2>2, <2>3, <2>5, <3>4, <3>5, <3>6
    <2>11. GraphTypeOK'
      <3>1. inDegree' \in [Task -> Nat]
        <4>1. \A t \in Task : inDegree'[t] \in Nat
          <5>1. TAKE t \in Task
          <5>2. dependsOn[t] \ Visited' \in SUBSET Task
            BY <2>2
          <5>3. Cardinality(dependsOn[t] \ Visited') \in Nat
            BY <5>2, TaskSetsFinite
          <5>4. QED
            BY <2>7, <5>3
        <4>2. QED
          BY <1>2, <4>1 DEF Visit
      <3>2. position' \in [Task -> 0..N]
        BY <2>1, <2>6
      <3>3. QED
        BY <2>1, <2>6, <2>8, <3>1, <3>2
    <2>12. StageAgrees'
      BY <2>1 DEF InRange
    <2>13. QED
      BY <2>9, <2>10, <2>11, <2>12
  <1>3. CASE Decide
    <2>1. Visited' = Visited
      BY <1>3 DEF Decide, Visited
    <2>2. InDegreeExact'
      BY <1>3, <2>1 DEF Decide, InDegreeExact
    <2>3. QED
      BY <1>3, <2>1, <2>2 DEF Decide, InRange
  <1>4. CASE UNCHANGED graphVars
    BY <1>4 DEF graphVars, InDegreeExact, Visited, InRange
  <1>5. QED
    BY <1>1, <1>2, <1>3, <1>4 DEF GraphNext

\* At every moment of the validation the counts, the queue and the visits agree.
THEOREM GraphInvariance == GraphSpec => []GraphInv
  BY GraphInvInit, GraphInvStep, PTL DEF GraphSpec

\* Accepted plans are those with indices in range and no cycle: the order of
\* the visits is an order of execution; and among the nodes that were never
\* visited each depends on another one, which no numbering allows.
LEMMA VerdictFromCounts == GraphInv => VerdictExact
  <1> SUFFICES ASSUME GraphInv PROVE VerdictExact
    OBVIOUS
  <1> USE PlanAssumption DEF GraphInv, GraphTypeOK, VisitsInOrder, StageAgrees, Scanned
  <1>1. ASSUME verdict = "accepted"
        PROVE  (\A t \in Task : dependsOn[t] \subseteq Task) /\ Acyclic(dependsOn, Task)
    <2>1. Visited \subseteq Task /\ Cardinality(Task) = N /\ IsFiniteSet(Task)
      BY TaskCardinality DEF Visited
    <2>2. Visited = Task
      BY <1>1, <2>1, FS_Subset
    <2>3. \A t \in Task : dependsOn[t] \subseteq Task
      BY <1>1 DEF InRange
    <2>4. position \in [Task -> Task]
      <3>1. \A t \in Task : position[t] \in 0..N /\ position[t] # 0
        BY <2>2 DEF Visited
      <3>2. \A t \in Task : position[t] \in Task
        BY <3>1 DEF Task
      <3>3. QED
        BY <3>2
    <2>5. \A t \in Task : \A d \in dependsOn[t] \cap Task : position[d] < position[t]
      BY <2>2
    <2>6. QED
      BY <2>3, <2>4, <2>5 DEF Acyclic
  <1>2. ASSUME verdict = "cycle", Acyclic(dependsOn, Task) PROVE FALSE
    <2> DEFINE U == Task \ Visited
    <2>1. PICK rank \in [Task -> Task] :
                 \A t \in Task : \A d \in dependsOn[t] \cap Task : rank[d] < rank[t]
      BY <1>2 DEF Acyclic
    <2>2. U # {}
      <3>1. SUFFICES ASSUME U = {} PROVE FALSE
        OBVIOUS
      <3>2. Visited = Task
        BY <3>1 DEF Visited
      <3>3. QED
        BY <1>2, <3>2, TaskCardinality
    <2>3. \A t \in U : ~(dependsOn[t] \subseteq Visited)
      BY <1>2 DEF InDegreeExact
    <2>4. \A t \in U : rank[t] \in Nat
      BY <2>1 DEF Task
    <2>5. PICK t \in U : \A u \in U : rank[t] <= rank[u]
      BY <2>2, <2>4, LeastRank
    <2>6. PICK d \in dependsOn[t] : d \in U
      BY <1>2, <2>3 DEF InRange
    <2>7. rank[d] < rank[t] /\ rank[t] <= rank[d] /\ rank[t] \in Nat /\ rank[d] \in Nat
      BY <2>1, <2>4, <2>5, <2>6
    <2>8. QED
      BY <2>7
  <1>3. QED
    BY <1>1, <1>2 DEF VerdictExact

\* The validation refuses exactly the plans nothing could execute.
THEOREM VerdictIsExact == GraphSpec => []VerdictExact
  BY GraphInvariance, VerdictFromCounts, PTL

\* The decrements of the in-degrees never lose or double an edge.
THEOREM InDegreeIsExact == GraphSpec => []InDegreeExact
  BY GraphInvariance, PTL DEF GraphInv

----------------------------------------------------------------------------
(* Storing the plan.                                                       *)

\* What a conversation has written is what it has come to: nothing before
\* the plan was accepted, and no dependency before every task.
WritesAgree ==
  \A p \in Planner :
    /\ goal[p] # "none" => at[p] # "start"
    /\ at[p] # "start" => verdict = "accepted"
    /\ at[p] = "deps" => created[p] = N
    /\ \A t \in Task : stored[p][t] # {} =>
         at[p] # "start" /\ created[p] = N /\ stored[p][t] = dependsOn[t]

\* The same of what a run has read.
ReadingsAgree ==
  \A t \in Task : seen.deps[t] # {} =>
    verdict = "accepted" /\ seen.tasks = Task /\ seen.deps[t] = dependsOn[t]

\* Inductive: no conversation and no run leaves it.
StoreInv == GraphInv /\ StoreTypeOK /\ WritesAgree /\ ReadingsAgree

\* Nothing is stored at first.
LEMMA StoreInvInit == Init => StoreInv
  BY GraphInvInit, PlanAssumption
  DEF Init, StoreInv, StoreTypeOK, GraphInv, WritesAgree, ReadingsAgree, NoDeps

\* The validation changes neither a row nor a plan, and takes no verdict back.
LEMMA GraphKeepsPlans ==
  ASSUME StoreInv, GraphNext, UNCHANGED storeVars
  PROVE  StoreInv'
  <1>1. GraphInv'
    BY GraphInvStep DEF StoreInv
  <1>2. dependsOn' = dependsOn /\ (verdict = "accepted" => FALSE)
    BY DEF GraphNext, ReadEdges, Visit, Decide
  <1>3. StoreTypeOK'
    BY <1>1 DEF StoreInv, StoreTypeOK, GraphInv, storeVars
  <1>4. WritesAgree' /\ ReadingsAgree'
    BY <1>2 DEF StoreInv, WritesAgree, ReadingsAgree, storeVars
  <1>5. QED
    BY <1>1, <1>3, <1>4 DEF StoreInv

\* No conversation leaves the invariant, wherever it dies, and no run that
\* reads what it has written.
LEMMA PlannerKeeps ==
  ASSUME NEW p \in Planner, StoreInv,
         \/ FindExisting(p) \/ CreateGoal(p) \/ SetStatus(p)
         \/ CreateTask(p) \/ SetDependencies(p)
         \/ Die(p) \/ Approve(p) \/ Read(p)
  PROVE  StoreInv'
  <1> USE PlanAssumption DEF Goto, graphVars, storeVars
  <1>1. UNCHANGED graphVars
    BY DEF FindExisting, CreateGoal, SetStatus, CreateTask, SetDependencies, Die, Approve, Read
  <1>2. GraphInv'
    BY <1>1, GraphInvStep DEF StoreInv
  <1>3. GraphTypeOK'
    BY <1>2 DEF GraphInv
  <1>4. CASE FindExisting(p) \/ CreateGoal(p) \/ SetStatus(p) \/ Die(p) \/ Approve(p)
    <2>1. created' = created /\ stored' = stored /\ seen' = seen
      BY <1>4 DEF FindExisting, CreateGoal, SetStatus, Die, Approve
    <2>2. at' \in [Planner -> {"start", "goal", "status", "tasks", "deps", "done", "existing", "dead"}]
          /\ goal' \in [Planner -> {"none", "draft", "proposed", "active"}]
      BY <1>4 DEF FindExisting, CreateGoal, SetStatus, Die, Approve, StoreInv, StoreTypeOK
    <2>3. \A q \in Planner : /\ at'[q] = "start" => at[q] = "start"
                             /\ at[q] = "start" /\ at'[q] # "start" => verdict = "accepted"
                             /\ at'[q] = "deps" => at[q] = "deps"
                             /\ goal'[q] # "none" => goal[q] # "none" \/ at'[q] # "start"
      BY <1>4, <2>2 DEF FindExisting, CreateGoal, SetStatus, Die, Approve, StoreInv, StoreTypeOK
    <2>4. \A q \in Planner : at[q] # "start" => at'[q] # "start"
      BY <2>3
    <2>5. WritesAgree' /\ ReadingsAgree'
      BY <1>1, <2>1, <2>3, <2>4 DEF StoreInv, WritesAgree, ReadingsAgree
    <2>6. StoreTypeOK'
      BY <1>3, <2>1, <2>2 DEF StoreInv, StoreTypeOK
    <2>7. QED
      BY <1>2, <2>5, <2>6 DEF StoreInv
  <1>5. CASE CreateTask(p)
    <2>1. /\ goal' = goal /\ stored' = stored /\ seen' = seen
          /\ at[p] = "tasks"
          /\ \A q \in Planner \ {p} : at'[q] = at[q] /\ created'[q] = created[q]
          /\ at' \in [Planner -> {"start", "goal", "status", "tasks", "deps", "done", "existing", "dead"}]
          /\ at'[p] # "start"
          /\ created' \in [Planner -> 0..N]
          /\ created[p] = N => created' = created
          /\ at'[p] = "deps" => created'[p] = N
      <3>1. /\ at \in [Planner -> {"start", "goal", "status", "tasks", "deps", "done", "existing", "dead"}]
            /\ created \in [Planner -> 0..N]
        BY DEF StoreInv, StoreTypeOK
      <3>2. created[p] \in 0..N
        BY <3>1
      <3>3. CASE created[p] < N
        BY <1>5, <3>1, <3>2, <3>3 DEF CreateTask
      <3>4. CASE created[p] = N
        BY <1>5, <3>1, <3>2, <3>4 DEF CreateTask
      <3>5. QED
        BY <3>2, <3>3, <3>4
    <2>2. WritesAgree' /\ ReadingsAgree'
      BY <1>1, <2>1 DEF StoreInv, WritesAgree, ReadingsAgree
    <2>3. QED
      BY <1>2, <1>3, <2>1, <2>2 DEF StoreInv, StoreTypeOK
  <1>6. CASE SetDependencies(p)
    <2>1. /\ goal' = goal /\ created' = created /\ seen' = seen
          /\ at[p] = "deps"
          /\ at' \in [Planner -> {"start", "goal", "status", "tasks", "deps", "done", "existing", "dead"}]
          /\ \A q \in Planner : at'[q] = at[q] \/ (q = p /\ at'[q] = "done")
          /\ \A q \in Planner, t \in Task :
               stored'[q][t] = stored[q][t] \/ (q = p /\ stored'[q][t] = dependsOn[t])
      BY <1>6 DEF SetDependencies, Undeclared, StoreInv, StoreTypeOK
    <2>2. \A t \in Task : dependsOn[t] \in SUBSET Task
      BY <2>1 DEF StoreInv, WritesAgree, GraphInv, StageAgrees, Scanned, InRange
    <2>3. stored' \in [Planner -> [Task -> SUBSET Task]]
      BY <1>6, <2>2 DEF SetDependencies, Undeclared, StoreInv, StoreTypeOK
    <2>4. WritesAgree' /\ ReadingsAgree'
      BY <1>1, <2>1 DEF StoreInv, WritesAgree, ReadingsAgree
    <2>5. QED
      BY <1>2, <1>3, <2>1, <2>3, <2>4 DEF StoreInv, StoreTypeOK
  <1>7. CASE Read(p)
    <2>1. /\ at' = at /\ goal' = goal /\ created' = created /\ stored' = stored
          /\ seen' = [tasks |-> 1..created[p], deps |-> stored[p]]
      BY <1>7 DEF Read
    <2>2. seen' \in [tasks : SUBSET Task, deps : [Task -> SUBSET Task]]
      <3>1. created[p] \in 0..N /\ stored[p] \in [Task -> SUBSET Task]
        BY DEF StoreInv, StoreTypeOK
      <3>2. 1..created[p] \subseteq Task
        BY <3>1 DEF Task
      <3>3. QED
        BY <2>1, <3>1, <3>2
    <2>3. WritesAgree'
      BY <1>1, <2>1 DEF StoreInv, WritesAgree
    <2>4. ReadingsAgree'
      BY <1>1, <2>1 DEF StoreInv, WritesAgree, ReadingsAgree, Task
    <2>5. QED
      BY <1>2, <1>3, <2>1, <2>2, <2>3, <2>4 DEF StoreInv, StoreTypeOK
  <1>8. QED
    BY <1>4, <1>5, <1>6, <1>7

\* What has been written agrees with the plan, whoever writes and dies.
THEOREM StoreInvariance == Spec => []StoreInv
  <1>1. StoreInv /\ [Next]_vars => StoreInv'
    <2> SUFFICES ASSUME StoreInv, [Next]_vars PROVE StoreInv'
      OBVIOUS
    <2>1. CASE GraphNext /\ UNCHANGED storeVars
      BY <2>1, GraphKeepsPlans
    <2>2. CASE UNCHANGED vars
      <3>1. GraphInv'
        BY <2>2, GraphInvStep DEF StoreInv, vars
      <3>2. StoreTypeOK'
        BY <2>2, <3>1 DEF StoreInv, StoreTypeOK, GraphInv, vars, storeVars
      <3>3. WritesAgree' /\ ReadingsAgree'
        BY <2>2 DEF StoreInv, WritesAgree, ReadingsAgree, vars, storeVars, graphVars
      <3>4. QED
        BY <3>1, <3>2, <3>3 DEF StoreInv
    <2>3. QED
      BY <2>1, <2>2, PlannerKeeps DEF Next
  <1>2. QED
    BY <1>1, StoreInvInit, PTL DEF Spec

\* A part of an acyclic plan is acyclic: its rank still numbers it.
LEMMA PartIsAcyclic ==
  ASSUME NEW whole, NEW some,
         Acyclic(whole, Task), \A t \in Task : some[t] \in {{}, whole[t]}
  PROVE  Acyclic(some, Task)
  BY DEF Acyclic

\* A plan without dependencies is acyclic, whatever was proposed: its tasks
\* number themselves.
LEMMA EmptyIsAcyclic ==
  ASSUME NEW some, \A t \in Task : some[t] = {}
  PROVE  Acyclic(some, Task)
  <1> DEFINE self == [t \in Task |-> t]
  <1>1. self \in [Task -> Task]
    OBVIOUS
  <1>2. \A t \in Task : \A d \in some[t] \cap Task : self[d] < self[t]
    OBVIOUS
  <1>3. QED
    BY <1>1, <1>2 DEF Acyclic

\* A run that reads any dependency reads all tasks, and the plan's own
\* dependencies, at whatever moment of the two passes it looks.
THEOREM ReadsArePlannedHolds == Spec => []ReadsArePlanned
  <1>1. StoreInv => ReadsArePlanned
    BY DEF StoreInv, ReadingsAgree, ReadsArePlanned
  <1>2. QED
    BY <1>1, StoreInvariance, PTL

\* Whatever a run reads is acyclic and inside the tasks it read: it reads
\* the accepted plan with some of its dependencies missing, or none at all.
THEOREM ReadsAreSoundHolds == Spec => []ReadsAreSound
  <1>1. StoreInv => ReadsAreSound
    <2> SUFFICES ASSUME StoreInv PROVE ReadsAreSound
      OBVIOUS
    <2>1. \A t \in Task : seen.deps[t] \subseteq Task
      BY DEF StoreInv, StoreTypeOK
    <2>2. Acyclic(seen.deps, Task)
      <3>1. CASE \A t \in Task : seen.deps[t] = {}
        BY <3>1, EmptyIsAcyclic
      <3>2. CASE \E t \in Task : seen.deps[t] # {}
        <4>1. verdict = "accepted"
          BY <3>2 DEF StoreInv, ReadingsAgree
        <4>2. Acyclic(dependsOn, Task)
          BY <4>1, VerdictFromCounts DEF StoreInv, VerdictExact
        <4>3. \A t \in Task : seen.deps[t] \in {{}, dependsOn[t]}
          BY DEF StoreInv, ReadingsAgree
        <4>4. QED
          BY <4>2, <4>3, PartIsAcyclic
      <3>3. QED
        BY <3>1, <3>2
    <2>3. QED
      BY <2>1, <2>2 DEF StoreInv, ReadingsAgree, ReadsAreSound
  <1>2. QED
    BY <1>1, StoreInvariance, PTL

\* The validation is as exact while others store the plan.
THEOREM VerdictExactHolds == Spec => []VerdictExact
  <1>1. StoreInv => VerdictExact
    BY VerdictFromCounts DEF StoreInv
  <1>2. QED
    BY <1>1, StoreInvariance, PTL
----------------------------------------------------------------------------
\* Deployments: the workflow, the rows and the jobs about them.

WorkflowPlaces ==
  {"idle", "insert", "enqueue", "build", "check", "failed", "analysing", "rolled back"}
WorkerPlaces ==
  {"check", "failure", "recheck", "rollback", "rolled_back", "failed", "end", "done"}
Statuses == {"none", "started", "verifying", "healthy", "failed", "rolled_back"}
JobStates == {"none", "waiting", "active", "completed", "failed", "flushed"}

DeployTyped ==
  /\ workflow \in [at : WorkflowPlaces, deployment : 0..Deployments, undone : BOOLEAN]
  /\ deployStatus \in [Deployment -> Statuses]
  /\ jobState \in [Job -> JobStates]
  /\ verifier \in {Resting} \cup [at : WorkerPlaces, job : Job]

\* Where the verification of d is, as StartedIsVerified wants it of a row at "started".
Pending(d) ==
  \/ jobState[Verification(d)] \in {"waiting", "failed", "flushed"}
  \/ jobState[Verification(d)] = "active" /\ Undecided(d)
  \/ d \in unqueued
  \/ At("enqueue") /\ d = workflow.deployment

DeployInv ==
  /\ DeployTyped
  /\ \A d \in Deployment : deployStatus[d] = "started" => Pending(d)

\* The jobs about a deployment are jobs, and no two of them are the same.
LEMMA JobsAbout ==
  ASSUME NEW d \in Deployment, NEW i \in {0, 1}
  PROVE  /\ Verification(d) \in Job /\ Analysis(d) \in Job /\ Soak(d, i) \in Job
         /\ \A e \in Deployment : /\ Verification(e) # Analysis(d) /\ Verification(e) # Soak(d, i)
                                  /\ Verification(e) = Verification(d) => e = d
  <1> DEFINE kinds == {"verify-deploy", "analyze-failure", "soak-check"}
  <1>1. /\ Verification(d) \in [kind : kinds, deployment : Deployment, copy : {0, 1}]
        /\ Analysis(d) \in [kind : kinds, deployment : Deployment, copy : {0, 1}]
        /\ Soak(d, i) \in [kind : kinds, deployment : Deployment, copy : {0, 1}]
    BY DEF Verification, Analysis, Soak
  <1>2. ASSUME NEW e \in Deployment
        PROVE  /\ Verification(e).kind = "verify-deploy" /\ Verification(e).deployment = e
               /\ Verification(d).deployment = d
               /\ Analysis(d).kind = "analyze-failure" /\ Soak(d, i).kind = "soak-check"
    BY DEF Verification, Analysis, Soak
  <1>3. QED
    BY <1>1, <1>2 DEF Job

\* A worker that is not resting is somewhere with a job.
LEMMA WorkerAtWork ==
  ASSUME DeployTyped
  PROVE  /\ verifier = Resting <=> verifier.at = "resting"
         /\ verifier # Resting => /\ verifier.at \in WorkerPlaces /\ verifier.job \in Job
                                  /\ verifier.job.deployment \in Deployment
                                  /\ verifier \in [at : WorkerPlaces, job : Job]
  BY DEF DeployTyped, Resting, WorkerPlaces, Job

\* What happens to a row, its jobs and the workflow, if it leaves every verification
\* that was pending pending, and starts no row, keeps the invariant.
LEMMA PendingKeepsInv ==
  ASSUME DeployInv, DeployTyped',
         \A d \in Deployment : deployStatus'[d] = "started" =>
           deployStatus[d] = "started" /\ (Pending(d) => Pending(d)')
  PROVE  DeployInv'
  BY DEF DeployInv

\* A row gets a status.
LEMMA StatusTyped ==
  ASSUME DeployTyped, NEW d \in 0..Deployments, NEW s \in Statuses, SetStatusOf(d, s)
  PROVE  /\ deployStatus' \in [Deployment -> Statuses]
         /\ d \in Deployment => deployStatus'[d] = s
         /\ \A e \in Deployment \ {d} : deployStatus'[e] = deployStatus[e]
  BY DEF DeployTyped, SetStatusOf

\* The workflow goes on with the same deployment.
LEMMA AdvanceTyped ==
  ASSUME DeployTyped, NEW place \in WorkflowPlaces, Advance(place)
  PROVE  /\ workflow' \in [at : WorkflowPlaces, deployment : 0..Deployments, undone : BOOLEAN]
         /\ workflow'.at = place /\ workflow'.deployment = workflow.deployment
  BY DEF DeployTyped, Advance

\* The worker goes on with the same job.
LEMMA TurnTyped ==
  ASSUME DeployTyped, NEW place \in WorkerPlaces, verifier # Resting, Turn(place)
  PROVE  /\ verifier' \in [at : WorkerPlaces, job : Job]
         /\ verifier'.at = place /\ verifier'.job = verifier.job
         /\ verifier' # Resting
  <1>1. verifier \in [at : WorkerPlaces, job : Job]
    BY WorkerAtWork
  <1>2. /\ verifier' \in [at : WorkerPlaces, job : Job]
        /\ verifier'.at = place /\ verifier'.job = verifier.job
    BY <1>1 DEF Turn
  <1>3. verifier'.at # "resting"
    BY <1>2 DEF WorkerPlaces
  <1>4. QED
    BY <1>2, <1>3 DEF Resting

\* A death leaves every verification pending: the one under way waits again, or has
\* failed, and one that was to be queued never will be.
LEMMA DyingKeepsInv ==
  ASSUME DeployInv, NEW w, ServerDies(w), UNCHANGED deployStatus,
         w \in [at : WorkflowPlaces, deployment : 0..Deployments, undone : BOOLEAN],
         At("enqueue") => w = workflow
  PROVE  DeployInv'
  <1>1. workflow' \in [at : WorkflowPlaces, deployment : 0..Deployments, undone : BOOLEAN]
    BY DEF ServerDies, Unanswered, Reported, WorkflowPlaces
  <1>2. /\ jobState' \in [Job -> JobStates]
        /\ \A job \in Job : \/ jobState'[job] = jobState[job]
                            \/ jobState'[job] \in {"waiting", "failed"}
        /\ verifier # Resting => jobState'[verifier.job] # "active"
    BY WorkerAtWork DEF DeployInv, DeployTyped, ServerDies, Stall, JobStates
  <1>3. verifier' = Resting
    BY DEF ServerDies
  <1>4. DeployTyped'
    BY <1>1, <1>2, <1>3 DEF DeployInv, DeployTyped
  <1>5. ASSUME NEW d \in Deployment, Pending(d) PROVE Pending(d)'
    <2>1. Verification(d) \in Job
      BY JobsAbout
    <2>2. CASE jobState[Verification(d)] \in {"waiting", "failed", "flushed"}
      BY <1>2, <2>1, <2>2 DEF Pending
    <2>3. CASE jobState[Verification(d)] = "active" /\ Undecided(d)
      <3>1. jobState'[Verification(d)] \in {"waiting", "failed"}
        BY <1>2, <2>1, <2>3 DEF Undecided
      <3>2. QED
        BY <3>1 DEF Pending
    <2>4. CASE d \in unqueued
      BY <2>4 DEF Pending, ServerDies
    <2>5. CASE At("enqueue") /\ d = workflow.deployment
      BY <2>5 DEF Pending, ServerDies, At
    <2>6. QED
      BY <1>5, <2>2, <2>3, <2>4, <2>5 DEF Pending
  <1>6. QED
    BY <1>4, <1>5, PendingKeepsInv DEF DeployInv

\* A step of the workflow that queues nothing, and is not at the queue, keeps it: the
\* rows it writes say something else than "started".
LEMMA WorkflowKeepsInv ==
  ASSUME DeployInv, DeployTyped', UNCHANGED jobVars, unqueued \subseteq unqueued',
         At("enqueue") => workflow.deployment \in unqueued',
         \A d \in Deployment : deployStatus'[d] \in {deployStatus[d]} \cup (Statuses \ {"started"})
  PROVE  DeployInv'
  <1>1. ASSUME NEW d \in Deployment, Pending(d) PROVE Pending(d)'
    BY <1>1 DEF Pending, jobVars, Undecided
  <1>2. QED
    BY <1>1, PendingKeepsInv DEF DeployInv

\* A turn of the worker keeps it that either writes a verdict or goes on with the
\* verification, or works on something else.
LEMMA TurnKeepsInv ==
  ASSUME DeployInv, NEW place \in WorkerPlaces, verifier # Resting, Turn(place),
         UNCHANGED <<workflow, jobState, unqueued>>,
         deployStatus' \in [Deployment -> Statuses],
         \A d \in Deployment : deployStatus'[d] = deployStatus[d]
           \/ deployStatus'[d] \in Statuses \ {"started"},
         \/ place \in {"check", "failure", "recheck", "rollback", "rolled_back", "failed"}
         \/ verifier.at \in {"end", "done"}
         \/ verifier.job.kind # "verify-deploy"
         \/ deployStatus'[verifier.job.deployment] # "started"
  PROVE  DeployInv'
  <1>1. /\ verifier' \in [at : WorkerPlaces, job : Job]
        /\ verifier'.at = place /\ verifier'.job = verifier.job
        /\ verifier' # Resting
    BY TurnTyped DEF DeployInv
  <1>2. DeployTyped'
    BY <1>1 DEF DeployInv, DeployTyped
  <1>3. ASSUME NEW d \in Deployment, Pending(d), deployStatus'[d] = "started" PROVE Pending(d)'
    <2>1. CASE jobState[Verification(d)] = "active" /\ Undecided(d)
      <3>1. verifier.job.kind = "verify-deploy" /\ verifier.job.deployment = d
        BY <2>1 DEF Undecided, Verification
      <3>2. verifier.at \notin {"end", "done"}
        BY <2>1 DEF Undecided
      <3>3. place \in {"check", "failure", "recheck", "rollback", "rolled_back", "failed"}
        BY <1>3, <3>1, <3>2
      <3>4. Undecided(d)'
        BY <1>1, <2>1, <3>3 DEF Undecided
      <3>5. QED
        BY <2>1, <3>4 DEF Pending
    <2>2. CASE ~(jobState[Verification(d)] = "active" /\ Undecided(d))
      BY <1>3, <2>2 DEF Pending, At
    <2>3. QED
      BY <2>1, <2>2
  <1>4. QED
    BY <1>2, <1>3, PendingKeepsInv DEF DeployInv

\* A job that waits keeps the verifications pending when the worker takes it.
LEMMA TakingKeepsInv ==
  ASSUME DeployInv, NEW job \in Job, TakeJob(job)
  PROVE  DeployInv'
  <1> DEFINE place == IF job.kind = "analyze-failure" THEN "failure" ELSE "check"
  <1>1. /\ verifier' = [at |-> place, job |-> job] /\ place \in WorkerPlaces
        /\ jobState' = [jobState EXCEPT ![job] = "active"]
        /\ UNCHANGED <<workflow, deployStatus, unqueued>>
    BY DEF TakeJob, WorkerPlaces
  <1> HIDE DEF place
  <1>2. verifier' \in [at : WorkerPlaces, job : Job] /\ jobState' \in [Job -> JobStates]
    BY <1>1 DEF DeployInv, DeployTyped, JobStates
  <1>3. verifier' # Resting
    BY <1>1 DEF Resting, WorkerPlaces
  <1>4. DeployTyped'
    BY <1>1, <1>2 DEF DeployInv, DeployTyped
  <1>5. ASSUME NEW d \in Deployment, Pending(d) PROVE Pending(d)'
    <2>1. Verification(d) \in Job
      BY JobsAbout
    <2>2. CASE job = Verification(d)
      <3>1. place \in {"check", "failure"}
        BY DEF place
      <3>2. Undecided(d)'
        BY <1>1, <1>3, <2>2, <3>1 DEF Undecided
      <3>3. jobState'[Verification(d)] = "active"
        BY <1>1, <2>1, <2>2 DEF DeployInv, DeployTyped
      <3>4. QED
        BY <3>2, <3>3 DEF Pending
    <2>3. CASE job # Verification(d)
      <3>1. jobState'[Verification(d)] = jobState[Verification(d)]
        BY <1>1, <2>1, <2>3 DEF DeployInv, DeployTyped
      <3>2. ~Undecided(d)
        BY DEF TakeJob, Undecided
      <3>3. QED
        BY <1>1, <1>5, <3>1, <3>2 DEF Pending, At
    <2>4. QED
      BY <2>2, <2>3
  <1>6. QED
    BY <1>1, <1>4, <1>5, PendingKeepsInv

\* So does an end of its work on a job that leaves the job waiting or failed, or that
\* comes after the verdict.
LEMMA LeavingKeepsInv ==
  ASSUME DeployInv, verifier # Resting, verifier' = Resting, NEW s \in JobStates,
         UNCHANGED <<workflow, deployStatus, unqueued>>,
         jobState' = [jobState EXCEPT ![verifier.job] = IF @ = "active" THEN s ELSE @],
         \/ s \in {"waiting", "failed"}
         \/ verifier.at = "done"
         \/ verifier.job.kind # "verify-deploy"
  PROVE  DeployInv'
  <1>1. verifier.job \in Job
    BY WorkerAtWork DEF DeployInv
  <1>2. jobState' \in [Job -> JobStates]
    BY <1>1 DEF DeployInv, DeployTyped
  <1>3. DeployTyped'
    BY <1>2 DEF DeployInv, DeployTyped
  <1>4. ASSUME NEW d \in Deployment, Pending(d) PROVE Pending(d)'
    <2>1. Verification(d) \in Job
      BY JobsAbout
    <2>2. CASE jobState[Verification(d)] \in {"waiting", "failed", "flushed"}
      <3>1. jobState'[Verification(d)] = jobState[Verification(d)]
        BY <1>1, <2>1, <2>2 DEF DeployInv, DeployTyped
      <3>2. QED
        BY <2>2, <3>1 DEF Pending
    <2>3. CASE jobState[Verification(d)] = "active" /\ Undecided(d)
      <3>1. verifier.job = Verification(d) /\ verifier.job.kind = "verify-deploy"
            /\ verifier.at # "done"
        BY <2>3 DEF Undecided, Verification
      <3>2. jobState'[Verification(d)] = s
        BY <1>1, <2>3, <3>1 DEF DeployInv, DeployTyped
      <3>3. QED
        BY <3>1, <3>2 DEF Pending
    <2>4. CASE d \in unqueued \/ (At("enqueue") /\ d = workflow.deployment)
      BY <2>4 DEF Pending, At
    <2>5. QED
      BY <1>4, <2>2, <2>3, <2>4 DEF Pending
  <1>5. QED
    BY <1>3, <1>4, PendingKeepsInv

\* What is added to the queue besides disturbs no verification.
LEMMA AddingKeepsInv ==
  ASSUME DeployInv, NEW job \in Job, Queue(job), UNCHANGED <<deployStatus, unqueued>>,
         DeployTyped', job.kind # "verify-deploy" \/ At("enqueue"),
         At("enqueue") => job = Verification(workflow.deployment),
         \A d \in Deployment : Undecided(d) => Undecided(d)'
  PROVE  DeployInv'
  <1>1. ASSUME NEW d \in Deployment, Pending(d) PROVE Pending(d)'
    <2>1. Verification(d) \in Job
      BY JobsAbout
    <2>2. CASE job = Verification(d)
      <3>1. jobState'[Verification(d)] = "waiting"
        BY <2>1, <2>2 DEF Queue, DeployInv, DeployTyped
      <3>2. QED
        BY <3>1 DEF Pending
    <2>3. CASE job # Verification(d)
      <3>1. jobState'[Verification(d)] = jobState[Verification(d)]
        BY <2>1, <2>3 DEF Queue, DeployInv, DeployTyped
      <3>2. ~(At("enqueue") /\ d = workflow.deployment)
        BY <2>3
      <3>3. QED
        BY <1>1, <3>1, <3>2 DEF Pending
    <2>4. QED
      BY <2>2, <2>3
  <1>2. QED
    BY <1>1, PendingKeepsInv

\* No step of a person, the workflow or a webhook leaves the invariant.
LEMMA ReportStep ==
  ASSUME DeployInv,
         \/ DeployStarts \/ WorkflowStep \/ ReportFails \/ Crash \/ RecordRollback
         \/ ManualRemediation \/ (\E d \in Deployment : ManualRollback(d))
  PROVE  DeployInv'
  <1>1. /\ DeployTyped
        /\ workflow \in [at : WorkflowPlaces, deployment : 0..Deployments, undone : BOOLEAN]
        /\ {"idle", "enqueue", "build", "check", "failed", "analysing", "rolled back"}
             \subseteq WorkflowPlaces
        /\ {"verifying", "failed", "rolled_back"} \subseteq Statuses \ {"started"}
        /\ Reported(workflow) \in WorkflowPlaces
    BY DEF DeployInv, DeployTyped, WorkflowPlaces, Statuses, Reported
  <1>2. ASSUME NEW place \in WorkflowPlaces, Advance(place), UNCHANGED jobVars,
               unqueued \subseteq unqueued', At("enqueue") => workflow.deployment \in unqueued',
               UNCHANGED deployStatus
                 \/ \E s \in {"verifying", "failed", "rolled_back"} :
                      SetStatusOf(workflow.deployment, s)
        PROVE  DeployInv'
    <2>1. /\ deployStatus' \in [Deployment -> Statuses]
          /\ \A d \in Deployment :
               deployStatus'[d] \in {deployStatus[d]} \cup (Statuses \ {"started"})
      <3>1. CASE UNCHANGED deployStatus
        BY <1>1, <3>1 DEF DeployTyped
      <3>2. CASE \E s \in {"verifying", "failed", "rolled_back"} :
                   SetStatusOf(workflow.deployment, s)
        BY <1>1, <3>2, StatusTyped
      <3>3. QED
        BY <1>2, <3>1, <3>2
    <2>2. DeployTyped'
      BY <1>1, <1>2, <2>1, AdvanceTyped DEF DeployTyped, jobVars
    <2>3. QED
      BY <1>2, <2>1, <2>2, WorkflowKeepsInv
  <1>3. CASE DeployStarts
    <2>1. /\ ~At("enqueue") /\ UNCHANGED <<deployStatus, jobVars, unqueued>>
          /\ workflow.deployment < Deployments
      BY <1>3 DEF DeployStarts, At
    <2>2. PICK place \in {"build", "insert"} :
            workflow' = [at |-> place, deployment |-> workflow.deployment + 1, undone |-> FALSE]
      BY <1>3 DEF DeployStarts
    <2>3. workflow.deployment + 1 \in 0..Deployments
      <3>1. workflow.deployment \in 0..Deployments
        BY <1>1
      <3>2. QED
        BY <2>1, <3>1, DeployAssumption
    <2>4. workflow' \in [at : WorkflowPlaces, deployment : 0..Deployments, undone : BOOLEAN]
      BY <2>2, <2>3 DEF WorkflowPlaces
    <2>5. DeployTyped'
      BY <1>1, <2>1, <2>4 DEF DeployTyped, jobVars
    <2>6. \A d \in Deployment :
            deployStatus'[d] \in {deployStatus[d]} \cup (Statuses \ {"started"})
      BY <2>1
    <2>7. QED
      BY <2>1, <2>5, <2>6, WorkflowKeepsInv
  <1>4. CASE WorkflowStep
    <2>1. CASE InsertRow
      <3>1. /\ SetStatusOf(workflow.deployment, "started") /\ Advance("enqueue")
            /\ ~At("enqueue") /\ UNCHANGED <<jobVars, unqueued>>
        BY <2>1 DEF InsertRow, At
      <3>2. /\ deployStatus' \in [Deployment -> Statuses]
            /\ \A d \in Deployment \ {workflow.deployment} : deployStatus'[d] = deployStatus[d]
        BY <1>1, <3>1, StatusTyped DEF Statuses
      <3>3. DeployTyped' /\ At("enqueue")' /\ workflow'.deployment = workflow.deployment
        BY <1>1, <3>1, <3>2, AdvanceTyped DEF DeployTyped, jobVars, At
      <3>4. ASSUME NEW d \in Deployment, deployStatus'[d] = "started" PROVE Pending(d)'
        <4>1. CASE d = workflow.deployment
          BY <3>3, <4>1 DEF Pending
        <4>2. CASE d # workflow.deployment
          BY <3>1, <3>2, <3>4, <4>2 DEF DeployInv, Pending, Undecided, jobVars
        <4>3. QED
          BY <4>1, <4>2
      <3>5. QED
        BY <3>3, <3>4 DEF DeployInv
    <2>2. CASE QueueVerification
      <3>1. /\ Queue(Verification(workflow.deployment)) /\ Advance("build") /\ At("enqueue")
            /\ UNCHANGED <<deployStatus, verifier, unqueued>>
        BY <2>2 DEF QueueVerification
      <3>2. CASE workflow.deployment \in Deployment
        <4>1. Verification(workflow.deployment) \in Job
          BY <3>2, JobsAbout
        <4>2. DeployTyped'
          BY <1>1, <3>1, <4>1, AdvanceTyped DEF DeployTyped, Queue, JobStates
        <4>3. \A d \in Deployment : Undecided(d) => Undecided(d)'
          BY <3>1 DEF Undecided
        <4>4. QED
          BY <3>1, <4>1, <4>2, <4>3, AddingKeepsInv
      <3>3. CASE workflow.deployment \notin Deployment
        <4>1. Verification(workflow.deployment) \notin Job
          BY <3>3 DEF Verification, Job
        <4>2. jobState' = jobState
          BY <1>1, <3>1, <4>1 DEF DeployTyped, Queue
        <4>3. DeployTyped'
          BY <1>1, <3>1, <4>2, AdvanceTyped DEF DeployTyped
        <4>4. \A d \in Deployment : Pending(d) => Pending(d)'
          BY <3>1, <3>3, <4>2 DEF Pending, Undecided
        <4>5. QED
          BY <3>1, <4>3, <4>4, PendingKeepsInv
      <3>4. QED
        BY <3>2, <3>3
    <2>3. CASE QueueAnalysis
      <3>1. /\ Queue(Analysis(workflow.deployment)) /\ Advance(Reported(workflow)) /\ ~At("enqueue")
            /\ UNCHANGED <<deployStatus, verifier, unqueued>>
        BY <2>3 DEF QueueAnalysis, At
      <3>2. \A d \in Deployment : Undecided(d) => Undecided(d)'
        BY <3>1 DEF Undecided
      <3>3. CASE workflow.deployment \in Deployment
        <4>1. Analysis(workflow.deployment) \in Job
              /\ Analysis(workflow.deployment).kind # "verify-deploy"
          BY <3>3, JobsAbout DEF Analysis
        <4>2. DeployTyped'
          BY <1>1, <3>1, <4>1, AdvanceTyped DEF DeployTyped, Queue, JobStates
        <4>3. QED
          BY <3>1, <3>2, <4>1, <4>2, AddingKeepsInv
      <3>4. CASE workflow.deployment \notin Deployment
        <4>1. Analysis(workflow.deployment) \notin Job
          BY <3>4 DEF Analysis, Job
        <4>2. jobState' = jobState
          BY <1>1, <3>1, <4>1 DEF DeployTyped, Queue
        <4>3. DeployTyped'
          BY <1>1, <3>1, <4>2, AdvanceTyped DEF DeployTyped
        <4>4. \A d \in Deployment : Pending(d) => Pending(d)'
          BY <3>1, <3>2, <4>2 DEF Pending
        <4>5. QED
          BY <3>1, <4>3, <4>4, PendingKeepsInv
      <3>5. QED
        BY <3>3, <3>4
    <2>4. CASE BuildFails
      <3>1. Advance("failed") /\ ~At("enqueue") /\ UNCHANGED <<deployStatus, jobVars, unqueued>>
        BY <2>4 DEF BuildFails, At
      <3>2. QED
        BY <1>1, <1>2, <3>1
    <2>5. CASE Restart
      <3>1. /\ ServerDies([workflow EXCEPT !.at = "check"]) /\ ~At("enqueue")
            /\ UNCHANGED deployStatus
        BY <2>5 DEF Restart, At
      <3>2. [workflow EXCEPT !.at = "check"]
              \in [at : WorkflowPlaces, deployment : 0..Deployments, undone : BOOLEAN]
        BY <1>1
      <3>3. QED
        BY <3>1, <3>2, DyingKeepsInv
    <2>6. CASE DeployCompletes
      <3>1. /\ Advance("idle") /\ ~At("enqueue") /\ UNCHANGED <<jobVars, unqueued>>
            /\ UNCHANGED deployStatus \/ SetStatusOf(workflow.deployment, "verifying")
        BY <2>6 DEF DeployCompletes, At
      <3>2. QED
        BY <1>1, <1>2, <3>1
    <2>7. CASE WorkflowRollsBack
      <3>1. ~At("enqueue") /\ UNCHANGED deployStatus
        BY <2>7 DEF WorkflowRollsBack, At
      <3>2. ASSUME NEW undone \in BOOLEAN,
                   ServerDies([workflow EXCEPT !.at = "failed", !.undone = undone])
            PROVE  DeployInv'
        <4>1. [workflow EXCEPT !.at = "failed", !.undone = undone]
                \in [at : WorkflowPlaces, deployment : 0..Deployments, undone : BOOLEAN]
          BY <1>1
        <4>2. QED
          BY <3>1, <3>2, <4>1, DyingKeepsInv
      <3>3. CASE Advance("failed") /\ UNCHANGED <<jobVars, unqueued, rollingBack>>
        BY <1>1, <1>2, <3>1, <3>3
      <3>4. QED
        BY <2>7, <3>2, <3>3 DEF WorkflowRollsBack
    <2>8. CASE ReportFailed
      <3>1. /\ Advance("analysing") \/ Advance(Reported(workflow))
            /\ ~At("enqueue") /\ UNCHANGED <<jobVars, unqueued>>
            /\ UNCHANGED deployStatus \/ SetStatusOf(workflow.deployment, "failed")
        BY <2>8 DEF ReportFailed, At
      <3>2. QED
        BY <1>1, <1>2, <3>1
    <2>9. CASE ReportRolledBack
      <3>1. /\ Advance("idle") /\ ~At("enqueue") /\ UNCHANGED <<jobVars, unqueued>>
            /\ UNCHANGED deployStatus \/ SetStatusOf(workflow.deployment, "rolled_back")
        BY <2>9 DEF ReportRolledBack, At
      <3>2. QED
        BY <1>1, <1>2, <3>1
    <2>10. QED
      BY <1>4, <2>1, <2>2, <2>3, <2>4, <2>5, <2>6, <2>7, <2>8, <2>9 DEF WorkflowStep
  <1>5. CASE ReportFails
    <2>1. /\ Advance("build") \/ Advance("idle") \/ Advance(Reported(workflow))
          /\ unqueued \subseteq unqueued' /\ (At("enqueue") => workflow.deployment \in unqueued')
          /\ UNCHANGED <<deployStatus, jobVars>>
      BY <1>5 DEF ReportFails
    <2>2. QED
      BY <1>1, <1>2, <2>1
  <1>6. CASE Crash
    BY <1>1, <1>6, DyingKeepsInv DEF Crash
  <1>7. CASE RecordRollback
    <2>1. /\ UNCHANGED <<workflow, jobVars, unqueued>>
          /\ UNCHANGED deployStatus \/ SetStatusOf(rollingBack, "rolled_back")
      BY <1>7 DEF RecordRollback
    <2>2. /\ deployStatus' \in [Deployment -> Statuses]
          /\ \A d \in Deployment : deployStatus'[d] \in {deployStatus[d], "rolled_back"}
      BY <1>1, <2>1 DEF DeployTyped, SetStatusOf
    <2>3. DeployTyped'
      BY <1>1, <2>1, <2>2 DEF DeployTyped, jobVars
    <2>4. \A d \in Deployment : Pending(d) => Pending(d)'
      BY <2>1 DEF Pending, Undecided, At, jobVars
    <2>5. QED
      BY <2>2, <2>3, <2>4, PendingKeepsInv
  <1>8. CASE ManualRemediation
    <2>1. CASE ServerDies(workflow)
      BY <1>1, <1>8, <2>1, DyingKeepsInv DEF ManualRemediation
    <2>2. CASE ~ServerDies(workflow)
      <3>1. /\ UNCHANGED <<workflow, deployStatus, verifier, unqueued>>
            /\ jobState' = [j \in Job |-> IF jobState[j] \in {"waiting", "active", "failed"}
                                            THEN "flushed" ELSE jobState[j]]
        BY <1>8, <2>2 DEF ManualRemediation
      <3>2. jobState' \in [Job -> JobStates]
        BY <1>1, <3>1 DEF DeployTyped, JobStates
      <3>3. DeployTyped'
        BY <1>1, <3>1, <3>2 DEF DeployTyped
      <3>4. ASSUME NEW d \in Deployment, Pending(d) PROVE Pending(d)'
        <4>1. Verification(d) \in Job
          BY JobsAbout
        <4>2. jobState[Verification(d)] \in {"waiting", "active", "failed", "flushed"}
                => jobState'[Verification(d)] = "flushed"
          BY <3>1, <4>1
        <4>3. QED
          BY <3>1, <3>4, <4>2 DEF Pending, At
      <3>5. QED
        BY <3>1, <3>3, <3>4, PendingKeepsInv
    <2>3. QED
      BY <2>1, <2>2
  <1>9. ASSUME NEW d \in Deployment, ManualRollback(d) PROVE DeployInv'
    <2>1. CASE ServerDies(workflow)
      BY <1>1, <1>9, <2>1, DyingKeepsInv DEF ManualRollback
    <2>2. CASE ~ServerDies(workflow)
      BY <1>9, <2>2 DEF ManualRollback, DeployInv, DeployTyped, Pending, Undecided, At, jobVars
    <2>3. QED
      BY <2>1, <2>2
  <1>10. QED
    BY <1>3, <1>4, <1>5, <1>6, <1>7, <1>8, <1>9

\* No step of the worker does.
LEMMA WorkerKeepsInv ==
  ASSUME DeployInv, WorkerStep \/ AttemptFails
  PROVE  DeployInv'
  <1>1. /\ DeployTyped
        /\ workflow \in [at : WorkflowPlaces, deployment : 0..Deployments, undone : BOOLEAN]
        /\ verifier # Resting => verifier.job.deployment \in Deployment
        /\ verifier = Resting <=> verifier.at = "resting"
        /\ deployStatus \in [Deployment -> Statuses]
    BY WorkerAtWork DEF DeployInv, DeployTyped
  <1>2. /\ {"healthy", "failed", "rolled_back"} \subseteq Statuses \ {"started"}
        /\ {"failure", "recheck", "rollback", "rolled_back", "failed", "end", "done"}
             \subseteq WorkerPlaces
    BY DEF Statuses, WorkerPlaces
  \* A turn that writes a verdict.
  <1>3. ASSUME NEW s \in {"healthy", "failed", "rolled_back"}, verifier # Resting,
               SetStatusOf(verifier.job.deployment, s), Turn("end"),
               UNCHANGED <<workflow, jobState, unqueued>>
        PROVE  DeployInv'
    <2>1. /\ deployStatus' \in [Deployment -> Statuses]
          /\ deployStatus'[verifier.job.deployment] = s
          /\ \A d \in Deployment : deployStatus'[d] = deployStatus[d] \/ deployStatus'[d] = s
      BY <1>1, <1>2, <1>3 DEF SetStatusOf
    <2>2. QED
      BY <1>2, <1>3, <2>1, TurnKeepsInv
  \* One that writes nothing, before the verdict or after it.
  <1>4. ASSUME NEW place \in {"failure", "recheck", "rollback", "rolled_back", "failed", "end", "done"},
               verifier # Resting, Turn(place), UNCHANGED <<workflow, deployStatus, jobState, unqueued>>,
               place \notin {"end", "done"} \/ verifier.at = "end" \/ verifier.job.kind # "verify-deploy"
        PROVE  DeployInv'
    BY <1>1, <1>2, <1>4, TurnKeepsInv
  <1>5. CASE \E job \in Job : TakeJob(job)
    BY <1>5, TakingKeepsInv
  <1>6. CASE VerifyDeployment
    <2>1. verifier # Resting /\ UNCHANGED <<workflow, jobState, unqueued>>
      BY <1>6 DEF VerifyDeployment, Working
    <2>2. CASE SetStatusOf(verifier.job.deployment, "healthy") /\ Turn("end")
      BY <1>3, <2>1, <2>2
    <2>3. CASE Turn("failure") /\ UNCHANGED deployStatus
      BY <1>4, <2>1, <2>3
    <2>4. QED
      BY <1>6, <2>2, <2>3 DEF VerifyDeployment
  <1>7. CASE SoakMonitoring
    <2>1. /\ verifier # Resting /\ verifier.job.kind # "verify-deploy"
          /\ UNCHANGED <<workflow, deployStatus, jobState, unqueued>>
          /\ Turn("failure") \/ Turn("end")
      BY <1>7 DEF SoakMonitoring, Working
    <2>2. QED
      BY <1>4, <2>1
  <1>8. CASE Remediate
    <2>1. CASE ServerDies(workflow)
      BY <1>1, <1>8, <2>1, DyingKeepsInv DEF Remediate
    <2>2. CASE ~ServerDies(workflow)
      <3>1. /\ verifier # Resting /\ UNCHANGED <<workflow, deployStatus, jobState, unqueued>>
            /\ Turn("recheck") \/ Turn("rollback")
        BY <1>1, <1>8, <2>2 DEF Remediate, Busy
      <3>2. QED
        BY <1>4, <3>1
    <2>3. QED
      BY <2>1, <2>2
  <1>9. CASE Recheck
    <2>1. verifier # Resting /\ UNCHANGED <<workflow, jobState, unqueued>>
      BY <1>1, <1>9 DEF Recheck, Busy
    <2>2. CASE SetStatusOf(verifier.job.deployment, "healthy") /\ Turn("end")
      BY <1>3, <2>1, <2>2
    <2>3. CASE Turn("rollback") /\ UNCHANGED deployStatus
      BY <1>4, <2>1, <2>3
    <2>4. QED
      BY <1>9, <2>2, <2>3 DEF Recheck
  <1>10. CASE RollBack
    <2>1. CASE ServerDies(workflow)
      BY <1>1, <1>10, <2>1, DyingKeepsInv DEF RollBack
    <2>2. CASE ~ServerDies(workflow)
      <3>1. /\ verifier # Resting /\ UNCHANGED <<workflow, deployStatus, jobState, unqueued>>
            /\ Turn("rolled_back") \/ Turn("failed")
        BY <1>1, <1>10, <2>2 DEF RollBack, Busy
      <3>2. QED
        BY <1>4, <3>1
    <2>3. QED
      BY <2>1, <2>2
  <1>11. CASE WriteOutcome
    <2>1. /\ verifier # Resting /\ Turn("end") /\ UNCHANGED <<workflow, jobState, unqueued>>
          /\ \E s \in {"healthy", "failed", "rolled_back"} :
               SetStatusOf(verifier.job.deployment, s)
      BY <1>1, <1>11 DEF WriteOutcome, Busy
    <2>2. QED
      BY <1>3, <2>1
  <1>12. CASE QueueSoak
    <2> DEFINE soak == Soak(verifier.job.deployment, IF verifier.job \in stalled THEN 1 ELSE 0)
    <2>1. /\ verifier # Resting /\ verifier.at = "end" /\ Turn("done")
          /\ UNCHANGED <<workflow, deployStatus, unqueued>>
          /\ Queue(soak) \/ UNCHANGED jobState
      BY <1>12 DEF QueueSoak, Working, Busy
    <2>2. CASE UNCHANGED jobState
      BY <1>4, <2>1, <2>2
    <2>3. CASE Queue(soak)
      <3>1. soak \in Job /\ soak.kind # "verify-deploy"
        BY <1>1, <2>1, JobsAbout DEF Soak
      <3> HIDE DEF soak
      <3>2. \A d \in Deployment : ~Undecided(d)
        BY <2>1 DEF Undecided
      <3>3. DeployTyped'
        BY <1>1, <1>2, <2>1, <2>3, <3>1, TurnTyped DEF DeployTyped, Queue, JobStates
      <3>4. ASSUME NEW d \in Deployment, Pending(d) PROVE Pending(d)'
        <4>1. Verification(d) \in Job
          BY JobsAbout
        <4>2. Verification(d).kind = "verify-deploy"
          BY DEF Verification
        <4>3. soak # Verification(d)
          BY <3>1, <4>2
        <4>4. jobState'[Verification(d)] = jobState[Verification(d)]
          BY <1>1, <2>3, <4>1, <4>3 DEF Queue, DeployTyped
        <4>5. QED
          BY <2>1, <3>2, <3>4, <4>4 DEF Pending, At
      <3>5. QED
        BY <2>1, <3>3, <3>4, PendingKeepsInv
    <2>4. QED
      BY <2>1, <2>2, <2>3
  <1>13. CASE CompleteJob
    <2>1. /\ verifier # Resting /\ verifier' = Resting
          /\ UNCHANGED <<workflow, deployStatus, unqueued>>
          /\ jobState' = [jobState EXCEPT ![verifier.job] = IF @ = "active" THEN "completed" ELSE @]
          /\ verifier.at = "done" \/ verifier.job.kind # "verify-deploy"
      BY <1>1, <1>13 DEF CompleteJob, Busy, Working
    <2>2. "completed" \in JobStates
      BY DEF JobStates
    <2>3. QED
      BY <2>1, <2>2, LeavingKeepsInv
  <1>14. CASE AttemptFails
    <2> DEFINE s == IF attempts'[verifier.job] < DeployAttempts THEN "waiting" ELSE "failed"
    <2>1. /\ verifier # Resting /\ verifier' = Resting
          /\ UNCHANGED <<workflow, deployStatus, unqueued>>
          /\ jobState' = [jobState EXCEPT ![verifier.job] = IF @ = "active" THEN s ELSE @]
      BY <1>1, <1>14 DEF AttemptFails
    <2>2. s \in JobStates /\ s \in {"waiting", "failed"}
      BY DEF JobStates
    <2> HIDE DEF s
    <2>3. QED
      BY <2>1, <2>2, LeavingKeepsInv
  <1>15. QED
    BY <1>5, <1>6, <1>7, <1>8, <1>9, <1>10, <1>11, <1>12, <1>13, <1>14 DEF WorkerStep

\* The invariant of the deployments: their rows, jobs, workflow and worker are what they
\* should be, and the verification of a row at "started" is pending.
THEOREM DeployInvariance == DeploySpec => []DeployInv
  <1>1. DeployInit => DeployInv
    <2> SUFFICES ASSUME DeployInit PROVE DeployInv
      OBVIOUS
    <2>1. /\ workflow \in [at : WorkflowPlaces, deployment : 0..Deployments, undone : BOOLEAN]
          /\ deployStatus \in [Deployment -> Statuses] /\ jobState \in [Job -> JobStates]
          /\ verifier = Resting
      BY DeployAssumption DEF DeployInit, WorkflowPlaces, Statuses, JobStates
    <2>2. \A d \in Deployment : deployStatus[d] # "started"
      BY DEF DeployInit
    <2>3. QED
      BY <2>1, <2>2 DEF DeployInv, DeployTyped
  <1>2. DeployInv /\ [DeployNext]_deployVars => DeployInv'
    <2> SUFFICES ASSUME DeployInv, [DeployNext]_deployVars PROVE DeployInv'
      OBVIOUS
    <2>1. CASE UNCHANGED deployVars
      BY <2>1 DEF deployVars, jobVars, DeployInv, DeployTyped, Pending, Undecided, At
    <2>2. CASE WorkerStep \/ AttemptFails
      BY <2>2, WorkerKeepsInv
    <2>3. CASE \/ DeployStarts \/ WorkflowStep \/ ReportFails \/ Crash \/ RecordRollback
               \/ ManualRemediation \/ (\E d \in Deployment : ManualRollback(d))
      BY <2>3, ReportStep
    <2>4. QED
      BY <2>1, <2>2, <2>3 DEF DeployNext
  <1>3. QED
    BY <1>1, <1>2, PTL DEF DeploySpec

\* A verification is done with only when it has said what became of its deployment,
\* whatever throws, stalls, is run again, rolled back or restarted, except for what could
\* not be queued or was cleared out with the cache (verifyDeployment, handleDeployFailure).
THEOREM StartedIsVerifiedHolds == DeploySpec => []StartedIsVerified
  <1>1. DeployInv => StartedIsVerified
    BY DEF DeployInv, Pending, StartedIsVerified
  <1>2. QED
    BY <1>1, DeployInvariance, PTL

----------------------------------------------------------------------------
\* The steps of a plan and of a deployment are steps of both, of which one stands still,
\* so what was proved of each holds in every behaviour of the specification that the
\* run checks, without bounds.
THEOREM PartsAreFaithful == RecordsSpec => Spec /\ DeploySpec
  <1>1. RecordsInit => Init /\ DeployInit
    BY DEF RecordsInit
  <1>2. [RecordsNext]_<<part, vars, deployVars>> => [Next]_vars /\ [DeployNext]_deployVars
    BY DEF RecordsNext
  <1>3. QED
    BY <1>1, <1>2, PTL DEF RecordsSpec, Spec, DeploySpec

\* The invariants that the run of the records checks hold for every instance.
THEOREM RecordsSound ==
  RecordsSpec => [](VerdictExact /\ ReadsAreSound /\ ReadsArePlanned /\ StartedIsVerified)
  BY PartsAreFaithful, VerdictExactHolds, ReadsAreSoundHolds, ReadsArePlannedHolds,
     StartedIsVerifiedHolds, PTL
=============================================================================
