----------------------------- MODULE PlanGraph -----------------------------
(***************************************************************************)
(* validateDependencyGraph (agents/orchestrator.ts): Kahn's algorithm over *)
(* the depends_on indices of a plan the model proposed.                    *)
(*                                                                         *)
(* Index i of the code is task i + 1 here.  A list of indices is the set   *)
(* of its members: a repeated index adds the same edge twice, and both are *)
(* removed together.  The order of the queue is left open.                 *)
(***************************************************************************)
EXTENDS DependencyGraph, FiniteSets

CONSTANT N    \* number of tasks of the plan
ASSUME PlanAssumption == N \in Nat

Task == 1..N

\* Any index the plan may name: 0 and N + 1 stand for those out of range.
Named == 0..(N + 1)

VARIABLES dependsOn,  \* the depends_on of every task of the plan
          inDegree,
          queue,      \* nodes of in-degree 0 that are still to be visited
          visited,    \* number of nodes visited
          position,   \* history: when a node was visited, 0 if it was not
          verdict     \* "unread", "visiting", "invalid", "cycle", "accepted"

graphVars == <<dependsOn, inDegree, queue, visited, position, verdict>>

GraphTypeOK ==
  /\ dependsOn \in [Task -> SUBSET Named]
  /\ inDegree \in [Task -> Nat]
  /\ queue \subseteq Task
  /\ visited \in 0..N
  /\ position \in [Task -> 0..N]
  /\ verdict \in {"unread", "visiting", "invalid", "cycle", "accepted"}

GraphInit ==
  /\ dependsOn \in [Task -> SUBSET Named]
  /\ inDegree = [t \in Task |-> 0]
  /\ queue = {}
  /\ visited = 0
  /\ position = [t \in Task |-> 0]
  /\ verdict = "unread"

Visited == {t \in Task : position[t] # 0}

\* dep < 0 || dep >= n || dep === i
InRange(t) == dependsOn[t] \subseteq Task \ {t}

\* The first loop throws on a bad index, else leaves the in-degrees, of which
\* the zeros start the queue.
ReadEdges ==
  /\ verdict = "unread"
  /\ \/ /\ \E t \in Task : ~InRange(t)
        /\ verdict' = "invalid"
        /\ UNCHANGED <<inDegree, queue>>
     \/ /\ \A t \in Task : InRange(t)
        /\ inDegree' = [t \in Task |-> Cardinality(dependsOn[t])]
        /\ queue' = {t \in Task : dependsOn[t] = {}}
        /\ verdict' = "visiting"
  /\ UNCHANGED <<dependsOn, visited, position>>

\* Mutant: every dependent is queued when it loses its first dependency.
VisitEager(node) ==
  /\ verdict = "visiting" /\ node \in queue
  /\ LET dependents == {t \in Task : node \in dependsOn[t]} IN
     /\ inDegree' = [t \in Task |-> IF t \in dependents THEN inDegree[t] - 1 ELSE inDegree[t]]
     /\ queue' = (queue \ {node}) \cup {t \in dependents : position[t] = 0}
  /\ visited' = visited + 1
  /\ position' = [position EXCEPT ![node] = visited + 1]
  /\ UNCHANGED <<dependsOn, verdict>>

\* Mutant: the node is read but not shifted off the queue.
VisitUnshifted(node) ==
  /\ verdict = "visiting" /\ node \in queue
  /\ inDegree' = [t \in Task |-> IF node \in dependsOn[t] THEN inDegree[t] - 1 ELSE inDegree[t]]
  /\ visited' = visited + 1
  /\ position' = [position EXCEPT ![node] = visited + 1]
  /\ UNCHANGED <<dependsOn, queue, verdict>>

\* One node off the queue: its dependents lose an edge, those without another
\* one join the queue.
Visit(node) ==
  /\ verdict = "visiting" /\ node \in queue
  /\ LET dependents == {t \in Task : node \in dependsOn[t]} IN
     /\ inDegree' = [t \in Task |-> IF t \in dependents THEN inDegree[t] - 1 ELSE inDegree[t]]
     /\ queue' = (queue \ {node}) \cup {t \in dependents : inDegree[t] = 1}
  /\ visited' = visited + 1
  /\ position' = [position EXCEPT ![node] = visited + 1]
  /\ UNCHANGED <<dependsOn, verdict>>

\* Mutant: a plan counts as cyclic only when none of its tasks could start.
DecideStarted ==
  /\ verdict = "visiting" /\ queue = {}
  /\ verdict' = IF visited = 0 THEN "cycle" ELSE "accepted"
  /\ UNCHANGED <<dependsOn, inDegree, queue, visited, position>>

\* if (visited < n) throw
Decide ==
  /\ verdict = "visiting" /\ queue = {}
  /\ verdict' = IF visited < N THEN "cycle" ELSE "accepted"
  /\ UNCHANGED <<dependsOn, inDegree, queue, visited, position>>

GraphNext ==
  \/ ReadEdges \/ Decide
  \/ \E node \in Task : Visit(node)

GraphSpec == GraphInit /\ [][GraphNext]_graphVars

----------------------------------------------------------------------------
\* The validation accepts exactly the plans whose indices are in range and
\* which have no cycle: no cyclic plan is stored, no sound plan is refused.
VerdictExact ==
  /\ verdict = "accepted" =>
       /\ \A t \in Task : dependsOn[t] \subseteq Task
       /\ Acyclic(dependsOn, Task)
  /\ verdict = "cycle" => ~Acyclic(dependsOn, Task)

\* The in-degree kept by decrements is the number of dependencies not yet
\* visited, and the queue is what has none: so what has been visited can be
\* executed in the order of the visits.
InDegreeExact ==
  verdict \in {"visiting", "cycle", "accepted"} =>
    /\ \A t \in Task : inDegree[t] = Cardinality(dependsOn[t] \ Visited)
    /\ queue = {t \in Task \ Visited : dependsOn[t] \subseteq Visited}

----------------------------------------------------------------------------
(* The inductive invariant behind them, see RecordsProofs.                 *)

Scanned == {"visiting", "cycle", "accepted"}

\* The count is the number of visited nodes, and visits respect the edges.
VisitsInOrder ==
  /\ visited = Cardinality(Visited)
  /\ \A t \in Task : position[t] <= visited
  /\ \A t \in Visited : /\ dependsOn[t] \subseteq Visited
                        /\ \A d \in dependsOn[t] : position[d] < position[t]

\* How far the function has come.
StageAgrees ==
  /\ verdict \in Scanned => \A t \in Task : InRange(t)
  /\ verdict = "unread" => Visited = {}
  /\ verdict = "cycle" => queue = {} /\ visited < N
  /\ verdict = "accepted" => visited = N

\* Inductive: no step of the validation leaves it.
GraphInv == GraphTypeOK /\ InDegreeExact /\ VisitsInOrder /\ StageAgrees
=============================================================================
