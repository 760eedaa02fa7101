----------------------------- MODULE PlanStore -----------------------------
(***************************************************************************)
(* Orchestrator.persistPlan (agents/orchestrator.ts): a validated plan is  *)
(* written as a goal, then its tasks one INSERT at a time, then their      *)
(* dependencies one UPDATE at a time, without a transaction.  Several      *)
(* conversations may store a plan of the same title at once, any of them   *)
(* can die half-way, and a run may read the goal at any moment.            *)
(***************************************************************************)
EXTENDS PlanGraph

CONSTANT Planner   \* conversations storing a plan of the same title

VARIABLES at,        \* where persistPlan is in each conversation
          goal,      \* status of the goal row each one created
          created,   \* number of tasks inserted for it
          stored,    \* tasks.depends_on of those tasks
          seen       \* what the last run of some goal read

storeVars == <<at, goal, created, stored, seen>>
vars == <<graphVars, storeVars>>

NoDeps == [t \in Task |-> {}]

StoreTypeOK ==
  /\ GraphTypeOK
  /\ at \in [Planner -> {"start", "goal", "status", "tasks", "deps", "done", "existing", "dead"}]
  /\ goal \in [Planner -> {"none", "draft", "proposed", "active"}]
  /\ created \in [Planner -> 0..N]
  /\ stored \in [Planner -> [Task -> SUBSET Task]]
  /\ seen \in [tasks : SUBSET Task, deps : [Task -> SUBSET Task]]

Init ==
  /\ GraphInit
  /\ at = [p \in Planner |-> "start"]
  /\ goal = [p \in Planner |-> "none"]
  /\ created = [p \in Planner |-> 0]
  /\ stored = [p \in Planner |-> NoDeps]
  /\ seen = [tasks |-> {}, deps |-> NoDeps]

Goto(p, place) == at' = [at EXCEPT ![p] = place]

\* findActiveGoalByTitle: an existing goal of that title ends the call.
FindExisting(p) ==
  /\ verdict = "accepted" /\ at[p] = "start"
  /\ IF \E q \in Planner : goal[q] # "none" THEN Goto(p, "existing") ELSE Goto(p, "goal")
  /\ UNCHANGED <<graphVars, goal, created, stored, seen>>

CreateGoal(p) ==
  /\ at[p] = "goal"
  /\ goal' = [goal EXCEPT ![p] = "draft"]
  /\ Goto(p, "status")
  /\ UNCHANGED <<graphVars, created, stored, seen>>

\* The scope of the plan decides whether it needs approval.
SetStatus(p) ==
  /\ at[p] = "status"
  /\ \E s \in {"proposed", "active"} : goal' = [goal EXCEPT ![p] = s]
  /\ Goto(p, "tasks")
  /\ UNCHANGED <<graphVars, created, stored, seen>>

\* Mutant: one pass, each task is inserted with its dependencies.
CreateTaskWithDeps(p) ==
  /\ at[p] = "tasks"
  /\ \/ /\ created[p] < N
        /\ created' = [created EXCEPT ![p] = @ + 1]
        /\ stored' = [stored EXCEPT ![p][created[p] + 1] = dependsOn[created[p] + 1]]
        /\ UNCHANGED at
     \/ created[p] = N /\ Goto(p, "deps") /\ UNCHANGED <<created, stored>>
  /\ UNCHANGED <<graphVars, goal, seen>>

\* Pass 1.
CreateTask(p) ==
  /\ at[p] = "tasks"
  /\ IF created[p] < N
       THEN created' = [created EXCEPT ![p] = @ + 1] /\ UNCHANGED at
       ELSE Goto(p, "deps") /\ UNCHANGED created
  /\ UNCHANGED <<graphVars, goal, stored, seen>>

\* Tasks whose depends_on is still to be written, in index order.
Undeclared(p) == {t \in Task : stored[p][t] # dependsOn[t]}

\* Mutant: the indices are off by one, as if they counted from one.
SetDependenciesShifted(p) ==
  /\ at[p] = "deps"
  /\ IF Undeclared(p) # {}
       THEN /\ \E t \in Undeclared(p) :
                 /\ \A u \in Undeclared(p) : t <= u
                 /\ stored' = [stored EXCEPT ![p][t] =
                                 {IF d < N THEN d + 1 ELSE 1 : d \in dependsOn[t]}]
            /\ UNCHANGED at
       ELSE Goto(p, "done") /\ UNCHANGED stored
  /\ UNCHANGED <<graphVars, goal, created, seen>>

\* Pass 2.
SetDependencies(p) ==
  /\ at[p] = "deps"
  /\ IF Undeclared(p) # {}
       THEN /\ \E t \in Undeclared(p) :
                 /\ \A u \in Undeclared(p) : t <= u
                 /\ stored' = [stored EXCEPT ![p][t] = dependsOn[t]]
            /\ UNCHANGED at
       ELSE Goto(p, "done") /\ UNCHANGED stored
  /\ UNCHANGED <<graphVars, goal, created, seen>>

\* The request dies or a write fails: what was written stays.
Die(p) ==
  /\ at[p] \notin {"start", "done", "existing", "dead"}
  /\ Goto(p, "dead")
  /\ UNCHANGED <<graphVars, goal, created, stored, seen>>

\* POST /goals/:id/approve, as soon as the goal can be seen.
Approve(p) ==
  /\ goal[p] = "proposed"
  /\ goal' = [goal EXCEPT ![p] = "active"]
  /\ UNCHANGED <<graphVars, at, created, stored, seen>>

\* A run of the goal reads its tasks, listTasksByGoal.  POST /goals/:id/execute
\* refuses a proposed goal and no other.
Read(p) ==
  /\ goal[p] \in {"draft", "active"}
  /\ seen' = [tasks |-> 1..created[p], deps |-> stored[p]]
  /\ UNCHANGED <<graphVars, at, goal, created, stored>>

Next ==
  \/ GraphNext /\ UNCHANGED storeVars
  \/ \E p \in Planner :
       \/ FindExisting(p) \/ CreateGoal(p) \/ SetStatus(p)
       \/ CreateTask(p) \/ SetDependencies(p)
       \/ Die(p) \/ Approve(p) \/ Read(p)

Spec == Init /\ [][Next]_vars

----------------------------------------------------------------------------
\* Whatever a run reads while a plan is being stored, or after storing it
\* died half-way, is a plan the dispatcher can work through: dependencies
\* name only tasks it also read, and have no cycle.
ReadsAreSound ==
  /\ \A t \in Task : seen.deps[t] # {} => t \in seen.tasks
  /\ \A t \in Task : seen.deps[t] \subseteq seen.tasks
  /\ Acyclic(seen.deps, Task)

\* A run that reads any dependency reads every task of the plan, and each
\* dependency it reads is one of the plan's.
ReadsArePlanned ==
  (\E t \in Task : seen.deps[t] # {}) =>
    /\ seen.tasks = Task
    /\ \A t \in Task : seen.deps[t] \in {{}, dependsOn[t]}
=============================================================================
