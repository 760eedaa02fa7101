----------------------------- MODULE MCTaskDag -----------------------------
(***************************************************************************)
(* TaskDag for one run of the checker: four tasks, the last of which      *)
(* depends on the others.  The others depend on each other in every way in *)
(* which a task names earlier ones, or in a chain that names later ones,   *)
(* and the one that depends on none may name an id of no task of the goal. *)
(* Three independent tasks are more than a round of two can take.          *)
(***************************************************************************)
EXTENDS TaskDag

JoinedPlans ==
  LET ids == SUBSET Foreign IN
  {<<first, second, third, {1, 2, 3}>> :
     first \in ids, second \in SUBSET {1}, third \in SUBSET {1, 2}}
  \cup {<<{2}, {3}, third, {1, 2, 3}>> : third \in ids}

JoinedInit == deps \in JoinedPlans /\ Init

JoinedSpec == JoinedInit /\ [][Next]_vars /\ WF_vars(RunStep)
=============================================================================
