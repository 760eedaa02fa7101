-------------------------- MODULE DependencyGraph --------------------------
(***************************************************************************)
(* The dependencies of a plan as a function from a task to the set of what *)
(* it depends on, and what it means that they have no cycle.               *)
(***************************************************************************)
EXTENDS Integers

\* The tasks of T can be numbered so that dependencies come first.
Acyclic(g, T) ==
  \E rank \in [T -> T] : \A t \in T : \A d \in g[t] \cap T : rank[d] < rank[t]
=============================================================================
