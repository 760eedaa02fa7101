-------------------------- MODULE DependencyOrder --------------------------
(***************************************************************************)
(* What a dispatcher of dependent tasks promises, whatever its loop looks  *)
(* like: tasks begin only when all they depend on has completed, no more   *)
(* than Limit work at once, a task is skipped only downstream of a         *)
(* failure, and inside one run a verdict is final.  Starting over forgets  *)
(* every verdict at once.                                                  *)
(***************************************************************************)
EXTENDS Integers, FiniteSets

CONSTANTS Task, Limit
VARIABLES deps, state

Init == state = [t \in Task |-> "waiting"]

Working == {t \in Task : state[t] = "working"}

\* Several tasks may begin at the same moment.
Begin ==
  \E S \in SUBSET Task :
    /\ S # {}
    /\ \A t \in S : /\ state[t] = "waiting"
                    /\ \A d \in deps[t] : d \in Task /\ state[d] = "completed"
    /\ Cardinality(Working \cup S) <= Limit
    /\ state' = [t \in Task |-> IF t \in S THEN "working" ELSE state[t]]

Settle(t) ==
  /\ state[t] = "working"
  /\ \E s \in {"completed", "failed", "rejected"} : state' = [state EXCEPT ![t] = s]

Skip(t) ==
  /\ state[t] = "waiting"
  /\ \E d \in deps[t] \cap Task : state[d] \in {"failed", "skipped"}
  /\ state' = [state EXCEPT ![t] = "skipped"]

StartOver == state' = [t \in Task |-> "waiting"]

Next ==
  /\ UNCHANGED deps
  /\ \/ Begin
     \/ StartOver
     \/ \E t \in Task : Settle(t) \/ Skip(t)

Spec == Init /\ [][Next]_<<deps, state>>
=============================================================================
