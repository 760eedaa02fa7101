----------------------------- MODULE GroupOrder -----------------------------
(***************************************************************************)
(* What a dispatcher of grouped tasks promises, however it loops and by    *)
(* whatever key it sorts: the tasks with the same key begin at the same    *)
(* moment, once every task with a smaller key has its verdict; a group     *)
(* with a gated task, and all that come after it, never begin; and inside  *)
(* one run a verdict is final.  The gates are those that stood when        *)
(* nothing had begun.  Starting over forgets verdicts and gates.           *)
(***************************************************************************)
EXTENDS Integers

CONSTANT Task
VARIABLES key, gates, state

Init ==
  /\ gates = {}
  /\ state = [t \in Task |-> "waiting"]

Gate ==
  /\ \A t \in Task : state[t] = "waiting"
  /\ gates' \in SUBSET Task
  /\ UNCHANGED state

\* The whole group of first begins.
Begin(first) ==
  /\ \A t \in Task :
       /\ key[t] < key[first] => state[t] \in {"completed", "failed", "rejected"}
       /\ key[t] = key[first] => state[t] = "waiting" /\ t \notin gates
       /\ key[t] > key[first] => state[t] = "waiting"
  /\ state' = [t \in Task |-> IF key[t] = key[first] THEN "working" ELSE state[t]]
  /\ UNCHANGED gates

Settle(t) ==
  /\ state[t] = "working"
  /\ \E s \in {"completed", "failed", "rejected"} : state' = [state EXCEPT ![t] = s]
  /\ UNCHANGED gates

StartOver ==
  /\ state' = [t \in Task |-> "waiting"]
  /\ gates' = {}

Next ==
  /\ UNCHANGED key
  /\ \/ Gate \/ StartOver
     \/ \E t \in Task : Begin(t) \/ Settle(t)

Spec == Init /\ [][Next]_<<key, gates, state>>
=============================================================================
