---------------------------- MODULE ApprovalGate ----------------------------
(***************************************************************************)
(* executeYellowTierTool (agents/tool-executor.ts): a call of a tool of    *)
(* the yellow tier asks for an approval and polls until someone resolves   *)
(* it (routes/approvals.ts) or its timeout passes.  A sweep every minute   *)
(* (plugins/queue.ts) denies what has been pending for five minutes.       *)
(*                                                                         *)
(* All three write the row by id, whatever its status is by then.  Time:   *)
(* "due" is that the tool's timeoutMs have passed since the call asked,    *)
(* "old" that the sweep's 300 seconds have; either can come first.         *)
(***************************************************************************)
EXTENDS Integers

CONSTANTS Call,          \* calls of yellow tools
          External,      \* those of ALWAYS_REQUIRE_APPROVAL
          MaxDecisions,  \* bound: decisions people take on one approval
          MaxFaults      \* bound: deaths of the server, and queries that fail

ASSUME GateAssumption ==
  External \subseteq Call /\ MaxDecisions \in Nat /\ MaxFaults \in Nat

VARIABLES autonomous,  \* calls from an autonomous session
          call,        \* where each call is
          row,         \* approvals.status of the approval of each call
          due, old,
          sweeping,    \* approvals the sweep has listed and not yet denied
          approved,    \* history: calls that a person approved
          decisions, faults

vars == <<autonomous, call, row, due, old, sweeping, approved, decisions, faults>>

Waiting == {"checking", "sleeping", "denying"}

TypeOK ==
  /\ autonomous \subseteq Call
  /\ call \in [Call -> {"idle", "running", "ran", "refused", "timed out", "gone"} \cup Waiting]
  /\ row \in [Call -> {"none", "pending", "approved", "rejected"}]
  /\ due \subseteq Call /\ old \subseteq Call /\ sweeping \subseteq Call
  /\ approved \subseteq Call
  /\ decisions \in [Call -> 0..MaxDecisions] /\ faults \in 0..MaxFaults

Init ==
  /\ autonomous \in SUBSET Call
  /\ call = [c \in Call |-> "idle"]
  /\ row = [c \in Call |-> "none"]
  /\ due = {} /\ old = {} /\ sweeping = {}
  /\ approved = {}
  /\ decisions = [c \in Call |-> 0] /\ faults = 0

\* Autonomous sessions approve their own calls, but not the external ones.
SelfApproved(c) == c \in autonomous \ External

Go(c, where) == call' = [call EXCEPT ![c] = where]

\* resolveApproval: an UPDATE without a condition on the status.
ResolveApproval(c, status) == row' = [row EXCEPT ![c] = status]

----------------------------------------------------------------------------
(* The call.                                                               *)

\* Mutant: every autonomous call is let through.
AskUnlessAutonomous(c) ==
  /\ call[c] = "idle"
  /\ \/ c \in autonomous /\ Go(c, "running") /\ UNCHANGED row
     \/ c \notin autonomous /\ Go(c, "checking") /\ row' = [row EXCEPT ![c] = "pending"]
  /\ UNCHANGED <<autonomous, due, old, sweeping, approved, decisions, faults>>

Ask(c) ==
  /\ call[c] = "idle"
  /\ \/ SelfApproved(c) /\ Go(c, "running") /\ UNCHANGED row
     \/ ~SelfApproved(c) /\ Go(c, "checking") /\ row' = [row EXCEPT ![c] = "pending"]
  /\ UNCHANGED <<autonomous, due, old, sweeping, approved, decisions, faults>>

\* while (Date.now() < deadline)
Check(c) ==
  /\ call[c] = "checking"
  /\ Go(c, IF c \in due THEN "denying" ELSE "sleeping")
  /\ UNCHANGED <<autonomous, row, due, old, sweeping, approved, decisions, faults>>

\* The poll after the pause acts on the status it reads.
Poll(c) ==
  /\ call[c] = "sleeping"
  /\ \/ row[c] = "approved" /\ Go(c, "running")
     \/ row[c] = "rejected" /\ Go(c, "refused")
     \/ row[c] = "pending" /\ Go(c, "checking")
  /\ UNCHANGED <<autonomous, row, due, old, sweeping, approved, decisions, faults>>

\* Mutant: the loop goes on after the denial.
DenyOnAndOn(c) ==
  /\ call[c] = "denying"
  /\ ResolveApproval(c, "rejected")
  /\ Go(c, "checking")
  /\ UNCHANGED <<autonomous, due, old, sweeping, approved, decisions, faults>>

\* "Timeout — auto-deny": a decision since the last poll is overwritten.
Deny(c) ==
  /\ call[c] = "denying"
  /\ ResolveApproval(c, "rejected")
  /\ Go(c, "timed out")
  /\ UNCHANGED <<autonomous, due, old, sweeping, approved, decisions, faults>>

Finish(c) ==
  /\ call[c] = "running"
  /\ Go(c, "ran")
  /\ UNCHANGED <<autonomous, row, due, old, sweeping, approved, decisions, faults>>

----------------------------------------------------------------------------
(* Around it.                                                              *)

\* Mutant: the status of the body is not validated.
ResolveUnchecked(c) ==
  /\ row[c] # "none" /\ decisions[c] < MaxDecisions
  /\ \E status \in {"approved", "rejected", "whatever"} : ResolveApproval(c, status)
  /\ decisions' = [decisions EXCEPT ![c] = @ + 1]
  /\ UNCHANGED <<autonomous, call, due, old, sweeping, approved, faults>>

\* PATCH /:id/resolve
Resolve(c) ==
  /\ row[c] # "none" /\ decisions[c] < MaxDecisions
  /\ \/ ResolveApproval(c, "approved") /\ approved' = approved \cup {c}
     \/ ResolveApproval(c, "rejected") /\ UNCHANGED approved
  /\ decisions' = [decisions EXCEPT ![c] = @ + 1]
  /\ UNCHANGED <<autonomous, call, due, old, sweeping, faults>>

BecomeDue(c) ==
  /\ row[c] # "none" /\ c \notin due
  /\ due' = due \cup {c}
  /\ UNCHANGED <<autonomous, call, row, old, sweeping, approved, decisions, faults>>

BecomeOld(c) ==
  /\ row[c] # "none" /\ c \notin old
  /\ old' = old \cup {c}
  /\ UNCHANGED <<autonomous, call, row, due, sweeping, approved, decisions, faults>>

\* listExpiredPendingApprovals
Sweep ==
  /\ sweeping = {}
  /\ sweeping' = {c \in old : row[c] = "pending"}
  /\ sweeping' # {}
  /\ UNCHANGED <<autonomous, call, row, due, old, approved, decisions, faults>>

\* Mutant: what is listed is not written.
SweepOver(c) ==
  /\ c \in sweeping
  /\ sweeping' = sweeping \ {c}
  /\ UNCHANGED <<autonomous, call, row, due, old, approved, decisions, faults>>

\* One of what was listed; a decision since the list is overwritten.
SweepDeny(c) ==
  /\ c \in sweeping
  /\ ResolveApproval(c, "rejected")
  /\ sweeping' = sweeping \ {c}
  /\ UNCHANGED <<autonomous, call, due, old, approved, decisions, faults>>

\* A write of the sweep fails, and the rest of its list is not denied.
SweepFails ==
  /\ sweeping # {}
  /\ faults < MaxFaults /\ faults' = faults + 1
  /\ sweeping' = {}
  /\ UNCHANGED <<autonomous, call, row, due, old, approved, decisions>>

\* The server dies with its calls and its sweep; the rows stay.
Die ==
  /\ faults < MaxFaults /\ faults' = faults + 1
  /\ call' = [c \in Call |-> IF call[c] \in Waiting \cup {"running"} THEN "gone" ELSE call[c]]
  /\ sweeping' = {}
  /\ UNCHANGED <<autonomous, row, due, old, approved, decisions>>

\* A query of a call fails: the call throws, and its approval stays as it is.
QueryFails(c) ==
  /\ call[c] \in Waiting
  /\ faults < MaxFaults /\ faults' = faults + 1
  /\ Go(c, "gone")
  /\ UNCHANGED <<autonomous, row, due, old, sweeping, approved, decisions>>

Step(c) == Check(c) \/ Poll(c) \/ Deny(c) \/ Finish(c)

Next ==
  \/ \E c \in Call : Ask(c) \/ Step(c) \/ Resolve(c)
                     \/ BecomeDue(c) \/ BecomeOld(c) \/ SweepDeny(c) \/ QueryFails(c)
  \/ Sweep \/ SweepFails \/ Die

Spec == Init /\ [][Next]_vars

\* The event loop runs a call, time passes, the sweep is scheduled every minute
\* and goes through its list.  Nobody has to ask or to decide.
FairSpec ==
  /\ Spec
  /\ \A c \in Call : WF_vars(Step(c)) /\ WF_vars(BecomeDue(c)) /\ WF_vars(BecomeOld(c))
  /\ WF_vars(Sweep)
  /\ \A c \in Call : WF_vars(SweepDeny(c))

----------------------------------------------------------------------------
\* No yellow tool runs unless a person has approved that very call: not after a
\* timeout, a sweep, a death or a rejection alone.  Only an autonomous session
\* does without, and not for what communicates on the user's behalf.
ApprovedFirst ==
  \A c \in Call : call[c] \in {"running", "ran"} => c \in approved \/ SelfApproved(c)

\* An approval that is still pending has its caller polling, or lost its caller: none
\* is left pending by a call that was answered, timed out or ran.
PendingIsAsked == \A c \in Call : row[c] = "pending" => call[c] \in Waiting \cup {"gone"}

\* What is left of a call whose timeout has passed.
CallLeft(c) ==
  CASE call[c] = "sleeping" -> 3 [] call[c] = "checking" -> 2 [] call[c] = "denying" -> 1
    [] OTHER -> 0

\* After the timeout the poll does not go round any more: whatever happens around a
\* call leaves it where it is or brings it closer to its answer, and no approval that
\* was decided is pending again.
DueCallsEnd ==
  [][\A c \in Call :
       /\ c \in due => c \in due'
       /\ c \in due /\ call[c] \in Waiting => UNCHANGED call[c] \/ CallLeft(c)' < CallLeft(c)
       /\ row[c] \in {"approved", "rejected"} => row'[c] \in {"approved", "rejected"}]_vars

\* A call that asked is answered, whether anyone decides or not.
CallEnds == \A c \in Call : (call[c] \in Waiting) ~> (call[c] \notin Waiting)

\* No approval stays pending for ever: the sweep denies those whose caller died.
PendingEnds == \A c \in Call : (row[c] = "pending") ~> (row[c] # "pending")
=============================================================================
