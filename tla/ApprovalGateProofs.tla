------------------------- MODULE ApprovalGateProofs -------------------------
(***************************************************************************)
(* No yellow tool runs unapproved, for every set of calls and every number *)
(* of decisions, deaths and failing queries.                               *)
(***************************************************************************)
EXTENDS ApprovalGate, TLAPS

\* The rows say "approved" only of calls that a person has approved.
RowsApproved == \A c \in Call : row[c] = "approved" => c \in approved

IInv == TypeOK /\ RowsApproved /\ ApprovedFirst

\* What is counted stays within its bound.
LEMMA FaultCounted ==
  ASSUME faults \in 0..MaxFaults, faults < MaxFaults, faults' = faults + 1
  PROVE  faults' \in 0..MaxFaults
  BY GateAssumption

LEMMA DecisionCounted ==
  ASSUME decisions \in [Call -> 0..MaxDecisions], NEW c \in Call, decisions[c] < MaxDecisions,
         decisions' = [decisions EXCEPT ![c] = @ + 1]
  PROVE  decisions' \in [Call -> 0..MaxDecisions]
  BY GateAssumption

\* Nothing is asked, approved or running at first.
LEMMA InvariantInit == Init => IInv
  BY GateAssumption DEF Init, IInv, TypeOK, Waiting, RowsApproved, ApprovedFirst

\* The steps of one call: only one that reads an approved row, or that approves
\* itself, goes on to run.
LEMMA InvariantCall ==
  ASSUME IInv, NEW c \in Call, Ask(c) \/ Step(c) \/ QueryFails(c)
  PROVE  IInv'
  <1> USE GateAssumption DEF IInv, TypeOK, Waiting, RowsApproved, ApprovedFirst, SelfApproved, Go
  <1>1. CASE Ask(c)
    BY <1>1 DEF Ask
  <1>2. CASE Check(c)
    BY <1>2 DEF Check
  <1>3. CASE Poll(c)
    BY <1>3 DEF Poll
  <1>4. CASE Deny(c)
    BY <1>4 DEF Deny, ResolveApproval
  <1>5. CASE Finish(c)
    BY <1>5 DEF Finish
  <1>6. CASE QueryFails(c)
    <2>1. faults' \in 0..MaxFaults
      BY <1>6, FaultCounted, Zenon DEF QueryFails
    <2>2. call' \in [Call -> {"idle", "running", "ran", "refused", "timed out", "gone"} \cup Waiting]
      BY <1>6 DEF QueryFails
    <2>3. \A d \in Call : call'[d] \in {"running", "ran"} => call[d] \in {"running", "ran"}
      BY <1>6 DEF QueryFails
    <2>4. QED
      BY <1>6, <2>1, <2>2, <2>3 DEF QueryFails
  <1>7. QED
    BY <1>1, <1>2, <1>3, <1>4, <1>5, <1>6 DEF Step

\* The decisions, the clock and the sweep: only a person writes "approved".
LEMMA InvariantAround ==
  ASSUME IInv, NEW c \in Call, Resolve(c) \/ BecomeDue(c) \/ BecomeOld(c) \/ SweepDeny(c)
  PROVE  IInv'
  <1> USE GateAssumption
      DEF IInv, TypeOK, Waiting, RowsApproved, ApprovedFirst, SelfApproved, ResolveApproval
  <1>1. CASE Resolve(c)
    <2>1. decisions' \in [Call -> 0..MaxDecisions]
      BY <1>1, DecisionCounted, Zenon DEF Resolve
    <2>2. row' \in [Call -> {"none", "pending", "approved", "rejected"}]
      BY <1>1 DEF Resolve
    <2>3. approved' \subseteq Call /\ approved \subseteq approved' /\ RowsApproved'
      BY <1>1 DEF Resolve
    <2>4. QED
      BY <1>1, <2>1, <2>2, <2>3 DEF Resolve
  <1>2. CASE BecomeDue(c)
    BY <1>2 DEF BecomeDue
  <1>3. CASE BecomeOld(c)
    BY <1>3 DEF BecomeOld
  <1>4. CASE SweepDeny(c)
    BY <1>4 DEF SweepDeny
  <1>5. QED
    BY <1>1, <1>2, <1>3, <1>4

\* A call that has not asked has no approval, which the sweep could list.
IdleUnasked == \A c \in Call : call[c] = "idle" => row[c] = "none" /\ c \notin sweeping

AskedInv == IdleUnasked /\ PendingIsAsked

\* What a step may do to a call whose timeout has passed, and to a decision.
DueCallEnds(c) ==
  /\ c \in due => c \in due'
  /\ c \in due /\ call[c] \in Waiting => UNCHANGED call[c] \/ CallLeft(c)' < CallLeft(c)
  /\ row[c] \in {"approved", "rejected"} => row'[c] \in {"approved", "rejected"}

\* A step keeps what is said of a call that it is not about.
LEMMA OthersKept ==
  ASSUME TypeOK, AskedInv, NEW d \in Call, due \subseteq due', sweeping' \subseteq sweeping,
         UNCHANGED <<call[d], row[d]>>
  PROVE  /\ call'[d] = "idle" => row'[d] = "none" /\ d \notin sweeping'
         /\ row'[d] = "pending" => call'[d] \in Waiting \cup {"gone"}
         /\ DueCallEnds(d)
  BY DEF AskedInv, IdleUnasked, PendingIsAsked, DueCallEnds

\* The steps of one call, its decisions and its denial by the sweep.
LEMMA AskedCall ==
  ASSUME TypeOK, AskedInv, NEW c \in Call,
         Ask(c) \/ Step(c) \/ QueryFails(c) \/ Resolve(c) \/ BecomeDue(c) \/ BecomeOld(c)
           \/ SweepDeny(c)
  PROVE  AskedInv' /\ \A d \in Call : DueCallEnds(d)
  <1>1. /\ due \subseteq due' /\ sweeping' \subseteq sweeping
        /\ \A d \in Call \ {c} : UNCHANGED <<call[d], row[d]>>
    BY DEF Ask, Step, Check, Poll, Deny, Finish, QueryFails, Resolve, BecomeDue, BecomeOld, SweepDeny,
           Go, ResolveApproval, TypeOK
  <1>2. \/ /\ call[c] = "idle"
           /\ \/ call'[c] = "running" /\ UNCHANGED row
              \/ call'[c] = "checking" /\ row'[c] = "pending"
        \/ /\ call[c] \in Waiting \cup {"running"} /\ UNCHANGED row
           /\ \/ call[c] = "checking" /\ c \in due /\ call'[c] = "denying"
              \/ call[c] = "checking" /\ c \notin due /\ call'[c] = "sleeping"
              \/ call[c] = "sleeping" /\ row[c] = "pending" /\ call'[c] = "checking"
              \/ call[c] # "denying" /\ row[c] # "pending" /\ call'[c] \in {"running", "refused"}
              \/ call[c] = "running" /\ call'[c] = "ran"
              \/ call'[c] = "gone"
        \/ call[c] = "denying" /\ call'[c] = "timed out" /\ row'[c] = "rejected"
        \/ call'[c] = call[c] /\ row[c] # "none" /\ row'[c] \in {"approved", "rejected"}
        \/ call'[c] = call[c] /\ c \in sweeping /\ row'[c] = "rejected"
        \/ UNCHANGED <<call, row>>
    BY DEF Ask, Step, Check, Poll, Deny, Finish, QueryFails, Resolve, BecomeDue, BecomeOld, SweepDeny,
           Go, ResolveApproval, TypeOK, Waiting
  <1>3. /\ call'[c] = "idle" => row'[c] = "none" /\ c \notin sweeping'
        /\ row'[c] = "pending" => call'[c] \in Waiting \cup {"gone"}
    BY <1>1, <1>2 DEF AskedInv, IdleUnasked, PendingIsAsked, Waiting
  <1>4. DueCallEnds(c)
    <2>1. c \in due => c \in due'
      BY <1>1
    <2>2. row[c] \in {"approved", "rejected"} => row'[c] \in {"approved", "rejected"}
      BY <1>2 DEF AskedInv, IdleUnasked
    <2>3. ASSUME c \in due, call[c] \in Waiting PROVE UNCHANGED call[c] \/ CallLeft(c)' < CallLeft(c)
      <3>1. CASE call'[c] \notin Waiting
        BY <2>3, <3>1 DEF CallLeft, Waiting
      <3>2. CASE call'[c] \in Waiting
        <4>1. \/ UNCHANGED call[c]
              \/ call[c] = "checking" /\ call'[c] = "denying"
              \/ call[c] = "sleeping" /\ call'[c] = "checking"
          BY <1>2, <2>3, <3>2 DEF Waiting
        <4>2. QED
          BY <4>1 DEF CallLeft
      <3>3. QED
        BY <3>1, <3>2
    <2>4. QED
      BY <2>1, <2>2, <2>3 DEF DueCallEnds
  <1>5. QED
    BY <1>1, <1>3, <1>4, OthersKept DEF AskedInv, IdleUnasked, PendingIsAsked

\* Every step keeps track of who asked, and lets a call that is due only end.
LEMMA AskedStep ==
  TypeOK /\ AskedInv /\ [Next]_vars => AskedInv' /\ \A d \in Call : DueCallEnds(d)
  <1> SUFFICES ASSUME TypeOK, AskedInv, [Next]_vars
               PROVE  AskedInv' /\ \A d \in Call : DueCallEnds(d)
    OBVIOUS
  <1>1. CASE Sweep
    <2>1. UNCHANGED <<call, row, due>> /\ sweeping' = {c \in old : row[c] = "pending"}
      BY <1>1 DEF Sweep
    <2>2. QED
      BY <2>1 DEF AskedInv, IdleUnasked, PendingIsAsked, DueCallEnds
  <1>2. CASE SweepFails \/ UNCHANGED vars
    <2>1. UNCHANGED <<call, row, due>> /\ sweeping' \subseteq sweeping
      BY <1>2 DEF SweepFails, vars
    <2>2. QED
      BY <2>1, OthersKept DEF AskedInv, IdleUnasked, PendingIsAsked
  <1>3. CASE Die
    <2>1. /\ UNCHANGED <<row, due>> /\ sweeping' = {}
          /\ \A c \in Call : call'[c] = IF call[c] \in Waiting \cup {"running"} THEN "gone"
                                                                             ELSE call[c]
      BY <1>3 DEF Die
    <2>2. AskedInv'
      BY <2>1 DEF AskedInv, IdleUnasked, PendingIsAsked, Waiting
    <2>3. ASSUME NEW d \in Call, call[d] \in Waiting PROVE CallLeft(d)' < CallLeft(d)
      BY <2>1, <2>3 DEF CallLeft, Waiting
    <2>4. QED
      BY <2>1, <2>2, <2>3 DEF DueCallEnds
  <1>4. QED
    BY <1>1, <1>2, <1>3, AskedCall DEF Next

\* No step of anyone leaves the invariant.
LEMMA InvariantStep == IInv /\ [Next]_vars => IInv'
  <1> SUFFICES ASSUME IInv, [Next]_vars PROVE IInv'
    OBVIOUS
  <1> USE GateAssumption DEF IInv, TypeOK, Waiting, RowsApproved, ApprovedFirst, SelfApproved
  <1>1. CASE Sweep
    BY <1>1 DEF Sweep
  <1>2. CASE SweepFails
    <2>1. faults' \in 0..MaxFaults
      BY <1>2, FaultCounted, Zenon DEF SweepFails
    <2>2. QED
      BY <1>2, <2>1 DEF SweepFails
  <1>3. CASE Die
    <2>1. faults' \in 0..MaxFaults
      BY <1>3, FaultCounted, Zenon DEF Die
    <2>2. call' \in [Call -> {"idle", "running", "ran", "refused", "timed out", "gone"} \cup Waiting]
      BY <1>3 DEF Die
    <2>3. \A d \in Call : call'[d] \in {"running", "ran"} => call[d] \in {"running", "ran"}
      BY <1>3 DEF Die
    <2>4. QED
      BY <1>3, <2>1, <2>2, <2>3 DEF Die
  <1>4. CASE UNCHANGED vars
    BY <1>4 DEF vars
  <1>5. QED
    BY <1>1, <1>2, <1>3, <1>4, InvariantCall, InvariantAround DEF Next

\* No yellow tool runs unless a person has approved that very call, or an
\* autonomous session did without where it may.
THEOREM ApprovedFirstHolds == Spec => []ApprovedFirst
  BY InvariantInit, InvariantStep, PTL DEF Spec, IInv

\* Every variable keeps its type.
THEOREM TypeCorrect == Spec => []TypeOK
  BY InvariantInit, InvariantStep, PTL DEF Spec, IInv

\* Only a call that is polling, or that died, leaves an approval pending.
THEOREM PendingIsAskedHolds == Spec => []PendingIsAsked
  <1>1. Init => AskedInv
    BY DEF Init, AskedInv, IdleUnasked, PendingIsAsked
  <1>2. QED
    BY <1>1, AskedStep, TypeCorrect, PTL DEF Spec, AskedInv

\* A call whose timeout has passed comes closer to its answer with each of its steps,
\* whatever people, the sweep and a death of the server do around it, and what was
\* decided is never pending again.
THEOREM DueCallsEndHolds == Spec => DueCallsEnd
  <1>1. Init => AskedInv
    BY DEF Init, AskedInv, IdleUnasked, PendingIsAsked
  <1>2. TypeOK /\ AskedInv /\ [Next]_vars => [\A c \in Call : DueCallEnds(c)]_vars
    BY AskedStep
  <1>3. TypeOK /\ AskedInv /\ [Next]_vars => AskedInv'
    BY AskedStep
  <1>4. Spec => [][\A c \in Call : DueCallEnds(c)]_vars
    BY <1>1, <1>2, <1>3, TypeCorrect, PTL DEF Spec
  <1>5. [\A c \in Call : DueCallEnds(c)]_vars =>
          [\A c \in Call :
             /\ c \in due => c \in due'
             /\ c \in due /\ call[c] \in Waiting => UNCHANGED call[c] \/ CallLeft(c)' < CallLeft(c)
             /\ row[c] \in {"approved", "rejected"} => row'[c] \in {"approved", "rejected"}]_vars
    BY DEF DueCallEnds
  <1>6. QED
    BY <1>4, <1>5, PTL DEF DueCallsEnd
=============================================================================
