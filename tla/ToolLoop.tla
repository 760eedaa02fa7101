------------------------------ MODULE ToolLoop ------------------------------
(***************************************************************************)
(* The rounds of Orchestrator.run and runStream (agents/orchestrator.ts):  *)
(* the model is asked, each tool it uses is answered in turn, and it is    *)
(* asked again, up to a number of rounds.  Three kinds of tools matter     *)
(* here: a destructive one, which needs a person's approval;               *)
(* delegate_to_subagent, which queues a run and may wait for it; and the   *)
(* read_file and write_file of one file, which go through the request's    *)
(* ToolCache (services/tool-cache.ts).                                     *)
(* The other side is SubagentRunner (services/subagent.ts), a job of the   *)
(* queue that writes the subagent's row.                                   *)
(*                                                                         *)
(* One conversation and one destructive tool; several requests at once.    *)
(* An approval is named by the request and the round that asked for it,    *)
(* the subagent by the request that queued it, at most one each.  The list *)
(* of pending approvals is cut at 100, which is not reached here.          *)
(***************************************************************************)
EXTENDS Integers, Sequences

CONSTANTS ChatRequest,
          Mixes,          \* bound: which of its tools the model may use in each request
          MaxRounds,      \* MAX_TOOL_ROUNDS, or the round budget
          Attempts,       \* attempts of a job
          MaxToolFaults   \* bound: queries that fail, and deaths of worker or server

ASSUME ToolAssumption ==
  /\ Mixes \subseteq [ChatRequest -> SUBSET {"destroy", "delegate", "read", "write"}]
  /\ MaxRounds \in Nat /\ Attempts \in Nat \ {0} /\ MaxToolFaults \in Nat

VARIABLES mix,        \* the one of Mixes of this behaviour
          turn,       \* where each request is
          uses,       \* the tool uses of the round still to be answered
          round,
          found,      \* existingPending, the approval a use re-checks
          approval,   \* approvals.status, by the use that asked for it
          granted,    \* history: approvals that a person approved
          subagent,   \* subagent_runs.status
          subagentJob, \* where the subagent's job is
          tries,      \* attempts and stalls of the job
          overdue,    \* requests whose five minutes of polling have passed
          file,       \* the content of the file: how often it was written
          cached,     \* the content in the request's cache, if it holds one
          toolFaults

loopVars == <<mix, turn, uses, round, found, approval, granted>>
subagentVars == <<subagent, subagentJob, tries>>
toolVars == <<loopVars, subagentVars, overdue, file, cached, toolFaults>>

Use == ChatRequest \X (1..MaxRounds)
NoUse == <<>>
NotCached == -1
SettledRun == {"completed", "failed", "cancelled"}

ToolInit ==
  /\ mix \in Mixes
  /\ turn = [r \in ChatRequest |-> "idle"]
  /\ uses = [r \in ChatRequest |-> <<>>]
  /\ round = [r \in ChatRequest |-> 0]
  /\ found = [r \in ChatRequest |-> NoUse]
  /\ approval = [u \in Use |-> "none"]
  /\ granted = {}
  /\ subagent = [r \in ChatRequest |-> "none"]
  /\ subagentJob = [r \in ChatRequest |-> "none"]
  /\ tries = [r \in ChatRequest |-> [failed |-> 0, stalled |-> 0]]
  /\ overdue = {}
  /\ file = 0
  /\ cached = [r \in ChatRequest |-> NotCached]
  /\ toolFaults = 0

Turn(r, where) == turn' = [turn EXCEPT ![r] = where]
Fault == toolFaults < MaxToolFaults /\ toolFaults' = toolFaults + 1

Uses(r, tool) == turn[r] = "using" /\ uses[r] # <<>> /\ Head(uses[r]) = tool
Answered(r) == uses' = [uses EXCEPT ![r] = Tail(@)]

\* What a request keeps in memory goes with it.
RequestOver(r, how) ==
  /\ Turn(r, how)
  /\ uses' = [uses EXCEPT ![r] = <<>>]
  /\ round' = [round EXCEPT ![r] = 0]
  /\ found' = [found EXCEPT ![r] = NoUse]
  /\ overdue' = overdue \ {r}
  /\ cached' = [cached EXCEPT ![r] = NotCached]

\* After a destructive use nothing is kept of the approval it looked at.
Forget(r) == found' = [found EXCEPT ![r] = NoUse]

----------------------------------------------------------------------------
(* The loop.                                                               *)

ReceiveMessage(r) ==
  /\ turn[r] = "idle"
  /\ Turn(r, "asking")
  /\ UNCHANGED <<mix, uses, round, found, approval, granted, subagentVars, overdue, file, cached, toolFaults>>

\* Bound: one subagent of a request.
Tools(r) == {tool \in mix[r] : tool = "delegate" => subagent[r] = "none"}

\* One tool, or two one after the other.
Rounds(r) == {<<a>> : a \in Tools(r)} \cup {pair \in Tools(r) \X Tools(r) : pair[1] # pair[2]}

\* The model answers: a text ends the request, and so does anything after the
\* last round.
ModelAnswers(r) ==
  /\ turn[r] = "asking"
  /\ \/ RequestOver(r, "answered")
     \/ /\ round[r] < MaxRounds
        /\ round' = [round EXCEPT ![r] = @ + 1]
        /\ \E blocks \in Rounds(r) : uses' = [uses EXCEPT ![r] = blocks]
        /\ Turn(r, "using")
        /\ UNCHANGED <<found, overdue, cached>>
  /\ UNCHANGED <<mix, approval, granted, subagentVars, file, toolFaults>>

\* Every use has its result, and the model is asked with them.
EndRound(r) ==
  /\ turn[r] = "using" /\ uses[r] = <<>>
  /\ Turn(r, "asking")
  /\ UNCHANGED <<mix, uses, round, found, approval, granted, subagentVars, overdue, file, cached, toolFaults>>

\* No provider answers, the client has gone, or a query fails: the loop throws.
RequestThrows(r) ==
  /\ turn[r] \notin {"idle", "answered", "failed"}
  /\ Fault
  /\ RequestOver(r, "failed")
  /\ UNCHANGED <<mix, approval, granted, subagentVars, file>>

----------------------------------------------------------------------------
(* checkOrCreateDestructiveApproval.                                       *)

Pending == {u \in Use : approval[u] = "pending"}

\* One of the pending approvals that carry the tool and the conversation.
ListApprovals(r) ==
  /\ Uses(r, "destroy")
  /\ \/ \E u \in Pending : found' = [found EXCEPT ![r] = u] /\ Turn(r, "rechecking")
     \/ Pending = {} /\ Turn(r, "requesting") /\ UNCHANGED found
  /\ UNCHANGED <<mix, uses, round, approval, granted, subagentVars, overdue, file, cached, toolFaults>>

\* Mutant: an approval that is no longer pending is taken for an approved one.
RecheckDecided(r) ==
  /\ turn[r] = "rechecking"
  /\ IF approval[found[r]] # "pending"
       THEN Turn(r, "destroying") /\ UNCHANGED <<uses, found>>
       ELSE Turn(r, "using") /\ Answered(r) /\ Forget(r)
  /\ UNCHANGED <<mix, round, approval, granted, subagentVars, overdue, file, cached, toolFaults>>

\* "Re-check if it's been approved since we fetched"; if not, the use is blocked.
RecheckApproval(r) ==
  /\ turn[r] = "rechecking"
  /\ IF approval[found[r]] = "approved"
       THEN Turn(r, "destroying") /\ UNCHANGED <<uses, found>>
       ELSE Turn(r, "using") /\ Answered(r) /\ Forget(r)
  /\ UNCHANGED <<mix, round, approval, granted, subagentVars, overdue, file, cached, toolFaults>>

\* "No existing approval — create one", and the use is blocked.
RequestApproval(r) ==
  /\ turn[r] = "requesting"
  /\ approval' = [approval EXCEPT ![<<r, round[r]>>] = "pending"]
  /\ Turn(r, "using") /\ Answered(r)
  /\ UNCHANGED <<mix, round, found, granted, subagentVars, overdue, file, cached, toolFaults>>

Destroy(r) ==
  /\ turn[r] = "destroying"
  /\ Turn(r, "using") /\ Answered(r) /\ Forget(r)
  /\ UNCHANGED <<mix, round, approval, granted, subagentVars, overdue, file, cached, toolFaults>>

\* resolveApproval, whatever the status is: a person, or the sweep that rejects.
DecideUse(u) ==
  /\ approval[u] # "none"
  /\ \/ approval' = [approval EXCEPT ![u] = "approved"] /\ granted' = granted \cup {u}
     \/ approval' = [approval EXCEPT ![u] = "rejected"] /\ UNCHANGED granted
  /\ UNCHANGED <<mix, turn, uses, round, found, subagentVars, overdue, file, cached, toolFaults>>

----------------------------------------------------------------------------
(* delegate_to_subagent.                                                   *)

CreateSubagent(r) ==
  /\ Uses(r, "delegate")
  /\ subagent' = [subagent EXCEPT ![r] = "queued"]
  /\ Turn(r, "enqueueing")
  /\ UNCHANGED <<mix, uses, round, found, approval, granted, subagentJob, tries, overdue, file, cached, toolFaults>>

\* The job is queued; with wait_for_result the request polls.
EnqueueSubagent(r) ==
  /\ turn[r] = "enqueueing"
  /\ subagentJob' = [subagentJob EXCEPT ![r] = "waiting"]
  /\ \/ Turn(r, "using") /\ Answered(r)
     \/ Turn(r, "polling") /\ UNCHANGED uses
  /\ UNCHANGED <<mix, round, found, approval, granted, subagent, tries, overdue, file, cached, toolFaults>>

\* Mutant: the subagent is waited for without a deadline.
PollUntilEnded(r) ==
  /\ turn[r] = "polling"
  /\ subagent[r] \in {"completed", "failed"}
  /\ Turn(r, "using") /\ Answered(r)
  /\ overdue' = overdue \ {r}
  /\ UNCHANGED <<mix, round, found, approval, granted, subagentVars, file, cached, toolFaults>>

\* "Poll for completion (up to 5 min)": a cancelled run is waited for as well.
PollSubagent(r) ==
  /\ turn[r] = "polling"
  /\ subagent[r] \in {"completed", "failed"} \/ r \in overdue
  /\ Turn(r, "using") /\ Answered(r)
  /\ overdue' = overdue \ {r}
  /\ UNCHANGED <<mix, round, found, approval, granted, subagentVars, file, cached, toolFaults>>

PollOverdue(r) ==
  /\ turn[r] = "polling" /\ r \notin overdue
  /\ overdue' = overdue \cup {r}
  /\ UNCHANGED <<loopVars, subagentVars, file, cached, toolFaults>>

----------------------------------------------------------------------------
(* read_file and write_file, through the request's cache.                  *)

\* What the request has read in the last five minutes is not read again.
ReadFile(r) ==
  /\ Uses(r, "read")
  /\ cached' = [cached EXCEPT ![r] = IF @ = NotCached THEN file ELSE @]
  /\ Answered(r)
  /\ UNCHANGED <<mix, turn, round, found, approval, granted, subagentVars, overdue, file, toolFaults>>

\* One of UNCACHEABLE_TOOLS: the file changes, and what was read of it stays cached, so
\* a later read of the request is answered with the old content.
WriteFile(r) ==
  /\ Uses(r, "write")
  /\ file' = file + 1
  /\ Answered(r)
  /\ UNCHANGED <<mix, turn, round, found, approval, granted, subagentVars, overdue, cached, toolFaults>>

CacheExpires(r) ==
  /\ cached[r] # NotCached
  /\ cached' = [cached EXCEPT ![r] = NotCached]
  /\ UNCHANGED <<loopVars, subagentVars, overdue, file, toolFaults>>

----------------------------------------------------------------------------
(* The subagent's job.                                                     *)

\* POST /:id/cancel, and the write after its check of the status.
CancelSubagent(r) ==
  /\ subagent[r] \in {"queued", "running"}
  /\ subagent' = [subagent EXCEPT ![r] = "cancelled"]
  /\ UNCHANGED <<loopVars, subagentJob, tries, overdue, file, cached, toolFaults>>

\* Mark as running, whatever the row says.
StartSubagent(r) ==
  /\ subagentJob[r] = "waiting"
  /\ subagent' = [subagent EXCEPT ![r] = "running"]
  /\ subagentJob' = [subagentJob EXCEPT ![r] = "working"]
  /\ UNCHANGED <<loopVars, tries, overdue, file, cached, toolFaults>>

CompleteSubagent(r) ==
  /\ subagentJob[r] = "working"
  /\ subagent' = [subagent EXCEPT ![r] = "completed"]
  /\ subagentJob' = [subagentJob EXCEPT ![r] = "over"]
  /\ UNCHANGED <<loopVars, tries, overdue, file, cached, toolFaults>>

\* A failed attempt is made again until there are none left.
AttemptFailed(r) ==
  /\ tries' = [tries EXCEPT ![r].failed = @ + 1]
  /\ subagentJob' = [subagentJob EXCEPT ![r] = IF tries'[r].failed < Attempts THEN "waiting" ELSE "over"]

\* A provider fails: the row is marked failed and the error thrown again.
FailSubagent(r) ==
  /\ subagentJob[r] = "working"
  /\ subagent' = [subagent EXCEPT ![r] = "failed"]
  /\ AttemptFailed(r)
  /\ UNCHANGED <<loopVars, overdue, file, cached, toolFaults>>

\* A write of the row fails: the attempt fails, and the row stays as it is.
SubagentThrows(r) ==
  /\ subagentJob[r] \in {"waiting", "working"}
  /\ Fault
  /\ AttemptFailed(r)
  /\ UNCHANGED <<loopVars, subagent, overdue, file, cached>>

\* Mutant: a job that stalls is given up.
WorkerDiesForGood ==
  /\ Fault
  /\ \E r \in ChatRequest : subagentJob[r] = "working"
  /\ subagentJob' = [r \in ChatRequest |-> IF subagentJob[r] = "working" THEN "over" ELSE subagentJob[r]]
  /\ UNCHANGED <<loopVars, subagent, tries, overdue, file, cached>>

\* The worker dies: a job that stalls is queued again once (maxStalledCount).
WorkerDies ==
  /\ Fault
  /\ \E r \in ChatRequest : subagentJob[r] = "working"
  /\ subagentJob' = [r \in ChatRequest |->
               IF subagentJob[r] # "working" THEN subagentJob[r]
               ELSE IF tries[r].stalled < 1 THEN "waiting" ELSE "over"]
  /\ tries' = [r \in ChatRequest |->
               IF subagentJob[r] = "working" THEN [tries[r] EXCEPT !.stalled = @ + 1] ELSE tries[r]]
  /\ UNCHANGED <<loopVars, subagent, overdue, file, cached>>

RequestStep(r) ==
  \/ ModelAnswers(r) \/ EndRound(r)
  \/ ListApprovals(r) \/ RecheckApproval(r) \/ RequestApproval(r) \/ Destroy(r)
  \/ CreateSubagent(r) \/ EnqueueSubagent(r) \/ PollSubagent(r)
  \/ ReadFile(r) \/ WriteFile(r)

SubagentStep(r) == StartSubagent(r) \/ CompleteSubagent(r) \/ FailSubagent(r)

ToolNext ==
  \/ \E r \in ChatRequest :
       \/ ReceiveMessage(r) \/ RequestStep(r) \/ RequestThrows(r) \/ PollOverdue(r)
       \/ CacheExpires(r) \/ SubagentStep(r) \/ SubagentThrows(r) \/ CancelSubagent(r)
  \/ \E u \in Use : DecideUse(u)
  \/ WorkerDies

ToolSpec == ToolInit /\ [][ToolNext]_toolVars

\* A provider or a query answers or fails, the queue runs its jobs, time passes.
ToolFairSpec ==
  /\ ToolSpec
  /\ \A r \in ChatRequest : WF_toolVars(RequestStep(r)) /\ WF_toolVars(SubagentStep(r))
                            /\ WF_toolVars(PollOverdue(r))

----------------------------------------------------------------------------
\* "Destructive tools require an approved approval before execution": whatever is
\* asked, decided and decided again between the uses of several requests, the tool
\* runs only on an approval that a person gave to another use than this one.
DestructiveApproved ==
  \A r \in ChatRequest :
    turn[r] = "destroying" => found[r] \in granted \ {<<r, round[r]>>}

\* A subagent that is queued or running has a job that waits or is worked on, or a
\* request that is about to queue one: only a query that fails or a death leaves a
\* row that nobody will settle.
SubagentAccounted ==
  \A r \in ChatRequest :
    subagent[r] \in {"queued", "running"} =>
      subagentJob[r] \in {"waiting", "working"} \/ turn[r] = "enqueueing" \/ toolFaults > 0

----------------------------------------------------------------------------
(* Progress: what a request and a subagent have still to do.               *)

\* What is left of a request: its rounds, the uses of this one, and how far the use
\* under way has come.
RequestLeft(r) ==
  IF turn[r] \in {"answered", "failed"} THEN 0
  ELSE LET place == CASE turn[r] = "asking" -> 1
                      [] turn[r] \in {"idle", "destroying", "polling"} -> 2
                      [] turn[r] \in {"rechecking", "requesting", "enqueueing"} -> 3
                      [] OTHER -> 4
       IN 12 * (MaxRounds - round[r]) + 4 * Len(uses[r]) + place

\* Whatever happens, in this request or elsewhere, leaves a request where it is or
\* brings it closer to its end: no approval that is decided, refused or decided
\* again, and no subagent that is waited for, sends it back.
RequestsOnlyForward ==
  [][\A r \in ChatRequest :
       UNCHANGED <<turn[r], uses[r], round[r]>> \/ RequestLeft(r)' < RequestLeft(r)]_toolVars

\* What is left of a subagent's job: the attempts and the stall that it may have.
SubagentLeft(r) ==
  LET triesLeft == (Attempts - tries[r].failed) + (1 - tries[r].stalled)
  IN CASE subagentJob[r] = "none" -> 2 * triesLeft + 2
       [] subagentJob[r] = "waiting" -> 2 * triesLeft + 1
       [] subagentJob[r] = "working" -> 2 * triesLeft
       [] OTHER -> 0

\* The job of a subagent is made once and comes closer to its end with everything
\* that happens to it: neither a retry nor a stall is without end.
SubagentsOnlyForward ==
  [][\A r \in ChatRequest :
       UNCHANGED <<subagentJob[r], tries[r]>> \/ SubagentLeft(r)' < SubagentLeft(r)]_toolVars

----------------------------------------------------------------------------
\* A request ends, blocked uses and subagents that never come back included: a
\* wait for a run that was cancelled, or whose job is lost, is given up.
RequestEnds ==
  \A r \in ChatRequest : (turn[r] = "asking") ~> (turn[r] \in {"answered", "failed"})

\* A subagent whose job was queued comes to a verdict: its run completes or fails, or
\* somebody cancels it, even if a worker dies or a query fails once.  A retry of a
\* run that failed marks it as running again, and may leave it so if its write fails.
SubagentSettles ==
  \A r \in ChatRequest :
    (subagentJob[r] = "waiting") ~> (subagent[r] \in SettledRun \/ toolFaults > 1)
=============================================================================
