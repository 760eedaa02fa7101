---------------------------- MODULE DeployHealth ----------------------------
(***************************************************************************)
(* A deployment from the workflow's first webhook to the last job about    *)
(* it: the workflow (.github/workflows/deploy.yml) reports what it does,   *)
(* routes/deploys.ts keeps a row and queues jobs, and the one worker of    *)
(* the queue (plugins/queue.ts) verifies, soaks, remediates and rolls back *)
(* (services/deploy-health.ts).  The failures that are counted meanwhile   *)
(* are DeployBreaker's: here deployments are paused or not, as it may be.  *)
(*                                                                         *)
(* The server that answers the webhooks and runs the jobs is in one of the *)
(* containers that are restarted, and may die by itself: a request it was  *)
(* answering goes unanswered, which the workflow takes for a warning, and  *)
(* its job stalls, is given to the next server once, and fails the second  *)
(* time.  A job whose attempt throws is attempted again, up to             *)
(* DeployAttempts times; one that has failed stays in the queue's list of  *)
(* failed jobs.                                                            *)
(*                                                                         *)
(* Which version runs is left out: a health check can answer either way    *)
(* whatever runs, a restart included, and so can a soak.                   *)
(***************************************************************************)
EXTENDS Integers

CONSTANTS Deployments,      \* number of deployments of a behaviour
          DeployAttempts,   \* attempts of a job: 3 in the code
          MaxIncidents      \* bound: what fails or dies, and what a person does

ASSUME DeployAssumption ==
  Deployments \in Nat /\ DeployAttempts \in Nat \ {0} /\ MaxIncidents \in Nat

Deployment == 1..Deployments

\* A verification that runs twice queues two soaks.
Job == [kind : {"verify-deploy", "analyze-failure", "soak-check"}, deployment : Deployment,
        copy : {0, 1}]

Verification(d) == [kind |-> "verify-deploy", deployment |-> d, copy |-> 0]
Analysis(d) == [kind |-> "analyze-failure", deployment |-> d, copy |-> 0]
Soak(d, i) == [kind |-> "soak-check", deployment |-> d, copy |-> i]

VARIABLES workflow,     \* where the workflow or the webhook it called is, with which
                        \* deployment, and whether it has rolled back
          deployStatus, \* deployments.status
          jobState,     \* each job: "none", "waiting", "active", "completed", "failed", or
                        \* "flushed" with the rest of Redis
          attempts,     \* attempts that threw, of each job that is not over
          stalled,      \* jobs that were given to the next server, and are not over
          verifier,     \* where the worker is, and with which job
          unqueued,     \* history: deployments whose verification was never queued
          rollingBack,  \* deployment rolled back by hand whose row is still to be written, or 0
          incidents

jobVars == <<jobState, attempts, stalled, verifier>>
deployVars == <<workflow, deployStatus, jobVars, unqueued, rollingBack, incidents>>

Resting == [at |-> "resting"]

DeployInit ==
  /\ workflow = [at |-> "idle", deployment |-> 0, undone |-> FALSE]
  /\ deployStatus = [d \in Deployment |-> "none"]
  /\ jobState = [j \in Job |-> "none"] /\ attempts = [j \in Job |-> 0]
  /\ stalled = {} /\ verifier = Resting
  /\ unqueued = {} /\ rollingBack = 0 /\ incidents = 0

SetStatusOf(d, s) == deployStatus' = [deployStatus EXCEPT ![d] = s]
Known(d) == deployStatus[d] # "none"
Queue(job) == jobState' = [jobState EXCEPT ![job] = "waiting"]

Incident == incidents < MaxIncidents /\ incidents' = incidents + 1

----------------------------------------------------------------------------
(* The server dies, and so does what it was doing.                         *)

Reported(w) == IF w.undone THEN "rolled back" ELSE "idle"

\* Where a workflow goes on whose webhook goes unanswered.
Unanswered(w) ==
  IF w.at \in {"insert", "enqueue"} THEN "build"
  ELSE IF w.at = "analysing" THEN Reported(w)
  ELSE w.at

\* The job under way waits again, or has failed if it had stalled before: BullMQ
\* counts a job's stalls, and allows one.
Stall ==
  IF verifier = Resting \/ jobState[verifier.job] # "active"
    THEN UNCHANGED <<jobState, stalled>>
    ELSE LET again == verifier.job \notin stalled IN
         /\ jobState' = [jobState EXCEPT ![verifier.job] = IF again THEN "waiting" ELSE "failed"]
         /\ stalled' = IF again THEN stalled \cup {verifier.job} ELSE stalled \ {verifier.job}

\* w is the workflow at the moment of the death.
ServerDies(w) ==
  /\ Stall
  /\ verifier' = Resting
  /\ workflow' = [w EXCEPT !.at = Unanswered(w)]
  /\ unqueued' = IF w.at = "enqueue" THEN unqueued \cup {w.deployment} ELSE unqueued
  /\ rollingBack' = 0
  /\ UNCHANGED attempts

Crash ==
  /\ Incident
  /\ ServerDies(workflow)
  /\ UNCHANGED deployStatus

----------------------------------------------------------------------------
(* What people do.                                                         *)

\* POST /:id/rollback, with whatever version it names: the containers are restarted
\* under the server that answers, which may live on to write the row.
ManualRollback(d) ==
  /\ Known(d) /\ rollingBack = 0
  /\ Incident
  /\ \/ ServerDies(workflow)
     \/ rollingBack' = d /\ UNCHANGED <<workflow, jobVars, unqueued>>
  /\ UNCHANGED deployStatus

RecordRollback ==
  /\ rollingBack # 0 /\ rollingBack' = 0
  /\ \/ SetStatusOf(rollingBack, "rolled_back") /\ UNCHANGED incidents
     \/ Incident /\ UNCHANGED deployStatus
  /\ UNCHANGED <<workflow, jobVars, unqueued>>

\* POST /:id/remediate: restart_containers, or clear_cache, which is FLUSHDB on the
\* Redis that also holds the queues.  The list of actions in the row is left out.
ManualRemediation ==
  /\ Incident
  /\ \/ ServerDies(workflow)
     \/ /\ jobState' = [j \in Job |-> IF jobState[j] \in {"waiting", "active", "failed"}
                                        THEN "flushed" ELSE jobState[j]]
        /\ UNCHANGED <<workflow, attempts, stalled, verifier, unqueued, rollingBack>>
  /\ UNCHANGED deployStatus

----------------------------------------------------------------------------
(* The workflow, and the webhook that answers it.                          *)

At(place) == workflow.at = place
Advance(place) == workflow' = [workflow EXCEPT !.at = place]

\* deploy_started: while deployments are paused it answers 503, which the workflow
\* takes for a warning as well, as it does an error.
DeployStarts ==
  /\ At("idle") /\ workflow.deployment < Deployments
  /\ \E place \in {"build", "insert"} :
       workflow' = [at |-> place, deployment |-> workflow.deployment + 1, undone |-> FALSE]
  /\ UNCHANGED <<deployStatus, jobVars, unqueued, rollingBack, incidents>>

\* createDeployment
InsertRow ==
  /\ At("insert")
  /\ SetStatusOf(workflow.deployment, "started")
  /\ Advance("enqueue")
  /\ UNCHANGED <<jobVars, unqueued, rollingBack, incidents>>

QueueVerification ==
  /\ At("enqueue")
  /\ Queue(Verification(workflow.deployment))
  /\ Advance("build")
  /\ UNCHANGED <<deployStatus, attempts, stalled, verifier, unqueued, rollingBack, incidents>>

BuildFails ==
  /\ At("build")
  /\ Advance("failed")
  /\ UNCHANGED <<deployStatus, jobVars, unqueued, rollingBack, incidents>>

\* "Restarting services"
Restart ==
  /\ At("build")
  /\ ServerDies([workflow EXCEPT !.at = "check"])
  /\ UNCHANGED <<deployStatus, incidents>>

\* The workflow's own health check, and deploy_completed.
DeployCompletes ==
  /\ At("check")
  /\ Advance("idle")
  /\ IF Known(workflow.deployment) THEN SetStatusOf(workflow.deployment, "verifying")
                                   ELSE UNCHANGED deployStatus
  /\ UNCHANGED <<jobVars, unqueued, rollingBack, incidents>>

\* "Health check failed after 6 attempts! Attempting rollback", which may not be
\* possible, or not help.
WorkflowRollsBack ==
  /\ At("check")
  /\ \/ \E undone \in BOOLEAN : ServerDies([workflow EXCEPT !.at = "failed", !.undone = undone])
     \/ Advance("failed") /\ UNCHANGED <<jobVars, unqueued, rollingBack>>
  /\ UNCHANGED <<deployStatus, incidents>>

\* deploy_failed: 404 without a row, otherwise the row says failed and the failure is
\* counted, by DeployBreaker.
ReportFailed ==
  /\ At("failed")
  /\ IF Known(workflow.deployment)
       THEN SetStatusOf(workflow.deployment, "failed") /\ Advance("analysing")
       ELSE Advance(Reported(workflow)) /\ UNCHANGED deployStatus
  /\ UNCHANGED <<jobVars, unqueued, rollingBack, incidents>>

QueueAnalysis ==
  /\ At("analysing")
  /\ Queue(Analysis(workflow.deployment))
  /\ Advance(Reported(workflow))
  /\ UNCHANGED <<deployStatus, attempts, stalled, verifier, unqueued, rollingBack, incidents>>

\* deploy_rolled_back
ReportRolledBack ==
  /\ At("rolled back")
  /\ IF Known(workflow.deployment) THEN SetStatusOf(workflow.deployment, "rolled_back")
                                   ELSE UNCHANGED deployStatus
  /\ Advance("idle")
  /\ UNCHANGED <<jobVars, unqueued, rollingBack, incidents>>

\* A request that does not arrive, a statement that throws, which answers 500, or
\* what adds to the queue, whose errors are caught.
ReportFails ==
  /\ Incident
  /\ \/ workflow.at \in {"insert", "enqueue"} /\ Advance("build")
     \/ workflow.at \in {"check", "rolled back"} /\ Advance("idle")
     \/ workflow.at \in {"failed", "analysing"} /\ Advance(Reported(workflow))
  /\ unqueued' = IF At("enqueue") THEN unqueued \cup {workflow.deployment} ELSE unqueued
  /\ UNCHANGED <<deployStatus, jobVars, rollingBack>>

----------------------------------------------------------------------------
(* The worker, one job at a time.                                          *)

Busy(place) == verifier.at = place
Turn(place) == verifier' = [verifier EXCEPT !.at = place]
Working(kind) == verifier # Resting /\ verifier.job.kind = kind

TakeJob(job) ==
  /\ verifier = Resting /\ jobState[job] = "waiting"
  /\ jobState' = [jobState EXCEPT ![job] = "active"]
  /\ verifier' = [at |-> IF job.kind = "analyze-failure" THEN "failure" ELSE "check", job |-> job]
  /\ UNCHANGED <<workflow, deployStatus, attempts, stalled, unqueued, rollingBack, incidents>>

\* Mutant: an unhealthy deployment is only logged.
VerifyDeploymentSilently ==
  /\ Busy("check") /\ Working("verify-deploy")
  /\ Turn("end")
  /\ SetStatusOf(verifier.job.deployment, "healthy") \/ UNCHANGED deployStatus
  /\ UNCHANGED <<workflow, jobState, attempts, stalled, unqueued, rollingBack, incidents>>

\* verifyDeployment
VerifyDeployment ==
  /\ Busy("check") /\ Working("verify-deploy")
  /\ \/ SetStatusOf(verifier.job.deployment, "healthy") /\ Turn("end")
     \/ Turn("failure") /\ UNCHANGED deployStatus
  /\ UNCHANGED <<workflow, jobState, attempts, stalled, unqueued, rollingBack, incidents>>

\* startSoakMonitoring, whose verdict is any.
SoakMonitoring ==
  /\ Busy("check") /\ Working("soak-check")
  /\ Turn("failure") \/ Turn("end")
  /\ UNCHANGED <<workflow, deployStatus, jobState, attempts, stalled, unqueued, rollingBack,
                 incidents>>

\* tryRemediation restarts the containers, the worker's own among them, or fails.
Remediate ==
  /\ Busy("failure")
  /\ \/ ServerDies(workflow)
     \/ /\ Turn("recheck") \/ Turn("rollback")
        /\ UNCHANGED <<workflow, jobState, attempts, stalled, unqueued, rollingBack>>
  /\ UNCHANGED <<deployStatus, incidents>>

\* "Re-verify after remediation"
Recheck ==
  /\ Busy("recheck")
  /\ \/ SetStatusOf(verifier.job.deployment, "healthy") /\ Turn("end")
     \/ Turn("rollback") /\ UNCHANGED deployStatus
  /\ UNCHANGED <<workflow, jobState, attempts, stalled, unqueued, rollingBack, incidents>>

\* Mutant: a verification that has rolled back leaves the row as it was.
RollBackUnrecorded ==
  /\ Busy("rollback")
  /\ \/ ServerDies(workflow)
     \/ Turn("end") /\ UNCHANGED <<workflow, jobState, attempts, stalled, unqueued, rollingBack>>
  /\ UNCHANGED <<deployStatus, incidents>>

\* executeRollback, with which the server may die as well; it can also fail.
RollBack ==
  /\ Busy("rollback")
  /\ \/ ServerDies(workflow)
     \/ /\ Turn("rolled_back") \/ Turn("failed")
        /\ UNCHANGED <<workflow, jobState, attempts, stalled, unqueued, rollingBack>>
  /\ UNCHANGED <<deployStatus, incidents>>

\* The end of handleDeployFailure; the failure is counted, by DeployBreaker.
WriteOutcome ==
  /\ \E outcome \in {"rolled_back", "failed"} :
       Busy(outcome) /\ SetStatusOf(verifier.job.deployment, outcome)
  /\ Turn("end")
  /\ UNCHANGED <<workflow, jobState, attempts, stalled, unqueued, rollingBack, incidents>>

\* A verification queues a soak, whatever it found, or fails to.
QueueSoak ==
  /\ Busy("end") /\ Working("verify-deploy")
  /\ Turn("done")
  /\ \/ /\ Queue(Soak(verifier.job.deployment, IF verifier.job \in stalled THEN 1 ELSE 0))
        /\ UNCHANGED incidents
     \/ Incident /\ UNCHANGED jobState
  /\ UNCHANGED <<workflow, deployStatus, attempts, stalled, unqueued, rollingBack>>

\* The processor returns; a job that Redis no longer knows stays unknown.
CompleteJob ==
  /\ Busy("done") \/ (Busy("end") /\ ~Working("verify-deploy"))
  /\ verifier' = Resting
  /\ jobState' = [jobState EXCEPT ![verifier.job] = IF @ = "active" THEN "completed" ELSE @]
  /\ attempts' = [attempts EXCEPT ![verifier.job] = 0] /\ stalled' = stalled \ {verifier.job}
  /\ UNCHANGED <<workflow, deployStatus, unqueued, rollingBack, incidents>>

\* A write of the row throws, which nothing catches: of the verdict, of the soak, of
\* the summary of the changes.  The dead letter of the last attempt is left out.
AttemptFails ==
  /\ Incident
  /\ verifier.at \in {"check", "failure", "recheck", "rolled_back", "failed"}
  /\ verifier' = Resting
  /\ attempts' = [attempts EXCEPT ![verifier.job] = @ + 1]
  /\ jobState' = [jobState EXCEPT ![verifier.job] =
                    IF @ # "active" THEN @
                    ELSE IF attempts'[verifier.job] < DeployAttempts THEN "waiting" ELSE "failed"]
  /\ UNCHANGED <<workflow, deployStatus, stalled, unqueued, rollingBack>>

WorkerStep ==
  \/ \E job \in Job : TakeJob(job)
  \/ VerifyDeployment \/ SoakMonitoring \/ Remediate \/ Recheck \/ RollBack
  \/ WriteOutcome \/ QueueSoak \/ CompleteJob

WorkflowStep ==
  \/ InsertRow \/ QueueVerification
  \/ BuildFails \/ Restart \/ DeployCompletes \/ WorkflowRollsBack
  \/ ReportFailed \/ QueueAnalysis \/ ReportRolledBack

DeployNext ==
  \/ DeployStarts \/ WorkflowStep \/ ReportFails
  \/ WorkerStep \/ AttemptFails \/ Crash
  \/ (\E d \in Deployment : ManualRollback(d)) \/ RecordRollback \/ ManualRemediation

DeploySpec == DeployInit /\ [][DeployNext]_deployVars

\* A worker goes on with its job and the workflow with its steps.
DeployFairSpec == DeploySpec /\ WF_deployVars(WorkerStep) /\ WF_deployVars(WorkflowStep)

----------------------------------------------------------------------------
\* The worker has the verification of d and has not written its verdict.
Undecided(d) ==
  /\ verifier # Resting /\ verifier.job = Verification(d)
  /\ verifier.at \in {"check", "failure", "recheck", "rollback", "rolled_back", "failed"}

\* A verification is done with only when it has said what became of its deployment:
\* a row is left at "started" only while its job waits, or runs without a verdict, or
\* is in the list of failed jobs, whatever throws, stalls, is run again or rolled back.
\* Or there is no job: it could not be queued, or was cleared out with the cache.
StartedIsVerified ==
  \A d \in Deployment :
    deployStatus[d] = "started" =>
      \/ jobState[Verification(d)] \in {"waiting", "failed", "flushed"}
      \/ jobState[Verification(d)] = "active" /\ Undecided(d)
      \/ d \in unqueued
      \/ At("enqueue") /\ d = workflow.deployment

----------------------------------------------------------------------------
\* A verification that waits comes to a verdict, healthy, failed or rolled back, or
\* into the list of failed jobs: attempts that throw, and the restarts it makes itself,
\* which may take the worker along, neither lose it nor repeat it for ever.  A
\* deploy_completed that comes later writes over the verdict; a cache that is cleared
\* takes the job with it.
VerificationSettles ==
  \A d \in Deployment :
    jobState[Verification(d)] = "waiting" ~>
      \/ deployStatus[d] \in {"healthy", "failed", "rolled_back"}
      \/ jobState[Verification(d)] \in {"failed", "flushed"}
=============================================================================
