# AI Cofounder: a verification development

TLA+ modules that model the core of AI Cofounder (`apps/agent-server`,
`packages/queue`, `packages/db`, `packages/llm`, `packages/rag` and the watcher of the
Discord bot), the TLC
runs that check them on small instances, and theorems that TLAPS proves for
every instance. `PROJECT.json` maps each definition to the lines it stands for.

## The system

AI Cofounder is a TypeScript monorepo. People talk to it through a dashboard,
Discord, Slack or a voice page; a Fastify server (`apps/agent-server`) answers,
an orchestrator agent turns requests into plans, plans are stored as goals and
tasks in Postgres (`packages/db`), a BullMQ worker (`worker.ts`) executes a goal
by dispatching its tasks to specialist agents, which call language models
(`packages/llm`) and tools.

### Inventory

| Component | State it keeps | Operations | Interacts through |
|---|---|---|---|
| Orchestrator, plan validation (`agents/orchestrator.ts`) | a proposed plan | `validateDependencyGraph`, `persistPlan` | rows of goals and tasks |
| Goals (`repositories/goals.ts`, `routes/goals.ts`) | `goals.status`, `deleted_at`, metadata | create, patch, approve, reject, cancel, delete, restore, clone | rows read and written by worker, pipeline and verification |
| Tasks (`repositories/tasks.ts`, `routes/tasks.ts`) | `tasks.status`, `depends_on`, output | create, assign, start, complete, fail, block | rows |
| Task dispatcher (`agents/dispatcher.ts`) | sets of one run: completed, failed, blocked, running, retry counts | `runGoal`, `runGoalDAG`, `runGoalGrouped`, `executeTask` | rows, specialists, callbacks |
| Worker and job queue (`worker.ts`, `packages/queue`) | BullMQ jobs, dead-letter queue | enqueue, process, retry, dead-letter, requeue, maintenance | Redis |
| Progress stream (`routes/execution.ts`, `plugins/pubsub.ts`, `packages/queue/src/pubsub.ts`) | event history, subscriptions, listeners | publish, replay, subscribe, unsubscribe | Redis pub/sub, SSE |
| Approval gate (`agents/tool-executor.ts`, `routes/approvals.ts`, the timeout sweep of `plugins/queue.ts`) | `approvals.status` | ask, poll, resolve, time out, sweep | rows |
| Self-healing (`services/self-healing.ts`) | per role: breaker, consecutive failures, rolling results | check, record success, record failure | called by `executeTask` |
| Provider breaker (`packages/llm/src/registry.ts`) | per provider: breaker, statistics | `complete` with fallback | called by every agent |
| Deploy health (`services/deploy-health.ts`, `routes/deploys.ts`) | rows of deployments, jobs | report, verify, soak, remediate, roll back | rows, jobs, the workflow, VPS commands |
| Deploy breaker (`services/deploy-circuit-breaker.ts`) | failure count, its window and the pause, in the database | record, pause, resume, expire | one row |
| Pipelines (`services/pipeline.ts`) | stage results, goal status | execute stages and groups, human gate | rows, agents |
| Plan repair, verification, reflection (`services/plan-repair.ts`, `verification.ts`, `reflection.ts`) | replan counts; verdict in metadata | after a failed task or a completed goal | rows |
| Agent messaging, subagents (`services/agent-messaging.ts`, `subagent.ts`) | messages, inbox, runs | send, check inbox, answer, spawn, wait | rows, Redis |
| Autonomy tiers (`services/autonomy-tier.ts`) | cached tiers | load, reload, look up | read by the tool executor |
| Tool rounds (`Orchestrator.run`, `runStream`, `services/tool-cache.ts`) | messages of a request, its cache, approvals of destructive tools | ask, use tools, check or create an approval, delegate and wait | rows, jobs, tools |
| Ingestion (`packages/rag/src/ingester.ts`, the `ragIngestion` worker) | chunks, one cursor per source | queue, sweep, delete, insert, record | rows, jobs |
| Discord watcher (`message-watcher.ts`, `discord-triage.ts`, `discord-digest.ts`) | the bot's buffer, keys of what was seen, the digest | buffer, flush, triage, alert, digest | HTTP, jobs, Redis |
| Scheduler (`services/scheduler.ts`) | what it did last, `next_run_at` of schedules | tick: daily tasks, due schedules | rows, the orchestrator |
| Memories, briefing, monitoring, integrations, bots, dashboard, sandbox, MCP server | mostly rows and external services | glue and I/O | HTTP |

### What is hard, and what makes it right

* **Dispatcher.** The tasks of a batch interleave at every awaited database
  write and specialist call; any write can fail, the worker can die, and the goal
  can be run again over the rows an earlier run left. Right means: a task runs
  after everything it depends on, in this run; a failure blocks what is below it
  and nothing else; the run's verdicts are the rows; a goal is completed only when
  each task is; a run ends.
* **Plan validation and storage.** The proposed plan is untrusted: out-of-range
  indices, self-dependencies, cycles. Storing it is a sequence of statements
  without a transaction. Right means: exactly the acyclic plans pass, whatever the
  order of the queue, and a run that reads the goal at any moment reads a part of
  the plan that is sound.
* **Goal lifecycle and jobs.** Routes, worker and verification write
  `goals.status` unconditionally and read it in separate statements; jobs stall, are
  attempted again, become dead letters and are added again in two steps. Right
  means: nobody's interleaving marks a goal completed whose tasks are not, nothing
  runs that nobody decided on, work is not lost, and jobs end.
* **Deployments.** The workflow reports over a network, the webhook answers a statement at
  a time, and the one worker runs in a server that the workflow, the worker itself and
  people restart. Right means: a deployment that started is verified, and a verification
  comes to an end.
* **Breakers.** Three of them (roles, providers, deployments). Calls that were
  admitted before one opened report while it is open or half-open, outcomes get
  lost, counts are written from what was read before. Right means: what recovered
  is used again, and what is skipped is tried again.
* **Approvals.** A poll, a time-out, a person and a sweep all write the row by id;
  the destructive path looks for an approved row and re-checks it in separate
  statements. Right means: nothing runs unapproved, calls are answered, nothing stays
  pending.
* **Caches and cursors.** The tiers in memory, the cache of a request, the cursor of
  an index, the hour of the last check-in: each is compared with something that has
  moved on.
* **Counted and two-step resources.** The listeners of a channel, the inbox that is
  listed and then marked, the digest that is read and then deleted, the dead letter
  that is added and then removed, the schedule that runs and is then moved on.

## The modules

| Module | Models | State and actions |
|---|---|---|
| `TaskExecution` | `executeTask` | `step[t]` is the await at which the call of `t` is; one action per write and per outcome of the specialist, and the failing write of each (`CompleteThrows`, `Reject`) |
| `TaskDag` | `runGoal` over `runGoalDAG` | the run's sets by their names in the code, `pc` for the place in the loop; extends `TaskExecution`, so that the whole run is one specification |
| `MCTaskDag` | nothing: the plans of a run | three tasks in every order, joined by a fourth |
| `DependencyOrder` | nothing: the promise of `TaskDag` | tasks wait, work, settle or are skipped |
| `GroupOrder` | nothing: the promise of `TaskGroups` | groups begin as a whole and in order, tasks end |
| `TaskGroups` | `runGoal` over `groupTasks` and `runGoalGrouped` | the sorted list as `left` and `SortKey`; extends `TaskExecution` |
| `DependencyGraph` | `Acyclic`, the reference definition | shared by the planner and the dispatcher |
| `PlanGraph` | `validateDependencyGraph` | in-degrees, queue, count; `position` is history |
| `PlanStore` | `persistPlan` | extends `PlanGraph` with the rows each conversation writes and what a run reads |
| `GoalLifecycle` | the routes of a goal, its jobs, its runs and its verification | rows, jobs, one record per run; a run is coarser than in `TaskGroups` |
| `ToolLoop` | the rounds of `run` and `runStream`, `checkOrCreateDestructiveApproval`, `delegate_to_subagent` with the subagent's job, the request's cache | `turn[r]` is the await at which request `r` is, `uses[r]` the tools of its round still to be answered |
| `Pipeline` | `PipelineExecutor` | `position` is the group under way, `result` that of each stage |
| `JobQueue` | attempts, stalls, dead letters, their retry and deletion, the maintenance | one piece of work, whose jobs are numbered `Copy` |
| `SelfHealing` | `SelfHealingService` as `executeTask` uses it | one role; the executions under way are slots |
| `ProviderBreaker` | `LlmRegistry.complete` with its circuits | circuits by provider; each completion's place in its chain |
| `DeployHealth` | the workflow, `routes/deploys.ts` a statement at a time, rollback and remediation by hand, the verification jobs (`plugins/queue.ts`, `deploy-health.ts`) with their attempts and stalls | the row of each deployment, the state of each job, the places of the workflow (`workflow`) and of the one worker (`verifier`); what restarts the containers kills the server, and with it the request and the job under way |
| `DeployBreaker` | `deploy-circuit-breaker.ts` | the row, what each `recordFailure` has read of it (`readings`), who has found the pause expired (`looking`) |
| `ApprovalGate` | `executeYellowTierTool`, the route and the sweep | one row per call; `due` and `old` are the two clocks |
| `AutonomyTiers` | load, reload, `PUT /tiers/:toolName` | the row, the tier in memory, the load under way and the requests that joined it |
| `AgentMessaging` | `send`, `checkInbox` | the rows of a role, and what each of its readers listed |
| `ProgressStream` | publish, history, subscribe, replay, the counted listeners | `commands` and `inbox` are the two directions of the Redis connection |
| `RagIngestion` | saving, sweeping and ingesting summaries | chunks and cursor of one conversation, the place of each job |
| `DiscordWatch` | buffer, flush, triage, alert, digest | a flush names its batch, its job and its alert |
| `Scheduler` | the tick, its daily tasks and the due schedules | what is in memory of the server, and `nextRun` of each schedule |
| `Records` (`PlanStore`, `DeployHealth`), `Resilience` (the three breakers), `Jobs`, `Services` | nothing: several of the above for one run | `part` chooses the one a behaviour is about |

How they compose: `TaskDag` and `TaskGroups` are two callers of the same
`TaskExecution`. `PlanStore` continues `PlanGraph`, and what it lets a run read
(`ReadsAreSound`: acyclic, inside the goal) is what `TaskDag` starts from: its
`Init` ranges over the acyclic plans with some dependency, and `TaskGroups` over
the others. `GoalLifecycle` treats a run as a sequence of tasks; the two dispatcher
modules refine what is one step there. `TaskDag` implements `DependencyOrder`
under the mapping `StateOf`, which reads a task's state off the run's sets and
promises; a crash or a rerun maps to `StartOver`. `TaskGroups` implements `GroupOrder`
in the same way. `ToolLoop` composes a request with
the subagent it waits for and the approvals of other requests; `DiscordWatch` the
bot, the server and two workers; `DeployHealth` the workflow, the server and its
worker.

`Records`, `Resilience`, `Jobs` and `Services` are no compositions in that sense: each
behaviour runs one part while the others keep their initial state, and the states of the
parts add up instead of multiplying. Each part has a specification of its own
(`ProviderSpec`, `PipelineSpec`, ...), which is what the theorems are about. Where parts
do meet in the code, that meeting is not modelled:

* a pipeline that has a goal writes `goals.status` (`services/pipeline.ts:63`), as
  `GoalLifecycle`'s worker, routes and verification do, and so does
  `PATCH /goals/:id/status`, which is in no module. `CompletedGoalRows` is a statement
  about a goal that has no pipeline and whose status nobody patches;
* the failures that `DeployHealth` counts are calls of `DeployBreaker`, where they may
  come at any time; whether a deployment that starts is paused is open in `DeployHealth`;
* the tier that `AutonomyTiers` keeps in memory decides whether a tool comes to
  `ApprovalGate` at all.

In every module a comment that starts with `Mutant:` marks a broken variant of
the action below it. No specification uses them; each shows that the property it
is paired with in `PROJECT.json` can fail.

### Abstractions

* A task is its position in the list. Prompts, outputs, journal entries,
  notifications and progress callbacks are left out: the code catches their
  errors and never reads them back, except that a specialist's output is never
  empty, so `completedCount` of a grouped run counts the completed tasks.
* The role of a task matters only for whether it may be retried; both kinds are
  allowed at any error.
* Time is what has become true (`cooled`, `expired`, `due`, `old`, `windowOld`), in
  any order the code allows.
* Counts that are only compared with a threshold stop there.
* `TaskGroups` assumes group numbers below the 1000 the code adds to ungrouped
  tasks: a plan with group 1000 or more would tie with them.
* `GoalLifecycle` and `DeployHealth` have one worker taking one job at a time, as
  `docker-compose.prod.yml` deploys it and `concurrency: 1` configures it.
  `BeginConcurrently` shows what depends on it. `RagIngestion` runs two jobs at
  once, as its worker does.
* What a language model answers (which tools it uses, how it triages, whether it
  verifies) is any of the answers the code tells apart.
* A provider's chain is any of `Chains`: the ranking by cost and the daily limit
  reorder it and cut it. A health check may answer either way.

## The runs

| Run | Asks | Bounds |
|---|---|---|
| `dag_reruns` | `CompletedMeansAll`, `DependenciesFirst`, `RecordsAgree`, `CascadeExact`, `EndsUnlessRejected`, `ImplementsOrder` | four tasks, the last joining the others, which depend on each other in every order and may name a foreign id; 2 at once, 2 runs, 1 failing write, crashes anywhere, fair |
| `dag_hang` | `RunEnds` is violated | 2 tasks and one failing write |
| `groups` | `GroupsInSequence`, `GateHolds`, `CompletedUnlessRejected`, `RunEnds`, `ImplementsGroups` | every grouping of 3 tasks in two groups or none, 2 runs, 1 failing write, crashes, fair |
| `groups_dropped` | `CompletedMeansAll` is violated | 2 tasks, 1 failing write |
| `groups_position` | `UngroupedKeepPosition` is violated | 2 tasks, no faults |
| `records` | plan: `VerdictExact`, `ReadsAreSound`, `ReadsArePlanned`; deployment: `StartedIsVerified`, `VerificationSettles` | every plan of 3 tasks over indices -1..3, two conversations that die anywhere; 1 deployment, jobs of 2 attempts, 2 incidents (a statement that throws, a queue that fails, a request that does not arrive, a death, a rollback or a remediation by hand) besides the restarts that the code makes itself; fair |
| `resilience` | roles: `ClosedMeansHealthy`, `TestUnderWay`, `SkipEnds`; providers: `ProbesUnderWay`, `CircuitCloses`; deployments: `PauseEnds` | 3 executions of a role, 1 lost outcome; 2 completions over 2 providers in both orders, 2 outages; 5 failures of deployments by two callers at once, 2 who look at the pause, 1 statement that throws or death; the thresholds of the code (3 and 3 of a role, 5 and 2 probes of a provider, 3 of deployments); fair |
| `jobs` | goal: `CompletedGoalRows`, `DecidedFirst`, `JobsEnd`; requests: `DestructiveApproved`, `RequestEnds`, `SubagentSettles`; pipeline: `OutputsFirst`; queue: `WorkKept` | 2 tasks, 2 jobs of 2 attempts, 2 people; 2 requests of 2 rounds, 2 attempts of a subagent; 4 stages run twice; 3 copies of a job, 2 operators; 1 fault each, 2 in the queue; fair |
| `services` | gate: `ApprovedFirst`, `CallEnds`, `PendingEnds`; `TakesEffect`; `MarkedIsSeen`; `SubscriptionReleased`; `EmptyMeansMidway`; `MessagesKept`, `SeenIsAlerted`; `RunsOnce` | 2 calls, one external; 3 edits of a tier; 3 messages, 2 readers, a list cut at 2; 3 streams, 1 end; 2 ingestions of 2 summaries; 2 messages, 2 flushes, a buffer of 1; 2 schedules, one of them one-shot, 2 ticks at once; 1 or 2 faults each; fair |
| `lifecycle_cancel` | `CancelHolds` is violated | 1 job, 1 person, no faults |
| `rag_sweep` | `SweepsIngestNew` is violated | 2 summaries |
| `check_in` | `CheckInDaily` is violated | 2 days |

Deadlock is not checked: every system here may stop, when the bounded runs,
decisions, jobs or messages are used up.

Why the bounds are enough to be interesting: three tasks have chains, forks and an
ungrouped task beside a group; the join makes diamonds, where a cascade reaches a
task twice, and three ready tasks with two at once make the batch cut. Two runs
are the least in which a run meets the rows of an earlier one. A fault may come at any
statement whose failure the module distinguishes, so one is tried at each of them, and
two incidents of a deployment at each pair; which statements these are is said at the
action of each module that counts the fault. The job of a deployment has two attempts
where the code has three: the first failure leads to a retry and the second to the end,
and the theorem about it holds for any number. Three executions are as many as the breaker's threshold,
so it can open with others still under way; two completions and two probes let a
late answer of one phase meet the probes of the next. Five failures of deployments
reach the threshold of three from stale readings with a reset between. Four stages have two
dependent stages with concurrent ones between and after. Three copies of a job are
a retry of a retry. Three edits of a tier let one write, one load and one join
overlap; three streams let a subscription cross an unsubscription of two others. Lists
and buffers are cut at less than what can come. The theorems below remove the bounds
for the safety properties.

### Fairness

* `RunStep`, `Worker`, `Step(c)`, `RequestStep(r)`, `CompletionStep(c)`, `SubagentStep(r)`,
  `WorkerStep`: the event loop of Node.js continues what is ready, BullMQ hands a
  waiting job to an idle worker and a stalled one to the next, and a specialist, a
  model or a tool ends, after at most so many rounds of calls that time out.
  `WorkflowStep`: GitHub runs the workflow to its end, and the server answers its
  requests or does not.
* `CoolDown`, `CircuitExpires`, `WindowPasses`, `BecomeDue`, `BecomeOld`,
  `PollOverdue`: time passes.
* `Sweep` and `SweepDeny`: the repeatable job is scheduled every minute.
* `CircuitCloses` assumes that calls keep coming whose chain starts with each
  provider (strong fairness of `StartCompletion`): a circuit is only ever looked at
  by a call. `PauseEnds` assumes that somebody asks for the status of the deployment
  breaker now and then (`Look`) and is answered (`ResetExpired`), as
  `GET /circuit-breaker` and every `deploy_started` do (`routes/deploys.ts:71`, `208`): the
  pause is lifted only when it is read. Failures must also stop, since one that is counted
  after the window has passed starts a new window; nothing stops them by itself, because
  the workflow takes the 503 of a paused breaker for a warning and deploys all the same
  (`.github/workflows/deploy.yml:168`). In the run they stop at their bound. The
  comments of both properties say so.
* Nobody has to start, approve, decide, cancel or stop, and no fault has to happen or
  not to happen within its bound. Crashes are not fair and end a run; `RunEnds` counts
  them as an end.

### What the violated runs show

* `dag_hang`: if a database call of `executeTask` outside its `try` fails, the
  promise rejects, the task stays in `running`, and the loop of `runGoalDAG`
  awaits nothing forever. The worker's single slot is gone with it.
* `groups_dropped`: the grouped path passes over a rejected promise, and the goal
  is marked completed without the task.
* `groups_position`: `groupTasks` says that an ungrouped task keeps its position relative
  to the groups (`dispatcher.ts:249-250`), and sorts it by `orderIndex + 1000`, after every
  group. `GroupsInSequence` and `ImplementsGroups` are about the order of the code
  (`SortKey`), in which groups do run one after another.
* `lifecycle_cancel`: a job that waits or runs when the goal is cancelled makes
  it active again and runs the cancelled tasks.
* `rag_sweep`: a sweep compares each summary of the day with the one cursor of the
  conversation, ingests an older one again, and replaces the chunks of the newest.
* `check_in`: the hour of the last check-in is remembered without its day, so a
  server checks in on its first day only.

### Seen while modelling, and not a run

Deployments:

* One deployment that fails can be counted three times, by the webhook
  (`routes/deploys.ts:144`), by `handleDeployFailure` (`services/deploy-health.ts:169`)
  and by the job that called it (`plugins/queue.ts:526`): three is the threshold.
  Nothing in the repository says that a deployment counts once.
* The row is inserted before its verification is queued, and the error of the queue is
  swallowed (`routes/deploys.ts:99-113`). If the queue fails, or the server dies between,
  the row stays at `started` and nothing verifies it: `unqueued` in `StartedIsVerified`.
* The worker that verifies runs in the server that remediation and rollback restart
  (`deploy-health.ts:123`, `148`). The job is then run again by the next server and may find
  the version before healthy: the row of the failed deployment says `healthy`
  (`deploy-health.ts:82`), and no rollback is recorded. A verification that runs twice also
  queues two soaks (`plugins/queue.ts:541`).
* `clear_cache` of `POST /:id/remediate` is a `FLUSHDB` of the Redis that holds the
  queues (`deploy-health.ts:287`): the jobs of every queue go with the cache, the
  verification among them (`flushed`).
* `deploy_completed` writes `verifying` over whatever the verification has written
  (`routes/deploys.ts:124`), which starts fifteen seconds after `deploy_started`.
  `VerificationSettles` therefore speaks of the first verdict.
* A failure after the window starts a new window and leaves the pause in place
  (`deploy-circuit-breaker.ts:50-60`); and a reset by somebody who looked discards a
  failure that was counted since (`deploy-circuit-breaker.ts:93-101`).

Elsewhere:

* An ingestion that fails between its delete and its insert (`ingester.ts:243`, `270`) can
  leave the index of a conversation empty for good: if another job had inserted before
  and records the cursor afterwards, the retry of a sweep takes the summary for ingested
  (`plugins/queue.ts:752`). Overlapping jobs can also leave chunks twice, or those of two
  summaries. `EmptyMeansMidway` promises less: where there is nothing, a job is about to
  insert or has failed there.
* Three streams of one goal whose commands reach Redis as SUBSCRIBE, SUBSCRIBE, UNSUBSCRIBE
  leave a listener without a subscription: the first stream is answered and its client
  goes while the second still waits (`plugins/pubsub.ts:74-79`, `85-89`), although the
  server is to unsubscribe when the last listener disconnects (`pubsub.ts:82`).
  `SubscriptionReleased` is about the opposite, a subscription without listeners.
* A stream whose history and subscription miss the end of a job stays open until
  its client goes (`routes/execution.ts:162`).
* `write_file` leaves what `read_file` put in the cache of the request
  (`services/tool-cache.ts:63`): a request that reads, writes and reads again is answered
  with the old content. `ToolLoop` has the steps (`ReadFile`, `WriteFile`, `CacheExpires`);
  what the cache promises is too little said to make a property of it.
* A task whose `dependsOn` names a task of another goal is never ready and in no result, and
  the goal is marked completed without it (`routes/tasks.ts:30`, `dispatcher.ts:141`).
* The time-out of a call, and the sweep, deny by id whatever was decided in between
  (`tool-executor.ts:432`, `plugins/queue.ts:93`): a person who approved in that moment is told so,
  and the call is denied.

### What the properties let pass

Where the code is known to lose something, the property names the case and excludes no
more than that. The names are variables of the modules.

| Property | Lets pass |
|---|---|
| `CompletedMeansAll` (DAG) | tasks below an id of another goal |
| `CompletedUnlessRejected`, `EndsUnlessRejected`, `CompletedGoalRows` | tasks whose promise was rejected, which the runs `groups_dropped` and `dag_hang` are about |
| `TestUnderWay`, `SkipEnds` | outcomes of executions that threw outside their `try` (`lost`): a half-open breaker then skips for ever |
| `StartedIsVerified` | a verification that was never queued (`unqueued`), failed for good after its attempts or its stall ("failed", where BullMQ keeps it), or was flushed |
| `VerificationSettles` | the same ends, and a verdict that is written over later |
| `TakesEffect` | a change whose request joined a load that had read the table (`late`), and what a request wrote whose load failed, until it is answered again |
| `MarkedIsSeen` | a reader that died after it marked (`forgone`) |
| `EmptyMeansMidway` | an ingestion that failed between delete and insert (`torn`), until the next insert |
| `MessagesKept` | messages over the cap of the buffer, or of a bot that died (`spilled`) |
| `SeenIsAlerted` | alerts that Slack did not take, that died with a process after their claim, or that came to the digest between its read and its deletion (`missed`) |
| `WorkKept` | jobs that people removed or that died without a dead letter (`cleared`, `unlettered`) |
| `RunsOnce` | one more run for each run, write or check-in that failed and each death, of whatever schedule: the bound is on the faults as a whole |
| `SubagentSettles` | a retry whose last write fails after the row was set to running |

## The proofs

| Module | Theorems | Argument |
|---|---|---|
| `TaskDagProofs` | `TypeCorrect`, `Invariance`, each safety property of `TaskDag`, `OnlyForwardHolds`, `GoesOnHolds`, `Refinement` | `IInv`: promises, sets and rows agree (`MemoryAgrees`), what was called had its dependencies completed (`CalledInOrder`), blocked tasks are below a failure and everything below one is blocked except what the cascade has still to visit (`CascadeProgress`), the place in the loop (`ControlAgrees`), the size of the batch |
| `TaskGroupsProofs` | `TypeCorrect`, `Invariance`, `GroupsInSequenceHolds`, `GateHoldsAlways`, `CompletedUnlessRejectedHolds`, `OnlyForwardHolds`, `GoesOnHolds`, `Refinement` | `IInv`: `MemoryAgrees`, the groups are cut off the front of the sorted list (`FrontFirst`), `ControlAgrees` |
| `RecordsProofs`, plans | `GraphInvariance`, `VerdictIsExact`, `InDegreeIsExact`; `StoreInvariance`, `ReadsAreSoundHolds`, `ReadsArePlannedHolds`, `VerdictExactHolds` | `GraphInv`: an in-degree is the number of dependencies not yet visited, and `position` numbers the visits; the positions are the rank that makes an accepted plan acyclic, and a cycle keeps all its nodes unvisited. `StoreInv`: no dependency is written before every task is, and what was written or read is the accepted plan with some of its dependencies missing, which the same rank numbers |
| `RecordsProofs`, deployments | `DeployInvariance`, `StartedIsVerifiedHolds` | `DeployInv`: with the types of the rows, the jobs and the places of workflow and worker (`DeployTyped`), the property is inductive: a row at `started` has a verification that is not over, or is accounted for (`Pending`) |
| `JobsProofs`, goals | `CompletedGoalRowsHolds`, `DecidedFirstHolds`, `JobsOnlyForwardHolds`, `WorkerGoesOnHolds`, `LifecycleTypeCorrect` | `LifecycleInv`: at most one run is under way (`OneRun`), what it has passed is completed or dropped (`RunAhead`), and a proposed goal that nobody decided on has no job (`Untouched`). `TriesInv`: attempts and stalls are counted |
| `JobsProofs`, pipelines | `OutputsFirstHolds`, `StagesOnlyForwardHolds`, `PipelineGoesOnHolds` | `PipelineInv`: groups before the one under way have completed (`GroupsInOrder`). `ForwardInv`: stages are skipped only for one that failed, so none that was skipped is ever started |
| `JobsProofs`, queue | `WorkKeptHolds`, `AttemptsBoundedHolds`, `WorkOnlyForwardHolds` | `QueueInv`: copies are made in turn and every end of one is accounted for by a letter, a later copy or a removal. `AttemptsInv`: attempts and stalls are within their bounds, and dead letters, those that people hold in their hands included, are of jobs that failed |
| `JobsProofs`, tools | `DestructiveApprovedHolds`, `RequestsOnlyForwardHolds`, `SubagentAccountedHolds`, `SubagentsOnlyForwardHolds` | `ToolInv`: requests are asked round by round (`RequestedInTurn`), and an approval that was found exists, was asked for in another use, and stays approved (`FoundExists`). `SubagentInv`: a request delegates once (`DelegatesOnce`), so the job of its subagent is made once and its tries are counted (`TriesCounted`) |
| `ServicesProofs` | `TakesEffectHolds`, `MarkedIsSeenHolds`, `SubscriptionReleasedHolds`, `EmptyMeansMidwayHolds`, `MessagesKeptHolds`, `SeenIsAlertedHolds`, `RunsOnceHolds` | what is under way is awaited and will bring memory to the table (`LoadAwaited`, `LoadsCurrent`); what Redis will hold when the commands on their way are through (`WillBeSubscribed`, `Asked`), by cases on the last command; a recorded cursor has chunks (`RecordedHasChunks`); one tick at a time, whose list is current and whose runs are accounted for by `next_run_at` or a fault (`OneTick`, `ListCurrent`, `RunsAccounted`) |
| `ResilienceProofs` | `TypeCorrect`, `ClosedMeansHealthyHolds`, `TestUnderWayHolds`; `CircuitExactHolds`, `ProbesUnderWayHolds`; `PauseHasWindowHolds` | the failures in a row never exceed the breaker's count (`CountsAgree`); a circuit's probes are counted by the completions that await it, whose number changes by one with each admission and each answer (`CircuitInv`); what was read as paused had counted a failure, so what is written from it has too (`PauseInv`) |
| `ApprovalGateProofs` | `TypeCorrect`, `ApprovedFirstHolds`, `PendingIsAskedHolds`, `DueCallsEndHolds` | a row says "approved" only of a call that a person approved (`RowsApproved`), and a call that has not asked has no row (`IdleUnasked`) |
| `OrderLemmas` | none | the least element of a ranked set, finiteness of segments |

The safety properties are seldom inductive by themselves. `DependenciesFirst` says
nothing of tasks that have settled, and a settled dependency is what the next step
looks at; so `IInv` relates all four records of a task (promise, set, row, place
in the loop). `CompletedMeansAll` is the longest argument: a run ends with nothing
ready and nothing running, so a task it left out has a dependency it left out;
the one that comes first in the order that acyclicity gives has none, which is a
contradiction. `CompletedGoalRows` needs that no second run is under way when the
verdict is written, and `SubscriptionReleased`, which speaks of quiet states only,
needs what every command on its way will do.

Refinements. `TaskDag` implements `DependencyOrder` and `TaskGroups` implements
`GroupOrder`, both as theorems and as properties of a run: the initial states map to
initial states, and under `IInv` and its next state each step maps to a step or to a
stutter.

What liveness needs besides fairness. A liveness property fails in one of two ways:
something is stuck, or something goes round. Both are excluded for every instance,
without fairness, wherever the theorems named here say so.

* `OnlyForward` (`TaskDag`, `TaskGroups`), `JobsOnlyForward`, `RequestsOnlyForward`,
  `SubagentsOnlyForward`, `StagesOnlyForward`, `WorkOnlyForward`, `DueCallsEnd`: every
  step that touches the run, job, request, stage or call lowers a measure in the natural
  numbers, or a tuple of them in their lexicographic order. Crashes, stalls and failing
  writes are among those steps. The theorem of `TaskDag` makes one exception, the empty
  rounds after a rejected promise, and that is the loop that `dag_hang` exhibits; the
  theorem of `TaskGroups` needs none.
* `GoesOn` (`TaskDag`, `TaskGroups`), `WorkerGoesOn`, `PipelineGoesOn`: what is not over
  has someone or something to go on with. `SubagentAccounted`, `PendingIsAsked`,
  `StartedIsVerified`, `TestUnderWay`, `ProbesUnderWay` and `PauseHasWindow` say the same
  of what waits for another: what it waits for exists.

That fairness then brings about the end is left to the runs, which check the liveness
properties themselves.

The specifications that the runs check. `PartsAreFaithful`, of `RecordsProofs`,
`ResilienceProofs`, `JobsProofs` and `ServicesProofs`, shows that every behaviour of
`RecordsSpec`, `ResilienceSpec`, `JobsSpec` and `ServicesSpec` is one of each of its parts;
`RecordsSound`, `BreakersSound`, `JobsSound` and `ServicesSound` conclude that the
invariants listed in the four configurations hold of these very specifications, for every
value of the constants.

Assumed: `TaskAssumption` (any number of tasks and failing writes; at most one
retry, as the code spells out), `DagAssumption` (concurrency of at least one;
ids of other goals are no ids of this one), `HealingAssumption` (a skip needs at
least as many failures as the breaker; 3 and 3 in the code), `ProviderAssumption`
(finitely many calls at once, a threshold and a number of probes of at least one), and
for the other modules that their bounds are natural numbers and attempts, limits
and stages at least one. The numbers of people, requests, jobs, faults, messages and
lost outcomes are arbitrary.

Only model-checked: the liveness properties (`RunEnds`, `EndsUnlessRejected`, `JobsEnd`,
`RequestEnds`, `SubagentSettles`, `SkipEnds`, `CircuitCloses`, `PauseEnds`,
`VerificationSettles`, `CallEnds`, `PendingEnds`), which rest on fairness and `ENABLED`
and are out of the prover's reach. That a falling measure ends is an induction over
data and is not stated either. Every safety property of a passing run is a theorem.

## Not modelled

* Prompts, the memories and their retrieval, briefings, the integrations, user
  interfaces, the API client, the MCP server and the sandbox: they are I/O, rendering or
  configuration, or have no protocol whose steps could interleave to a wrong state.
  They are most of the lines of the repository, of which the map covers some 6%.
* `services/plan-repair.ts`: the tasks it generates are only logged.
* Within the modelled parts: `PATCH /goals/:id/status`, restore, purge, clone and the
  metadata of goals; the reflections; the failure statistics of self-healing and the
  registry; `completeDirect`; the time-outs of tiers; the priorities, delays and
  recurring jobs of the queue; the answer to one message and the expiry of messages,
  which nothing calls; the dead letters, the soak's columns and the delays of a deployment's
  jobs; `delegate_parallel` and the tool rounds inside a subagent; the
  checks of backups and meetings of the scheduler; `MAX_TASK_CONCURRENCY` of 0.

`PROJECT.json` gives the reason for each component.

## Plan

What would come next, in this order.

1. `GoalMetadata`: `updateGoalMetadata` reads, merges and writes, and two writers lose
   one another's keys; composed with `GoalLifecycle` and `Pipeline`, which both write
   `goals.status`.
2. The tool rounds of a subagent as an instance of `ToolLoop`, and `delegate_parallel`.
3. `completeDirect` and the daily cost limit in `ProviderBreaker`.
4. A count of deployments in `DeployBreaker`, composed with `DeployHealth`, if the repository comes to promise one.
5. The scheduler's checks of backups and meetings, and the quiet check-in.
