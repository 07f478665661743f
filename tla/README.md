# Verification of file-manage-agent

TLA+ models of file-manage-agent, TLC runs over small instances, and TLAPS
proofs. Line numbers refer to the repository beside which this project is kept;
`PROJECT.json` maps every definition to the lines it stands for.

file-manage-agent runs a *governance run*: a LangGraph graph that inventories a
directory, analyses file versions, asks a human when in doubt, recommends which
version to keep, and writes a report. Runs are started from the command line,
or submitted over HTTP or by a cron schedule and executed in the background by
worker processes over one application database. The background runtime is where
several processes meet, where processes die and where answers arrive late; it
is modelled first and proved about. The governance run itself - its graph, its
tasks, its recovery, its delegations and what it decides about the files - is
modelled in a second group of modules.

## 1. Inventory

| Component | Code | State | Operations | What makes it correct |
|---|---|---|---|---|
| Background queue | `runtime/job_queue.py`, `storage/repositories.py` | tables `background_jobs`, `worker_leases`, `governance_runs` | enqueue, enqueue_resume, claim, mark_running, heartbeat, finish, fail_or_requeue, requeue_expired | the three tables agree; budget and answers are counted once; final jobs are final |
| Database sessions | `storage/database.py` | what a session has read | read, flush, commit | overlapping transactions keep what single ones keep |
| Worker | `runtime/worker.py`, `entrypoints/worker.py` | current job, heartbeat thread, error field | run_once, heartbeat loop, graph invocation | stale workers write nothing; every job settles |
| Resume protocol | `utils/background_resume.py`, `nodes/review.py`, `nodes/error_recovery.py` | pending interrupt, resume state, checkpoint | serialize, match, validate, apply | an answer reaches the question it was given to |
| HTTP API | `api/` | none of its own | submit, status, resume, report, schedules | replies match what was stored |
| Scheduler | `runtime/scheduler.py`, `entrypoints/scheduler.py` | table `scheduled_jobs`, APScheduler's jobs | create, enable/disable, synchronise, fire | registrations follow the table; runs are recorded |
| Dispatcher | `runtime/dispatcher.py` | none | normalise a request, create a submission | |
| Lifecycle nodes | `nodes/lifecycle.py`, `nodes/report.py` | the run of the graph state | initialise, hooks, reports, finalize_run | the run ends, and says how |
| Main graph and routers | `graphs/file_governance.py`, `graphs/routers.py`, `utils/error_context.py` | `FileGovernanceState` | 35 nodes, conditional edges, recorded errors | every path ends in finalize_run; no router sends a run to recovery for nothing |
| Task DAG | `services/task_system.py`, `utils/task_tracking.py`, `nodes/task_tracking.py` | tasks, todos | plan, move, settle, finalise, project | legal transitions, dependencies first, an ended run leaves no task open |
| Team orchestration and sub-agents | `graphs/team_orchestration.py`, `nodes/team_orchestration.py`, `nodes/subagents.py`, `agents/`, `tools/worktree.py` | messages, calls, members, skills, worktrees | delegate, invoke, validate, fall back, merge, release | every request is answered, nothing stays held |
| Error recovery | `nodes/error_recovery.py`, `services/recovery_policy.py` | errors, the recovery channel | select, decide, retry, degrade, ask, abort | retries bounded, given-up runs end |
| Node execution | `services/recovery_execution.py`, `storage/repositories.py` | execution records, error rows, stored results | identify, reuse, execute, persist, capture, hydrate | a success is computed once and reused for its own input only |
| Hooks, LLM client, memory, compaction, skills | `hooks/`, `llm/`, `services/memory_policy.py`, `skills/`, ... | memory items, registries | call, validate, select, expire | a failure is recorded, not lost |
| Inventory | `graphs/inventory.py`, `services/inventory_execution.py`, `tools/file_scanner.py` | files, documents, parse queue | scan, register, deduplicate, parse | every file has an outcome |
| Version analysis | `services/version_graph.py`, `services/version_relation_fusion.py`, `nodes/version_analysis.py` | groups, diffs, edges, branches, chains | compare, fuse, build | a chain lists its group in order |
| Evidence | `services/evidence_matching.py`, `services/business_evidence.py`, `nodes/evidence.py` | exports, deliveries, business evidence | match, assess | evidence belongs to a file of its group |
| Recommendation | `services/recommendation.py`, `services/recommendation_judge.py`, `nodes/review.py` | candidates, decisions, reviews | score, choose, validate, judge, ask | what nobody reviewed was safe to choose |
| Parsers, rendering, MCP server, observability, CLI, migrations | `tools/`, `services/reporting.py`, ... | files | I/O | out of scope |

How they interact:

```
 client --HTTP--> API --enqueue, enqueue_resume--> [background_jobs     ]
                   |                               [governance_runs     ]
                   +--create, enable/disable--> [scheduled_jobs]        |
                                                     |                  |
              Scheduler --sync, record_trigger-------+                  |
                   +------- create_background_submission -------------->|
              Worker ---- sweep, claim, mark_running, finish, fail ---->|
                |  heartbeat thread ---- renews ----> [worker_leases]   |
                +--- graph.invoke ---> LangGraph --- finalize_run ------+
                                          +--- checkpoint database
```

Inside one execution the parts are nodes of one LangGraph state machine:

```
 initialize, hooks, checks -> plan_run_tasks
   -> inventory -> content agents -> versions -> evidence -> evidence agents
   -> recommendation -> judge -> [human review] -> report -> finalize_run
   each node: does its work | records an error | (wrapped ones) raises
   each router: onward, or select_recovery_error -> decide
      -> retry at the failed node | degrade and go on behind it
      | ask a human | abort -> failure report
```

Every wrapped node is keyed, recorded and stored in the application database,
and every delegation is a run of the team graph with a run of an agent graph
inside. The hard behaviours, each listed at its line under "hazards" in `PROJECT.json`:
leases running out under a live worker; a sweep against a late finish; two
clients answering one question; a crash between the graph's step and the
queue's; heartbeat threads that outlive their job; the retry limit, which is
counted differently for ordinary and resumed executions; a schedule disabled
between a read and a write; errors that come back after a retry, at a node that
sees its old errors; a crash between a node's database write and the checkpoint;
a stage that is run again over its earlier results.

## 2. Modules

| Module | Role |
|---|---|
| `JobQueue` | the queue, one action per method (one transaction each) |
| `JobLifecycle` | what the queue promises a client: absent, ready, executing, asking, done |
| `JobQueueRefinement` | the mapping from queue rows to the lifecycle |
| `BackgroundWorker` | worker processes, heartbeat threads and graph executions over `JobQueue` |
| `JobSessions` | `JobQueue`'s transactions split into reads and writes |
| `Scheduler` | cron schedules, their registration and firing |
| `TaskDag` | the six tasks, their transitions and the todo list (operators) |
| `RecoveryPolicy` | what is done about a category of errors, and where a run resumes (operators) |
| `ErrorRecovery` | the recovery graph of a run, extends both |
| `GovernanceRun` | the top graph, its routers, tasks and reports, extends `ErrorRecovery` |
| `NodeExecution` | one wrapped node with the database, in detail |
| `TeamDispatch` | one batch of delegations to a sub-agent, in detail |
| `Inventory`, `VersionGraph`, `VersionAnalysis`, `Evidence`, `Recommendation` | the business stages, each extending the one before it |
| `Analysis` | the five composed, and what the whole promises |
| `JobQueueProofs`, `JobSessionsProofs`, `BackgroundWorkerProofs`, `SchedulerProofs`, `NodeExecutionProofs`, `TeamDispatchProofs`, `GovernanceRunProofs`, `AnalysisProofs` | theorems and proofs about the module in the name |
| `*MC` | instances for TLC: acceptable values, failures, inputs, symmetry |

The levels fit together as follows. `BackgroundWorker` sees an execution of the
graph from outside: it parks, ends or raises. `GovernanceRun` is that execution,
node by node, with each business stage and each delegation as one step that
succeeds, records an error or raises. `Analysis` says what the business stages
compute, `TeamDispatch` what a delegation does, and `NodeExecution` what the
wrapper around a stage does when there is a database.

### JobQueue

`jobs`, `leases`, `runs` are the three tables, one row per job each (a lease row
has the job's id as its key). A row keeps the columns the control flow looks at:
status, owner, `attempt_count`, `max_attempts`, `resume_count`, the pending
interrupt, the resume state and `available_at`. `accepted` and `failures` are
history: the answers ever accepted and the executions ever lost.

Timestamps are distances from now (`left` of a lease, `due` of a job), so there
is no clock to bound; `AgeLimit` cuts off waiting times that only order
claiming. `Requests`, `Interrupts` and `Values` are model values; an interrupt
stands for the pair of interrupt_id and kind, `Acceptable` for the three value
protocols of `validate_resume_value_against_interrupt`. The module lets *any*
worker call *any* method at any time: the guards in the code have to do all the
work. A call that raises is rolled back by `session.begin()` and is no step.

### BackgroundWorker

`me[w]` is the worker's program counter and local variables in `run_once`.
Each queue call is a step of its own and everything else may happen in between.
The graph is seen from outside: an execution parks at an interrupt, reaches
`finalize_run`, or raises; `checkpoint[j]` says whether the thread's checkpoint
has a next node and which interrupt it is parked at. `Command(resume)` gives its
value to the interrupt the checkpoint is parked at *now*. A process dies
anywhere (`Crash`) and by an uncaught refusal of `mark_running` or
`fail_or_requeue`. `late` holds heartbeat calls that outlived the join.

### JobSessions

Under `open_application_session` nothing is locked before the first write
(pysqlite begins at the first DML statement, PostgreSQL runs at READ COMMITTED).
A method is therefore its reads, with the guards, and one step from its first
write to its commit; `Flushed` is SQLAlchemy's unit of work, which writes the
columns that differ from what was *read*. `claim_next` repeats its condition in
the UPDATE, and `release` reads the lease inside the write step; the model
shows which promises rest on these two.

### Scheduler

`table` is `scheduled_jobs`, `registered` what APScheduler holds in memory.
`sync_schedules` and each firing of `enqueue_schedule` run step by step, one
step per transaction. Due times are not modelled: a registered job may fire
whenever its earlier firing is over (`max_instances=1`).

### TaskDag, RecoveryPolicy

Operators over a table of tasks and over the run's policy. `Accepts` and
`Written` are `update_task_status`; a `Ledger` follows the requests one node of
the top graph makes of the team graph, so that the refusal of one of them stops
the next ones as it does in `apply_task_status` and
`settle_unfinished_tasks_before_report`. `RetryNode` and `After` are the tables
from which `resolve_recovery_targets` finds where a failed run goes on.

### ErrorRecovery, GovernanceRun

`pc` is the node about to run. `errors` is the error channel with its reducer
(`Merged`): a record is identified by its stage, node, task and message, and
stays where it first stood. A *failure* is such an identity with its category,
the node where it shows, and whether it leaves the node as an exception; which
failures an instance has is a constant. `Recorded` is `create_node_error`,
`Captured` is `capture_subgraph_exception`; they differ in the count a repeated
error starts with, and that matters. `RecordedAll` records several in the order in
which they happen, as a phase of hooks (`HookPhase`) and a refused settling
(`Refused`) do. `Routed` is what the routers have in
common: each looks for unresolved errors of certain stages (`StopsOnTheWay`,
`StopsTheEnd`). `Settling` settles the error being retried when a wrapped node
ends; for other nodes the code has nothing of the kind, and neither has the
model. Recovery overwrites the task's row past the transition table
(`TaskOverwritten`).

The run has no application database, as in the foreground: nothing is reused.
What a run with one does differently at a single node is `NodeExecution`.
`found` is all that the routers ask of the business data.

### NodeExecution

The key of an execution is run, task and node, so there is one row and one
stored result; the digest is `Input`, the request and the data the run holds,
which the node's own results belong to. Three kinds of errors can be open at
once: raised by the subgraph, recorded inside it, and the ValueError of a refused
write. `policy` gives each kind a rule: how many retries, a fallback or none,
whether a human may be asked.

Every transaction is a step of its own (`PersistExecution`, `PersistError`), so is
the file of a result, and so is the end of a graph node, when the checkpointer
keeps its channels: `Returns` inside the recovery graph, `Checkpointed` in the top
graph. `written` is what the graph node in progress has committed; a node that
writes two rows takes three steps, and the process may die before each of them.
`RowTakes` and `ErrorRowTakes` are the refusals of the repositories. In
`CaptureException` a refusal is passed over (`PassedOver`), in the wrapper it
becomes an error of the node (`Caught`), in the nodes of the recovery graph it
raises out of the run (`Raises`).

Recovery has all its actions: `Recommended` is the order retry, fallback, human,
abort; `ApplyRecoveryFallback` writes each error of the task that shares the
fallback, with its execution, and goes on behind the node; the human's answer may
retry, provide another directory, skip the file or give up, may be one that was
not offered (`RefuseAnswer`), and skipping wins over the policy's fallback until the
next question (`Cohort`). A crash is followed by `StartOver` when the job has no
answer (a new request and recovery, the lists of the checkpoint) and by `Resume`
when it has one: the graph node in progress runs again on its channels, at any
point up to and behind the end of the wrapped node, and the next question of the
recovery takes the answer, its own or an old one. `LaterNodes` adds to the run's
data, after which a restart computes another digest and the row refuses it.

What the module takes for granted: a checkpoint is written before the next node
starts (LangGraph may write it in the background, which would put more of the run
behind its rows). What it leaves out: the execution row of the inner node that
recorded an error, which is another row; an error for which no target is found
(it is given up in `select_recovery_error`); the category of an error, so that
`provide_path` is offered for every one; the order of several open errors and of
the rows of one degradation; the names of the fallbacks beyond `skip_file` and
`partial_result`; degradation records, tasks and the delay before a retry.

### TeamDispatch

One action per node of the team graph and of the agent graphs, whose four
variants have one shape; `run` and `work` are the channels of the run and the
stage node's working copy. An error is only its node and whether it is open,
closed, or absent, because that is all the routers look at (and they look at
`Marked`, not at open). `at` is the request being delegated. `LastCallFellBack`
is the audit record of the task's last call, from which the version stage tells
an answer of the model from a fallback. `disk` is the directory and the branch
of the task's worktree.

### Inventory, VersionGraph, VersionAnalysis, Evidence, Recommendation, Analysis

Files are numbers; their metadata, similarities and what a model may say are
parts of the input. Similarities and confidences are the code's numbers scaled
to integers, with its thresholds and weights. Each module adds the variables of
its stage and one action per node; `At` and the stage's repetition (a stage that
recorded an error may be run again over its earlier results, once) are in
`Inventory`, and so is sorting: a sort by a key with a unique last part is a
strict total order, and an element's place in the list is the number of those
before it (`Rank`, `SortedBy`). `VersionGraph` has the pure part: candidate
pairs, the constraints of a pair, the fusion of rule and model, the conversion of
relations to edges, branches, the topological order with its treatment of cycles.
Which files are alike depends on the texts that could be read (`input.alike` is a
function of the *lost* files): a preview stands in for a text that cannot be read,
so a repeated version stage may find other groups than the first pass did. They
are merged by identifier with the old ones, a file may then be in two groups, and
pairs, edges, branches and diffs carry the group they belong to. Left out are the
names that break ties between equal times, and thresholds other than the default
ones. `MergeExternalEvidence` compares whole deliveries where the code compares
references, and a worker of `MatchPdf` has no error of its own.
Three assumptions say what an input is: `FilesAssumption` (every file has its
metadata), `MailsAssumption` (finitely many mails, match scores in percent) and
`OpinionsAssumption` (the Judge's confidences are percentages).

## 3. Runs

| Run | Instance | Question and answer |
|---|---|---|
| `job_queue` | 2 jobs, 2 workers, 2 requests, 2 interrupts, 2 values, limits 1 and 3 | the invariants, what a step may do and the refinement hold |
| `background_worker` | 1 job, 2 workers, 2 requests, 2 interrupts, limit 2, 1 crash | stale executions are fenced, executions bounded |
| `worker_liveness` | 1 job, 2 workers, 1 interrupt, limit 2, 1 crash | every job settles |
| `job_sessions` | 1 job, 2 workers, 2 clients, 2 requests | no double claim, no foreign result |
| `scheduler` | 2 schedules, 2 runs each, 1 fault | registration, recording, disabling |
| `governance_run` | default policy, 14 failures, 3 of them in one run, 2 human retries | retries of a node's only error bounded, recovery has work, finalising settles the tasks, every run ends or gives an error up |
| `node_execution` | 5 rules for each kind of error, 3 failures, 2 restarts, 2 human retries | a success is neither repeated nor replaced, the run goes on with a result of its own or a degradation on record, the rows lead the checkpoint, the node ends |
| `team_dispatch` | 4 agents, 2 requests, the batch run up to twice, every node may fail | nothing stays held, every request answered |
| `analysis` | 6 inputs of 3 or 4 files, each agent's possible answers | chains complete, automatic choices safe, validations find nothing but files in two groups |
| `final_job_requeued` | 1 job, 2 workers | **violated** |
| `aborted_run` | two failures, one of them in one run, no human retry | **violated** |
| `replaced_path` | limits 0 and 1, 2 failures, 1 human retry | **violated** |

Why the bounds are enough. Two jobs are needed for the order of claiming and for
sweeps that find several leases at once; everything else a transaction does
touches one job, so the runs that split transactions use one. Two workers give
every pair of owner and late caller. Limits 1 and 3 meet the retry limit at once
and after a mixture of ordinary and resumed failures. Two interrupts and two
requests give a second question after an answer, a repeated and a reused
request. A lease term of one tick suffices because only its end matters; a retry
delay of one makes a job wait. One crash in addition to the unlimited number of
lost leases and refused calls reaches a death at every program point.

In `governance_run` the fourteen failures meet every kind of router and every way
to be recovered: retried and then degraded, retried and then asked about,
degraded at once, asked about at once, given up, recorded under the node's own
name, under an inner node's, or raised; two nodes have two errors each, because an
error takes over the count of another one of its node. Three failures in one run let a retried
error come back, another one arrive while it is open, and a third one follow at
the end. `node_execution` has one rule for each action of the recovery and two for
retries before the others, and every kind of error may have any of them; it needs
three failures for one of each kind, or one that outlasts the largest limit; two
restarts put a crash before and after a recovery, or into a run that was already
restarted; two human retries let the input change and stay changed. Two requests
in `team_dispatch` are an earlier and a later one; what a third sees of the first
two is what the second sees of the first, and the second pass starts from any
subset of the errors closed. The inputs of `analysis` are one for each hard
case: exports, a cycle of relations, a fork, mails that approve, reject and
replace, copies and unreadable files, and a text that is alike with another
only by its preview, so that a repeated pass may group otherwise. `MaxRuns`, `MaxFaults`, `MaxCrashes`,
`AgeLimit`, `MaxFailures`, `MaxRestarts`, `HumanRetries` and `MaxPasses` are the
only bounds on counters; `retried` allows one repetition of a stage.

Deadlock checking is off in `JobQueueMC` and the `JobSessions` runs: when every
job is final and no interrupt is fresh, the queue may stop. The other modules
have an explicit step for a program that has stopped.

Fairness. `FairSystem` assumes that a worker that is up goes on, that an
execution ends (`Execute` is part of `Work`), that a dead worker is started
again (`restart: unless-stopped` in `docker-compose.yml`), and that time passes.
Nothing is assumed of clients, of heartbeats or of crashes. `EveryJobSettles` is
meant per wait: a human may answer and start the next one. The scheduler's
`FairSpec` assumes that the reconcile interval comes round and that a dead
process is restarted; firing and clients are not assumed to happen. The graph of
`GovernanceRun` and of `NodeExecution` goes from node to node by itself, in one
thread, so weak fairness of "some step is taken" (`GoesOn`, `Step`) is what the
code gives; both include a human who answers what the run asks, because a parked
run promises nothing. No fairness is assumed between the outcomes of a step, and
crashes are not fair. In `GovernanceRun` fairness is stated over `pc`, which every
step but the last stutter changes. `TeamDispatch` and `Analysis` are loops over
finite lists, checked for safety.

Symmetry is declared over workers, requests and clients, and over jobs in
`JobQueueMC`, only in runs without liveness properties. `ImplementsLifecycle`
contains no fairness, so checking it under symmetry is sound.

## 4. Where the program and its documents disagree

Shown by a run:

1. **A finished job can be queued again** (`final_job_requeued`). A sweep reads
   the job before `finish` commits and writes after it.
2. **An aborted run need not end** (`aborted_run`). An error that was given up
   is unresolved. When its stage is `team_orchestration`, the router behind
   `finalize_run_tasks` sees it once more and sends the run back to recovery:
   another question, another abort, another failure report. Hence
   `RunEndsOrGivesUp` is stated for runs that give nothing up.
3. **A directory provided by a human is not read** (`replaced_path`). The node's
   row refuses another input digest; the refusal is captured as an error of the
   node and then refused again in recovery, where it ends the run.

Shown by two configurations of `GovernanceRunMC` that are kept beside the runs:

4. **Two errors of one node reset each other's count** (`RetriesReset.cfg`,
   `RecordedRetriesBounded` is violated). `create_node_error` takes the count from
   the last open error of the same `node_execution_id`, which need not be the same
   error (`error_context.py:245`). A node that fails with one message, with another,
   and with the first again goes on for ever, although each is to be retried twice
   at most; `technical-reference-1.0.0.md:1022-1023` has the inherited count keep
   finite retries from becoming an endless loop. What holds is
   `LoneRetriesBounded`: an error that is its node's only one is bounded.
5. **A run can end with a task running** (`UnfinishedTask.cfg`, `EndTellsTasks` is
   violated). `mark_recovery_aborted` leaves `current_error_id` on the error that was
   given up. A failure of an after-run hook comes after the tasks were settled and
   sends the run to recovery, which takes up the given-up error first
   (`error_recovery.py:49`); a human retries, the task is set to running, the node
   fails again with an error that has an older place in the list, so the hook's error
   is the next one selected; given up, it leads to the lifecycle failure report and
   the end, around `finalize_run_tasks`
   (`version-0.8.1-main-closure-runtime-resume.md:40` has unfinished tasks brought to
   an end). What holds is `FinalizationSettlesTasks`: `finalize_run_tasks` itself lets
   no run go on with an open task.

These two came out of the proofs: both properties held in a smaller instance, and
the search for an inductive invariant showed the runs that break them.

Visible in the models, and found while writing them, without a run of their own:

- *An answer can reach another question* (`BackgroundWorker`). A resumed
  execution is lost after the graph parked at its next question; the retry
  resumes that one with the old value (`worker.py:137`; `SECURITY.md:195`).
- *A run can contradict its job* (`BackgroundWorker`). `finalize_run` does not
  ask who owns the job (`lifecycle.py:461`).
- *One question can get two answers*, and *a running job can be without a lease*
  (`JobSessions`): the guards of `queue_resume` and `mark_running` are
  evaluated on rows read earlier (`repositories.py:698`, `:744`).
  `EveryJobSettles` is checked with transactions atomic, so it does not cover
  the second.
- *A disabled schedule can show a next run* (`Scheduler`) until its next change.
- *Only the latest request is remembered* (`JobQueue`): repeating an older answer
  is answered 409 where `docs/resume-and-interview.md:108` says 202.
- *Exceptions at a subgraph boundary are retried without a limit* when there is
  no database: `Captured` starts at zero
  (`technical-reference-1.0.0.md:1022-1023`).
  `LoneRetriesBounded` is about the other errors.
- *A completed task is opened again* by a recovery retry (`TaskOverwritten`;
  `version-0.3.2-team-orchestration.md:52`).
- *Routers of the team graph look at errors of any status* (`Marked`): after one
  failure the same node of every later delegation of the stage, and of its
  repetition, falls back, although `version-0.4.4-business-stage-integration.md:23-24`
  has a fallback for delegations that fail. `AnsweredUnlessStopped` shows that
  every request is answered nevertheless.
- *A leftover worktree directory* raises out of the team graph, and the batch's
  earlier results are lost (`LeftoverDirectoryRaises`).
- *The report fails* when the recommendation stage was degraded before any
  decision (`Generate`: KeyError in `generate_governance_report`, the run is
  `raised`).
- *A version stage that is run again keeps groups, edges and branches* it does not
  find again (`VersionAnalysis`; `state/converters.py:366`). When a text could be read
  in one pass and not in the other, the similarities differ
  (`document_grouping.py:314-327`) and a file may be in two groups.
  `ResultsPassValidation` shows what comes of it: the evidence stage records a
  validation error exactly then, and with the default policy, which neither retries
  nor degrades it, a run that nobody looks after gets no further.
- *With a database, an exception at the boundary is retried at most once* (`NodeExecution`):
  a second one starts again with no retry, its row refuses that, and the refusal is
  passed over; the selection then is refused too and raises. An error recorded
  inside the node is not computed again either: the row holds the success that
  reported it and refuses the new attempt, and the recovery of that refusal reuses
  the stored result or, when the run holds other data by then, raises.
- *An old answer meets another question* (`NodeExecution`): a job that was resumed
  and fails is resumed with the same value, which the next question of the recovery
  takes if it offers it, and refuses by raising if not.

## 5. Proofs

`JobQueueProofs` proves, for every value of the constants that satisfies
`QueueAssumption` (any set of jobs, workers, requests, interrupts and values,
any positive limits and lease term):

| Theorem | Property |
|---|---|
| `QueueIsInvariant` | `Spec => []QueueInvariant` |
| `TypesAreKept`, `LeasesMatchJobs`, `AnswersStayInOrder`, `BudgetIsSpentByFailures`, `AnswersAreCountedOnce`, `RunsMirrorJobs` | its conjuncts |
| `TerminalJobsAreFinal` | `TerminalIsFinal` |
| `AnswersWakeJobs` | `OnlyAnswersWake` |
| `QueueImplementsLifecycle` | `ImplementsLifecycle` |

The argument. All invariants are conjunctions over jobs of a predicate on the
job's row, lease, run and history, and a transaction changes one job, or several
independently (a sweep, a tick). The proof therefore shows for *one* job that
each kind of change keeps its predicate, and lifts this to the state once.
`QueueInvariant` strengthens the stated invariants by `HistoryFits`: a job that
does not exist has no past; an interrupt that still waits has never been
answered; the answer shown was accepted; a failed answer belongs to a failed job.
Without the second, accepting an answer could count one twice; without the
others, the counts do not start right. The refinement uses the invariant to know that an execution
whose lease expired was leased or running, and that what is left of the budget is
`max_attempts - failures`.

`NodeExecutionProofs` proves, for every value of the constants that satisfies
`NodeAssumption` (any set of rules, any number of failures, restarts and human
retries):

| Theorem | Property |
|---|---|
| `NodeIsInvariant` | `Spec => []NodeInvariant` |
| `NodeTypesAreKept` | `NodeTypeOK` |
| `DoneMeansResultOrFallback` | `DoneOrDegraded` |
| `RowsAreAhead` | `RowsLeadCheckpoint` |
| `SuccessesStay` | `NoSecondSuccess` |

The argument. None of them is inductive: a row is finished in one transaction, its
result is in a file, and the run's state follows later or, after a crash, not at
all. `NodeInvariant` therefore adds to the types what the copies of an execution
tell of each other (`Agree`: whoever holds a success holds the result that was
computed from its own input, and a row that holds one holds the file's) and what
the row is at each point of the run (`Phases`: it is "running" while the subgraph
runs, so the file is never rewritten under a success; the recovery decides and
degrades only where the row is a failure or a success of this run's directory,
since another digest is refused before that). `Handled` says that recovery is
about an error that is there, `Rows` that what a graph node has committed is in
the rows until it ends, which is what a later step of the same node relies on, and
`Leading` that an error's row knows the retries and the end that the state, the
checkpoint and the stored result know. The lemma everything rests on is
`SuccessRefuses`: a row that holds a success takes neither a failure nor another
attempt. A step that commits is one of three (`CommittedErrorKeeps`,
`PersistErrorKeeps`, `PersistExecutionKeeps`), and a step that ends a graph node
moves the channels to what was committed (`ReturnsKeeps`, `LeavesKeeps`,
`WrapperKeeps`). `DoneOrDegraded` is stated as it is because a degraded node has no
result of its own: what holds is that the failure and the degradation are on
record then.

`JobSessionsProofs` proves, from `QueueAssumption` and `ClientAssumption` (a client
is no worker):

| Theorem | Property |
|---|---|
| `SessionsKeepInvariant` | `SessionSpec => []SessionInvariant` |
| `SessionTypesAreKept` | `SessionTypeOK` |
| `OwnersHoldLeases` | `OwnerHoldsLease` |
| `ClaimsTakeQueuedJobs` | `ClaimsComeFromQueue` |
| `ResultsAreOwn` | `NoForeignResult` |

The argument. Rows a session holds may be out of date in every column that is
ever written; the invariant says of them only what survives that (`SessionsFit`:
their job exists, and they agree with the table on `max_attempts`, which nobody
writes). That a named owner holds its lease does not follow from what a
session read but from what its write step reads again: the condition of
`claim_next`'s UPDATE and the owner that `release` asks for. The proof has one
lemma per write step, and that is where these two guards are used.

`BackgroundWorkerProofs` proves, from `QueueAssumption` and `CrashAssumption` (any
number of workers and crashes):

| Theorem | Property |
|---|---|
| `WorkersKeepInvariant` | `SystemSpec => []SystemInvariant` |
| `WorkerTypesAreKept` | `WorkerTypeOK` |
| `OnlyTheLatestClaimWrites` | `LatestClaimWrites` |
| `ExecutionsAreBounded` | `ExecutionsBounded` |
| `QuestionsAreOpen` | `WaitsForRaisedInterrupt` |
| `WorkersImplementLifecycle` | `SystemSpec => ImplementsLifecycle` |

The argument. `QueueInvariant` is not an invariant here, because `finalize_run`
writes the governance run without asking the queue; the part of it that does not
mention the run is (`Orderly`), and the lemmas of `JobQueueProofs` about one job
carry over. To them come: a job's owner is the worker of its latest claim
(`OwnersAreLatest`), which is what the fencing of a stale worker rests on; an
interrupt a thread is parked at, and every interrupt a job shows, was raised
(`InterruptsKnown`); the question an execution is about to report is
new to the job and to every other execution (`QuestionsAreNew`); an execution that
reached `finalize_run` has none (`FinalHasNoQuestion`).

`WorkersImplementLifecycle` is the refinement of the whole system. The lifecycle
looks at a job, its count of failures and its pending answer, never at the run, so
the lemmas of `QueueImplementsLifecycle` are stated for rows in order
(`RowsInOrder`) and for any call of the queue (`QueueCall`); what is left is that
every step of a worker is such a call for the job it holds, or writes no job. The
same does not hold of `JobSessions`, whose sessions act on rows they read earlier:
there a job that has ended can be queued again (`final_job_requeued`).

`SchedulerProofs` proves, from `ScheduleAssumption` (any set of schedules, any
bound on runs and faults):

| Theorem | Property |
|---|---|
| `SchedulerKeepsInvariant` | `Spec => []SchedulerInvariant` |
| `SchedulerTypesAreKept` | `TypeOK` |
| `DisabledSchedulesStop` | `OneRunAfterDisable` |
| `LostRunsAreFaults` | `UnrecordedRunsAreFaults` |

The argument. `OneRunAfterDisable` counts runs after the fact; inductive is that
the count and the firing that has read the row and not yet submitted together
make at most one (`SurplusFits`), which needs that a firing reads `enabled` again.
In the same way the run that is being recorded is the newest (`NumbersFit`), and
it is the one by which runs and records may differ without a fault (`LossFits`).

`TeamDispatchProofs` proves, from `TeamDispatchAssumption` (any non-empty batch):

| Theorem | Property |
|---|---|
| `DelegationsKeepInvariant` | `Spec => []DispatchInvariant` |
| `DispatchTypesAreKept` | `TeamDispatchTypeOK` |
| `NothingStaysHeld` | `NothingHeldBetweenRequests` |
| `RequestsAreAnswered` | `AnsweredUnlessStopped` |
| `FallbacksAreNotApplied` | `OnlyAnswersApplied` |

The argument. Each property speaks of the node between two requests, so the
invariant says for every node of the delegation what may be held there
(`HoldsOnlyWithin`) and which requests are answered by then (`AnsweredSoFar`).
That a fallback is not applied rests on `FallbackAudited`: a fallback's result
exists only together with the audit record that says so, from the coordinator's
step until the next request begins.

`GovernanceRunProofs` proves, from `PoliciesAssumption` and `FailuresAssumption`
(any policy, any set of failures, of which those that raise carry the name of the
node they leave; any number of them, and of human retries):

| Theorem | Property |
|---|---|
| `RunKeepsInvariant` | `Spec => []RunInvariant` |
| `RunTypesAreKept` | `RunTypeOK` |
| `RecoveryAlwaysHasWork` | `RecoveryHasWork` |
| `LoneErrorsAreBounded` | `LoneRetriesBounded` |
| `FinalizationSettles` | `FinalizationSettlesTasks` |

The argument. `ErrorsFit` says of the channel that each error has one entry, that a
settled entry is not fatal, and that an entry's count of retries covers the
automatic ones unless the error was raised or has a sibling of the same node and
task. That exception is the code's (`create_node_error` goes on with the count of
the *last* open error of the node), and without it nothing is preserved: see
`RetriesReset.cfg`. Every way into the channel is one of two lemmas, `MergedKeeps`
for the reducer and `DegradedFits` for a degradation of several. `NodeFinds` says
what each node of the recovery graph relies on without asking: an open error at the
selection, a current error that is in the channel, a target on the tables of
`RetryNodes`, and at an automatic retry a count below the policy's bound. The
routers establish it (`RoutedWithReason`), since the lines of `RetryNodes` and the
nodes of the recovery graph have nothing in common (`LineNodesAreOrdinary`).
`FinalizationSettles` rests on `FinalizeFits`: without an open error or a refusal
the requests of `settle_unfinished_tasks_before_report` and the two for the report
leave each task in a final status. A refusal is an open error of the team graph, so
the router stops the run. The prover does not know that a literal is a string;
`Problem` therefore adds the refusals to `Failure` by name.

`AnalysisProofs` proves, from `FilesAssumption`, `MailsAssumption` and
`OpinionsAssumption` (any number of files and mails, any similarities, any
answers of the sub-agents and of the Judge):

| Theorem | Property or fact |
|---|---|
| `SortedBySorts` | a sorted set is listed once and in order |
| `ReachableCloses` | `Reachable` is the least closed set |
| `GroupsPartition` | one pass puts every file into one group |
| `TopologicalOrders` | Kahn's algorithm lists files after those they derive from, and leaves out only what derives from another file that is left out |
| `AcyclicRelationsAreListed` | if the relations have no cycle, it leaves out nothing |
| `AnalysisKeepsInvariant` | `Spec => []IInv` |
| `ChainsListTheirGroups` | `ChainListsItsGroup` |
| `AutomaticChoicesAreSafe` | `AutomaticChoiceIsSafe` |
| `StagesPassValidation` | `ResultsPassValidation` |
| `ReviewsNeedHumans` | `ReviewOnlyClearedByHuman` |

The argument. The properties relate what one stage wrote to what later ones read,
and each stage may run twice over its own earlier results, so the invariant says
for every part of the state by which node it is as it should be. `FilesFit`: a
second pass of the inventory may lose a file that others are copies of, so copies
of copies exist until `mark_exact_duplicates`, and after it none. `GroupsFit`: the
groups of one pass are disjoint; those of two passes need not be, but then the
evidence stage has recorded it before it ends, and the recommendation starts only
from disjoint ones. `VersionsFit`: what is compared are originals of one group and
an edge joins two files of its group and is of one of three kinds, so the edges an
earlier pass left behind fit too. `ChainsFit`: from `build_version_chains` on every
group has a chain that lists it; `RecordsFit`: what the validation of the inventory
asks is so all the time, and that of the evidence stage but for the disjoint groups,
because groups change only before there is evidence. `DecisionsFit` follows a decision from node to node, through sets of
nodes that get smaller as the stage goes on (`ScoredNodes` to `JudgeNodes`): an
excluded file has lost its score before the choice, a group a rule has settled
has passed every test so far, and nothing after `calculate_decision_confidence`
settles one.

The chain of a group rests on `TopologicalOrders`. Its invariant (`KahnFits`)
says of a round that what is done stands after its parents, that the parents of
what is ready are done, and that any other node has a parent that is not; a round
either does one more node or nothing is ready. On a cycle nothing is ever ready:
`build_version_chains` then appends the rest by time and does not call the chain
complete, and `ChainsInOrder` shows that the list is the whole group all the same.

The recursive functions of the model and of the community modules (`Topological`,
`Reachable`, `FlattenSeq`, sums over sets) are `CHOOSE`n by TLA+; before anything can
be said of them it has to be shown that they exist. That is done by induction
over the natural numbers for a *set* of numbers (`NatSetInduction`, from the
library's `WFMin`), which needs no operator parameter.

All assumptions are checked by TLC in the runs of the modules that declare them.

Every invariant and every action property the passing runs check is stated by a
theorem. Model-checked only are the liveness properties `EveryJobSettles`,
`RegistrationFollowsTable`, `RunEndsOrGivesUp` and `NodeComesToAnEnd`: the prover
supports neither fairness nor ENABLED.

## 6. Not modelled

- Background: cron arithmetic and APScheduler's due times; the contents of
  requests, reports and resume values; the HTTP layer's authentication; the
  500-lease limit of a sweep; two processes running under the same `--worker-id`
  (the worker id is the only fencing token, so the deployment must keep ids
  apart; the default is host name and process id, so a restarted container is
  the same worker again, as in the model); database engines without a write lock.
- Governance run: the texts of messages, prompts, reasons and reports; times;
  output references of tasks; which memories are recalled or kept and what a
  compaction keeps (nothing in a run is decided by it); the hooks themselves; a
  policy that is switched off. Recovery with a database is modelled for one node,
  not for the whole run, because the row of each node is independent of the
  others.
- Delegations: the legality of team and task table at their start, which
  `TaskDag` gives; providers, retries and token budgets inside one structured
  call; the two assignments a result does not depend on.
- Analysis: file formats and text similarity, which are inputs; the
  `recommendation_judgments` records, the reasons of a decision and the order of
  the review list; ties between file names, thresholds other than the default ones
  and the errors of a single PDF worker; the limits on the sizes of texts and lists.
- The components marked `not_modelled` in `PROJECT.json` with a reason.

## 7. Plan

Models worth adding: a run with a database over more than one node, as a
composition of `GovernanceRun` with one `NodeExecution` per wrapped node; the
abstract promise of a delegation, which `TeamDispatch` implements, in the place of
`Delegates` in `GovernanceRun`.

## 8. Running

```
tlc -workers 2 -config JobQueueMC.cfg JobQueueMC
tlc -workers 2 -config GovernanceRunMC.cfg GovernanceRunMC
tlc -workers 2 -config NodeExecutionMC.cfg NodeExecutionMC
tlc -workers 2 -config RetriesReset.cfg GovernanceRunMC
tlapm JobQueueProofs.tla
tlapm NodeExecutionProofs.tla
tlapm JobSessionsProofs.tla
tlapm BackgroundWorkerProofs.tla
tlapm SchedulerProofs.tla
tlapm TeamDispatchProofs.tla
tlapm GovernanceRunProofs.tla
tlapm AnalysisProofs.tla
```

The mutation operators (named in comments "Mutation of ...") are plausible bugs:
each property is violated when the definition is replaced by its mutation.
