--------------------------- MODULE GovernanceRun ---------------------------
(***************************************************************************)
(* One governance run: the nodes of the top graph in the order of their    *)
(* edges and routers (src/app/graphs/file_governance.py,                   *)
(* src/app/graphs/routers.py), with the recovery graph of ErrorRecovery,   *)
(* the task table, and the user's todo list.  What the business subgraphs  *)
(* compute is Analysis; here they succeed, record an error or raise.       *)
(***************************************************************************)
EXTENDS ErrorRecovery, FiniteSets

CONSTANT MaxFailures    \* bound: failing node executions in one run

VARIABLES
    todos,     \* the todo list; <<>> until the team graph first ran
    found,     \* what the run has produced: documents, groups, decisions, review
    report,    \* the kind of report last generated
    budget     \* failing executions still to come

runVars == <<todos, found, report, budget>>
vars == <<recoveryVars, runVars>>

ReportKind == {"none", "no_data", "failure", "governance", "lifecycle"}

DispatchNodes == {"dispatch_content_subagent_task", "dispatch_evidence_subagent_task",
                  "dispatch_recommendation_judge_task"}

LocalStages == {"memory_recall", "memory_persist", "context_compact_after_inventory",
                "context_compact_after_evidence"}
TeamStages == {"team_orchestration", "content_subagent", "evidence_subagent",
               "recommendation_judge_subagent"}

\* Whether the router after node n sends the run to recovery because of f:
\* the nodes before and between the business stages.
StopsOnTheWay(n, f) ==
    CASE n = "execute_before_run_hooks" ->
            f.category = "hook" /\ f.stage \in {"before_run", "before_run_hooks"}
      [] n = "load_system_prompt" -> f.category = "prompt"
      [] n \in {"recall_long_term_memory", "persist_long_term_memory",
                "run_context_compact_after_inventory",
                "run_context_compact_after_evidence"} -> f.stage \in LocalStages
      [] n = "validate_request" -> f.stage = "request_validation"
      [] n = "sync_inventory_task_status" -> f.stage = "inventory"
      [] n = "sync_recommendation_task_status" -> f.stage = "recommendation"
      [] n = "sync_version_task_status" -> f.stage \in {"version_analysis", "version_subagent"}
      [] n = "sync_evidence_task_status" -> f.stage \in {"evidence", "evidence_subagent"}
      [] n \in {"plan_run_tasks", "sync_human_review_task_status"} \cup DispatchNodes ->
            f.stage \in TeamStages
      [] n = "load_skill_registry" -> f.stage = "skills"
      [] OTHER -> FALSE

\* The same for the nodes after the report.
StopsTheEnd(n, f) ==
    CASE n = "validate_report_result"  -> f.stage = "report"
      [] n = "finalize_run_tasks"      -> f.stage = "team_orchestration"
      [] n = "execute_after_run_hooks" ->
            f.category = "hook" /\ f.stage \in {"after_run", "after_run_hooks"}
      [] OTHER -> FALSE

\* Where the run goes when nothing stops it after node n.
Onward(n, data) ==
    CASE n = "initialize_run" -> "execute_before_run_hooks"
      [] n = "sync_inventory_task_status" ->
            IF data.documents THEN After(n) ELSE "generate_no_data_report"
      [] n = "sync_recommendation_task_status" ->
            IF data.review THEN "prepare_human_review" ELSE After(n)
      [] OTHER -> After(n)

\* Mutation of Routed: settled errors stop the run too.
RoutedByAnyError(n, errs, data) ==
    IF \E i \in DOMAIN errs : StopsOnTheWay(n, errs[i].failure) \/ StopsTheEnd(n, errs[i].failure)
    THEN "select_recovery_error" ELSE Onward(n, data)

Routed(n, errs, data) ==
    IF \E i \in DOMAIN errs : /\ Unresolved(errs[i])
                              /\ \/ StopsOnTheWay(n, errs[i].failure)
                                 \/ StopsTheEnd(n, errs[i].failure)
    THEN "select_recovery_error" ELSE Onward(n, data)

FailuresAt(n, raised) == {f \in Failures : f.at = n /\ f.raised = raised}

\* k of the failures the instance allows happen now.
Failing(k) == k <= budget /\ budget' = budget - k

(***************************************************************************)
(* Nodes that do not touch the task table: they do their work or record    *)
(* what went wrong.                                                        *)
(***************************************************************************)
Works(n) ==
    /\ pc = n
    /\ \/ errors' = errors /\ budget' = budget
       \/ \E f \in FailuresAt(n, FALSE) : errors' = Recorded(errors, f) /\ Failing(1)
    /\ pc' = Routed(n, errors', found)
    /\ UNCHANGED <<status, tasks, recovery, degraded, retries, todos, found, report>>

\* The application database cannot be opened.
InitializeRun == Works("initialize_run")

\* The request, the roots or the workspace are refused.
ValidateRequest == Works("validate_request")

\* The system prompt cannot be read.
LoadSystemPrompt == Works("load_system_prompt")

\* The long-term memory has no database or its database fails.
RecallLongTermMemory == Works("recall_long_term_memory")

\* The registry of skills cannot be read or is not valid.
LoadSkillRegistry == Works("load_skill_registry")

\* The report is not complete.
ValidateReportResult == Works("validate_report_result")

\* The items fail their check, or the database of the memory fails.
PersistLongTermMemory == Works("persist_long_term_memory")

\* execute_hook_phase: the hooks of a phase run one after the other, also
\* after one that failed; each failure whose policy is to block is recorded
\* under the hook's name.  When the runner itself fails, that is all there is.
HookPhase(n) ==
    /\ pc = n
    /\ \E k \in 0..budget : \E failing \in [1..k -> FailuresAt(n, FALSE)] :
        /\ \A i, j \in 1..k : failing[i].node = failing[j].node => i = j
        /\ (\E i \in 1..k : failing[i].node = n) => k = 1
        /\ errors' = RecordedAll(errors, failing)
        /\ Failing(k)
    /\ pc' = Routed(n, errors', found)
    /\ UNCHANGED <<status, tasks, recovery, degraded, retries, todos, found, report>>

ExecuteBeforeRunHooks == HookPhase("execute_before_run_hooks")
ExecuteAfterRunHooks == HookPhase("execute_after_run_hooks")

(***************************************************************************)
(* The subgraphs, each behind execute_recoverable_subgraph.                *)
(***************************************************************************)

\* A wrapped node that ends without repeating the error being retried settles it.
Settling(repeated) ==
    recovery.action = "retry" /\ recovery.current # NoFailure /\ recovery.current # repeated

AfterSuccess(errs, repeated) ==
    IF Settling(repeated)
    THEN /\ errors' = Merged(errs, [EntryOf(errs, recovery.current)
                                    EXCEPT !.status = "recovered", !.fatal = FALSE])
         /\ recovery' = [recovery EXCEPT !.pending = Without(@, {recovery.current}),
                                         !.current = NoFailure, !.action = "none",
                                         !.retryAt = NoNode, !.resumeAfter = NoNode,
                                         !.fallback = NoFallback]
    ELSE errors' = errs /\ recovery' = recovery

\* The subgraph ended; done and partly are what the run's data may be then,
\* without and with an error recorded on the way.
Ends(n, done, partly) ==
    /\ pc = n
    /\ \/ AfterSuccess(errors, NoFailure) /\ budget' = budget /\ found' \in done
       \/ \E f \in FailuresAt(n, FALSE) :
            AfterSuccess(Recorded(errors, f), f) /\ Failing(1) /\ found' \in partly
    /\ pc' = Routed(n, errors', found')
    /\ UNCHANGED <<status, tasks, degraded, retries, todos, report>>

\* capture_subgraph_exception.
Raises(n) ==
    /\ pc = n
    /\ \E f \in FailuresAt(n, TRUE) :
        /\ Failing(1)
        /\ errors' = Captured(errors, f)
        /\ LET target == RetryNode(f.node, f.stage, f.task)
           IN  recovery' = [recovery EXCEPT !.current = f, !.pending = AddPending(@, f),
                                            !.action = "none", !.retryAt = target,
                                            !.resumeAfter = After(target)]
    /\ status' = "recovering"
    /\ pc' = "select_recovery_error"
    /\ UNCHANGED <<tasks, degraded, retries, todos, found, report>>

Boundary(n, done, partly) == Ends(n, done, partly) \/ Raises(n)

\* inventory_state_to_file_governance_update: documents, or none.
Inventoried == {[found EXCEPT !.documents = d] : d \in {found.documents, TRUE}}

\* version_analysis_state_to_file_governance_update.
Grouped == [found EXCEPT !.groups = TRUE]

\* recommendation_state_to_file_governance_update: a decision for every group,
\* which may leave groups to a human.
Decided == {[found EXCEPT !.decisions = found.groups, !.review = r] :
                r \in IF found.groups THEN BOOLEAN ELSE {FALSE}}

RunInventorySubgraph == Boundary("run_inventory_subgraph", Inventoried, Inventoried)
RunContextCompactAfterInventory ==
    Boundary("run_context_compact_after_inventory", {found}, {found})
RunVersionAnalysisSubgraph ==
    Boundary("run_version_analysis_subgraph", {Grouped}, {Grouped, found})
RunEvidenceSubgraph == Boundary("run_evidence_subgraph", {found}, {found})
RunContextCompactAfterEvidence ==
    Boundary("run_context_compact_after_evidence", {found}, {found})
RunRecommendationSubgraph ==
    Boundary("run_recommendation_subgraph", Decided, Decided \cup {found})

(***************************************************************************)
(* The delegations of a stage, one team graph run each: TeamDispatch       *)
(* models one.  Here the todo list is projected again when anything was    *)
(* delegated, and an error may come back.                                  *)
(***************************************************************************)
Delegates(n, outcome) ==
    /\ pc = n
    /\ \/ errors' = errors /\ budget' = budget
       \/ \E f \in FailuresAt(n, FALSE) : errors' = Recorded(errors, f) /\ Failing(1)
    /\ todos' \in {todos, TodosFrom(tasks)}
    /\ found' \in outcome
    /\ pc' = Routed(n, errors', found')
    /\ UNCHANGED <<status, tasks, recovery, degraded, retries, report>>

DispatchContentSubagentTask == Delegates("dispatch_content_subagent_task", {found})
DispatchEvidenceSubagentTask == Delegates("dispatch_evidence_subagent_task", {found})

\* The judge may ask for a review, never withdraw one.
DispatchRecommendationJudgeTask ==
    Delegates("dispatch_recommendation_judge_task",
              {found} \cup (IF found.decisions THEN {[found EXCEPT !.review = TRUE]} ELSE {}))

(***************************************************************************)
(* Nodes that move tasks.                                                  *)
(***************************************************************************)

\* The tasks with an open orchestration error: the team graph sees it again.
OpenTasks == {e.failure.task : e \in {errors[i] : i \in {j \in DOMAIN errors :
                Unresolved(errors[j]) /\ errors[j].failure.stage = "team_orchestration"}}}

Refused(errs, refused) ==
    RecordedAll(errs, [i \in 1..Len(refused) |-> Refusal(refused[i][1], refused[i][2])])

\* update_user_todos, the last node of the team graph.
Projected(l) == IF l.asked THEN TodosFrom(l.tasks) ELSE todos

\* The node n moved the tasks as ledger l says.
Moved(n, l) ==
    /\ pc = n
    /\ tasks' = l.tasks
    /\ todos' = Projected(l)
    /\ errors' = Refused(errors, l.refused)
    /\ pc' = Routed(n, errors', found)
    /\ UNCHANGED <<status, recovery, degraded, retries, found, report, budget>>

\* The team graph creates the task table when there is none.
Known == IF tasks = <<>> THEN NewTasks ELSE tasks

PlanRunTasks == Moved("plan_run_tasks", Apply(Ledger(Known, OpenTasks), "inventory", "running", FALSE))

\* sync_business_task_status.
Synced(t, next) ==
    LET completed == Apply(Ledger(Known, OpenTasks), t, "completed", FALSE)
        failing   == \E i \in DOMAIN errors :
                        Unresolved(errors[i]) /\ errors[i].failure.stage = t
    IN  IF failing THEN Ledger(tasks, OpenTasks)
        ELSE IF completed.stop \/ (t = "inventory" /\ ~found.documents) THEN completed
        ELSE IF t = "recommendation"
        THEN Apply(completed, "human_review", IF found.review THEN "running" ELSE "skipped", FALSE)
        ELSE Apply(completed, next, "running", FALSE)

SyncInventory == Moved("sync_inventory_task_status", Synced("inventory", "version_analysis"))
SyncVersion == Moved("sync_version_task_status", Synced("version_analysis", "evidence"))
SyncEvidence == Moved("sync_evidence_task_status", Synced("evidence", "recommendation"))
SyncRecommendation == Moved("sync_recommendation_task_status", Synced("recommendation", "none"))
SyncHumanReview == Moved("sync_human_review_task_status",
                         Apply(Ledger(Known, OpenTasks), "human_review", "completed", FALSE))

FinalizeRunTasks == Moved("finalize_run_tasks",
    IF tasks = <<>> THEN Ledger(tasks, {}) ELSE Finalize(Ledger(tasks, OpenTasks)))

(***************************************************************************)
(* Review, reports and the end.                                            *)
(***************************************************************************)

\* prepare_human_review: the run is parked.
PrepareHumanReview ==
    /\ pc = "prepare_human_review"
    /\ status' = "waiting_human"
    /\ pc' = "request_human_review"
    /\ UNCHANGED <<tasks, errors, recovery, degraded, retries, runVars>>

\* request_human_review and apply_human_selection: every pending group got a
\* selection of one of its candidates.
AnswerReview ==
    /\ pc = "request_human_review"
    /\ status' = "running"
    /\ found' = [found EXCEPT !.review = FALSE]
    /\ pc' = "sync_human_review_task_status"
    /\ UNCHANGED <<tasks, errors, recovery, degraded, retries, todos, report, budget>>

\* A report node.  The governance report needs a decision for every group.
Generate(n, kind, next) ==
    /\ pc = n
    /\ IF kind = "governance" /\ found.groups /\ ~found.decisions
       THEN pc' = "raised" /\ report' = report
       ELSE pc' = next /\ report' = kind
    /\ UNCHANGED <<status, tasks, errors, recovery, degraded, retries, todos, found, budget>>

GenerateFailureReport == Generate("generate_failure_report", "failure", "validate_report_result")
GenerateNoDataReport == Generate("generate_no_data_report", "no_data", "validate_report_result")
GenerateGovernanceReport ==
    Generate("generate_governance_report", "governance", "validate_report_result")
GenerateLifecycleFailureReport ==
    Generate("generate_lifecycle_failure_report", "lifecycle", "finalize_run")

FinalizeRun ==
    /\ pc = "finalize_run"
    /\ status' = IF \E i \in DOMAIN errors : Unresolved(errors[i]) THEN "failed"
                 ELSE IF errors # <<>> THEN "partial" ELSE "completed"
    /\ pc' = "ended"
    /\ UNCHANGED <<tasks, errors, recovery, degraded, retries, runVars>>

Init ==
    /\ pc = "initialize_run" /\ status = "running"
    /\ tasks = <<>> /\ errors = <<>> /\ recovery = NewRecovery /\ degraded = {}
    /\ retries = HumanRetries
    /\ todos = <<>> /\ report = "none" /\ budget = MaxFailures
    /\ found = [documents |-> FALSE, groups |-> FALSE, decisions |-> FALSE, review |-> FALSE]

LifecycleStep ==
    \/ InitializeRun
    \/ ExecuteBeforeRunHooks
    \/ ValidateRequest
    \/ LoadSystemPrompt
    \/ RecallLongTermMemory
    \/ LoadSkillRegistry
    \/ ValidateReportResult
    \/ PersistLongTermMemory
    \/ ExecuteAfterRunHooks
    \/ FinalizeRun

BusinessStep ==
    \/ RunInventorySubgraph
    \/ RunContextCompactAfterInventory
    \/ DispatchContentSubagentTask
    \/ RunVersionAnalysisSubgraph
    \/ RunEvidenceSubgraph
    \/ DispatchEvidenceSubagentTask
    \/ RunContextCompactAfterEvidence
    \/ RunRecommendationSubgraph
    \/ DispatchRecommendationJudgeTask
    \/ PrepareHumanReview
    \/ AnswerReview
    \/ GenerateFailureReport
    \/ GenerateNoDataReport
    \/ GenerateGovernanceReport
    \/ GenerateLifecycleFailureReport

TaskStep ==
    \/ PlanRunTasks
    \/ SyncInventory
    \/ SyncVersion
    \/ SyncEvidence
    \/ SyncRecommendation
    \/ SyncHumanReview
    \/ FinalizeRunTasks

Stopped == {"ended", "raised"}

Next ==
    \/ LifecycleStep
    \/ BusinessStep
    \/ TaskStep
    \/ RecoveryNext /\ UNCHANGED runVars
    \/ pc \in Stopped /\ UNCHANGED vars

Spec == Init /\ [][Next]_vars

\* The graph goes on from node to node by itself, and a human answers what a
\* parked run asks: no node but a stop is the last.  Every step but the last
\* disjunct's moves pc, and the runs check that one is always possible.
Nodes == RetryNodes \cup
    {"initialize_run", "select_recovery_error", "decide_recovery_action",
     "schedule_recovery_retry", "apply_recovery_fallback", "prepare_recovery_human_input",
     "request_recovery_human_input", "mark_recovery_aborted", "prepare_human_review",
     "request_human_review", "generate_no_data_report", "generate_failure_report",
     "generate_governance_report", "generate_lifecycle_failure_report", "finalize_run"}

GoesOn == pc \notin Stopped /\ \E n \in Nodes \cup Stopped : pc' = n

FairSpec == Spec /\ WF_pc(GoesOn)

(***************************************************************************)
(* Properties.                                                             *)
(***************************************************************************)

\* The channels hold what the state models say; a settled error is not fatal.
RunTypeOK ==
    /\ status \in {"running", "recovering", "waiting_human", "failed", "partial", "completed"}
    /\ tasks # <<>> => tasks \in [Tasks -> TaskRow]
    /\ todos # <<>> => DOMAIN todos = Todos
    /\ \A i \in DOMAIN errors :
        /\ errors[i].status \in ErrorStatus
        /\ errors[i].fatal => errors[i].status \notin Settled
        /\ Cardinality(Positions(errors, errors[i].failure)) = 1
    /\ report \in ReportKind

\* An error recorded by the node that failed is retried automatically at most
\* as often as its category's policy allows, however often it comes back: a
\* replay of the node inherits the count, so that a finite number of retries is
\* not reset into an endless loop (technical-reference-1.0.0.md:1022).  It is
\* violated when a node has two errors: see RetriesReset.cfg.
RecordedRetriesBounded ==
    \A i \in DOMAIN errors :
        ~errors[i].failure.raised => errors[i].auto <= Policies[errors[i].failure.category].max

\* The same for an error whose node has recorded no other one for the task: it
\* inherits its own count.
LoneRetriesBounded ==
    \A i \in DOMAIN errors :
        \/ errors[i].failure.raised
        \/ \E j \in DOMAIN errors \ {i} : errors[j].failure.node = errors[i].failure.node
                                         /\ errors[j].failure.task = errors[i].failure.task
        \/ errors[i].auto <= Policies[errors[i].failure.category].max

\* No router sends the run to recovery for nothing.
RecoveryHasWork == pc = "select_recovery_error" => Selected # NoFailure

\* A run that finalize_run_tasks lets go on has brought every task to an end,
\* although each of the six requests may be refused and a refusal stops the
\* others; and when it moved a task, the todo list says so.
FinalizationSettlesTasks ==
    [][(pc = "finalize_run_tasks" /\ pc' # "select_recovery_error" /\ tasks # <<>>) =>
          /\ \A t \in Tasks : tasks'[t].status \in TerminalTask
          /\ tasks' # tasks => todos' = TodosFrom(tasks')]_vars

\* A run that ended has brought every task to an end, and its todo list says
\* what became of them (version-0.8.1-main-closure-runtime-resume.md:40).  It is
\* violated when recovery reopens a task after that: see UnfinishedTask.cfg.
EndTellsTasks ==
    pc = "ended" =>
        /\ tasks # <<>> => \A t \in Tasks : tasks[t].status \in TerminalTask
        /\ todos # <<>> => todos = TodosFrom(tasks)

\* A run that was given up ends (state-contracts-1.0.0.md:191).
AbortEndsRun == recovery.action = "abort" ~> pc \in Stopped

\* Finitely many failures and retries later the run has ended, unless an error
\* was given up.
RunEndsOrGivesUp ==
    <>(pc \in Stopped \/ \E i \in DOMAIN errors : errors[i].status = "failed")
=============================================================================
