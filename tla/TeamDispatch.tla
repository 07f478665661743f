---------------------------- MODULE TeamDispatch ----------------------------
(***************************************************************************)
(* The delegations of one stage of a governance run to a fixed sub-agent:  *)
(* a batch of requests, each of them one run of the team graph with a run  *)
(* of the sub-agent's graph inside, and the repetition of the batch after  *)
(* an error recovery.  One action per node.                                *)
(* src/app/graphs/team_orchestration.py, src/app/nodes/team_orchestration, *)
(* src/app/nodes/skills.py, src/app/nodes/subagents.py,                    *)
(* src/app/utils/task_tracking.py.                                         *)
(*                                                                         *)
(* All requests of a batch have the same task and the same agent.  The     *)
(* task table and the team are legal (TaskDag), so the nodes before the    *)
(* skills pass; recovery is enabled, as by default, so every error that a  *)
(* node records is open and fatal whatever the node asked for.             *)
(***************************************************************************)
EXTENDS Naturals, Sequences, FiniteSets, SequencesExt

CONSTANTS
    Requests,     \* how many requests the batch has
    MaxPasses     \* bound: runs of the batch

ASSUME TeamDispatchAssumption == Requests \in Nat \ {0} /\ MaxPasses \in Nat \ {0}

VARIABLES
    setup,    \* role, fallback_enabled, requests outside the protocol, repository write
    pc,       \* the node about to run
    at,       \* the request being delegated
    run,      \* the channels of the run at the start of the batch
    work,     \* the batch's working copy of them
    errors,   \* the error channel of the current team graph
    skills,   \* the status of the task's skills in the current registry
    output,   \* the structured result of the current request
    active,   \* whether this team graph holds a worktree
    disk,     \* the task's worktree directory and branch
    passes    \* runs of the batch that are still allowed (a bound of the model)

vars == <<setup, pc, at, run, work, errors, skills, output, active, disk, passes>>

Request == 1..Requests

Role == {"content", "version", "evidence", "recommendation_judge"}

\* A result: an answer of the model or a deterministic fallback, and the
\* request whose artifacts it cites (0: it would be the same for any request).
NoResult == [by |-> "nobody", about |-> 0]
Result == [by : {"model", "fallback"}, about : 0..Requests]

\* A team message is identified by its content; the assignments are left out,
\* one is created for every request and nothing is decided by them.
Message == [type : {"result", "error"}, result : Result \cup {NoResult}]

SkillNodes == {"select_task_skills", "load_task_skills", "bind_task_skills"}
TeamNodes == SkillNodes \cup
    {"validate_subagent_payload", "prepare_task_worktree", "invoke_subagent_graph",
     "validate_team_message", "merge_subagent_artifacts", "close_task_worktree"}
AgentNodes == {"validate_subagent_input", "build_subagent_prompt", "execute_before_model_hooks",
               "invoke_structured_llm", "execute_after_model_hooks", "validate_subagent_output"}
\* The errors of the hooks carry a stage that no router knows.
HookNodes == {"execute_before_model_hooks", "execute_after_model_hooks"}
ErrorNodes == TeamNodes \cup AgentNodes \cup {"dispatch_subagent_task"}

\* What the channel holds about a node: no error, an open one, or only errors
\* that are being retried or were settled.
ErrorState == {"none", "open", "closed"}

NoErrors == [n \in ErrorNodes |-> "none"]

Recorded(n) == [errors EXCEPT ![n] = "open"]

\* Any error of the node, also one of an earlier delegation (the routers do
\* not look at its status).
Marked(errs, n) == errs[n] # "none"

\* Mutation of Sent: the identity of a message is not looked at.
SentAgain(messages, m) == Append(messages, m)

\* merge_by_message_id: a message sent again stays where it was.
Sent(messages, m) == IF \E i \in DOMAIN messages : messages[i] = m THEN messages
                     ELSE Append(messages, m)

ResultMessage(r) == [type |-> "result", result |-> r]
ErrorMessage == [type |-> "error", result |-> NoResult]

\* find_latest_subagent_message.
LatestIs(messages, m) == messages # <<>> /\ messages[Len(messages)] = m

\* Mutation of OrchestrationFailed: an error of the sub-agent counts too.
AnythingFailed(errs) == \E n \in ErrorNodes : errs[n] = "open"

\* has_orchestration_failure.
OrchestrationFailed(errs) == \E n \in TeamNodes : errs[n] = "open"

\* The errors a team graph is started with: those of its task in the caller's
\* state.  The version stage hands its own channel on from comparison to
\* comparison, the others the one they started with.
Handed == IF setup.role = "version" THEN work.errors ELSE run.errors

At(node) == pc = node

(***************************************************************************)
(* Skills, payload, workspace and assignment.                              *)
(***************************************************************************)
BeginRequest ==
    /\ At("next_request")
    /\ at <= Requests
    /\ errors' = Handed /\ skills' = "available" /\ output' = NoResult /\ active' = FALSE
    /\ pc' = "select_task_skills"
    /\ UNCHANGED <<setup, at, run, work, disk, passes>>

\* A failed selection leaves nothing to load, a failed load nothing to bind.
SelectTaskSkills ==
    /\ At("select_task_skills")
    /\ pc' = "load_task_skills"
    /\ \/ skills' = "selected" /\ errors' = errors
       \/ skills' = "available" /\ errors' = Recorded("select_task_skills")
    /\ UNCHANGED <<setup, at, run, work, output, active, disk, passes>>

LoadTaskSkills ==
    /\ At("load_task_skills")
    /\ pc' = "bind_task_skills"
    /\ \/ skills = "selected" /\ skills' = "loaded" /\ errors' = errors
       \/ skills' = skills /\ errors' = Recorded("load_task_skills")
    /\ UNCHANGED <<setup, at, run, work, output, active, disk, passes>>

\* route_skill_preparation_result.
BindTaskSkills ==
    /\ At("bind_task_skills")
    /\ IF skills = "loaded"
       THEN skills' = "bound" /\ work' = [work EXCEPT !.bound = TRUE] /\ errors' = errors
       ELSE errors' = Recorded("bind_task_skills") /\ UNCHANGED <<skills, work>>
    /\ pc' = IF skills' # "bound" \/ \E n \in SkillNodes : Marked(errors', n)
             THEN "fallback_to_coordinator" ELSE "validate_subagent_payload"
    /\ UNCHANGED <<setup, at, run, output, active, disk, passes>>

ValidateSubagentPayload ==
    /\ At("validate_subagent_payload")
    /\ errors' = IF at \in setup.bad THEN Recorded("validate_subagent_payload") ELSE errors
    /\ pc' = IF Marked(errors', "validate_subagent_payload") THEN "fallback_to_coordinator"
             ELSE IF setup.writes THEN "prepare_task_worktree" ELSE "create_assignment_message"
    /\ UNCHANGED <<setup, at, run, work, skills, output, active, disk, passes>>

\* Directory and branch are named after the task: a directory that is left
\* over raises out of the graph, a branch that is left over is a git error.
\* Git may also fail for any other reason.
PrepareTaskWorktree ==
    /\ At("prepare_task_worktree")
    /\ \/ /\ ~disk.directory /\ ~disk.branch
          /\ disk' = [directory |-> TRUE, branch |-> TRUE]
          /\ active' = TRUE /\ errors' = errors
       \/ /\ errors' = Recorded("prepare_task_worktree")
          /\ UNCHANGED <<disk, active>>
    /\ pc' = IF active' /\ errors'["prepare_task_worktree"] # "open"
             THEN "create_assignment_message" ELSE "release_task_skills"
    /\ UNCHANGED <<setup, at, run, work, skills, output, passes>>

\* FileExistsError leaves the team graph.  The stage node records an error and
\* forgets what its batch did; the version stage forgets this delegation only.
LeftoverDirectoryRaises ==
    /\ At("prepare_task_worktree")
    /\ disk.directory
    /\ IF setup.role = "version"
       THEN /\ work' = [work EXCEPT !.bound = FALSE,
                                    !.errors["dispatch_subagent_task"] = "open"]
            /\ at' = at + 1 /\ pc' = "next_request" /\ run' = run
       ELSE /\ run' = [run EXCEPT !.errors["dispatch_subagent_task"] = "open"]
            /\ work' = run' /\ at' = at /\ pc' = "batch_ended"
    /\ errors' = NoErrors /\ skills' = "available"
    /\ UNCHANGED <<setup, output, active, disk, passes>>

CreateAssignmentMessage ==
    /\ At("create_assignment_message")
    /\ work' = [work EXCEPT !.busy = TRUE]
    /\ pc' = "invoke_subagent_graph"
    /\ UNCHANGED <<setup, at, run, errors, skills, output, active, disk, passes>>

\* select_subagent and the wrapper of the role's graph; an exception inside
\* the graph loses what it did.
InvokeSubagentGraph(role) ==
    /\ At("invoke_subagent_graph")
    /\ setup.role = role
    /\ \/ pc' = "validate_subagent_input" /\ errors' = errors
       \/ pc' = "validate_team_message" /\ errors' = Recorded("invoke_subagent_graph")
    /\ UNCHANGED <<setup, at, run, work, skills, output, active, disk, passes>>

InvokeContentSubagentGraph == InvokeSubagentGraph("content")
InvokeVersionSubagentGraph == InvokeSubagentGraph("version")
InvokeEvidenceSubagentGraph == InvokeSubagentGraph("evidence")
InvokeJudgeSubagentGraph == InvokeSubagentGraph("recommendation_judge")

(***************************************************************************)
(* The graph of the sub-agent; the four of them have the same shape.       *)
(***************************************************************************)
InAgent(role, node) == At(node) /\ setup.role = role

\* The payload was validated before: only an older error makes it invalid.
ValidateInput(role) ==
    /\ InAgent(role, "validate_subagent_input")
    /\ pc' = IF Marked(errors, "validate_subagent_input") THEN "build_result_message"
             ELSE "build_subagent_prompt"
    /\ UNCHANGED <<setup, at, run, work, errors, skills, output, active, disk, passes>>

\* resolve_model_profile, the role's prompt and execute_before_model_hooks.
BuildPrompt(role) ==
    /\ InAgent(role, "build_subagent_prompt")
    /\ errors' \in {errors, Recorded("build_subagent_prompt"),
                    Recorded("execute_before_model_hooks")}
    /\ pc' = IF \E n \in {"build_subagent_prompt", "execute_before_model_hooks"} : Marked(errors', n)
             THEN "build_result_message" ELSE "invoke_structured_llm"
    /\ UNCHANGED <<setup, at, run, work, skills, output, active, disk, passes>>

AfterOutput(o, next) ==
    IF o # NoResult THEN next
    ELSE IF setup.fallback THEN "build_deterministic_fallback" ELSE "build_result_message"

\* The call is audited whether or not the model answers; the hooks after it
\* may reject the answer.
InvokeStructuredLLM(role) ==
    /\ InAgent(role, "invoke_structured_llm")
    /\ \E about \in {0, at} : \/ /\ output' = [by |-> "model", about |-> about]
                                 /\ errors' = errors
                                 /\ work' = [work EXCEPT !.calls = Append(@, "success")]
                              \/ /\ output' = NoResult
                                 /\ errors' = Recorded("execute_after_model_hooks")
                                 /\ work' = [work EXCEPT !.calls = Append(@, "success")]
                              \/ /\ output' = NoResult
                                 /\ errors' = Recorded("invoke_structured_llm")
                                 /\ work' = [work EXCEPT !.calls = Append(@, "failed")]
    /\ pc' = AfterOutput(output', "validate_subagent_output")
    /\ UNCHANGED <<setup, at, run, skills, active, disk, passes>>

\* Schema, references and the role's own rules; what passes is copied
\* (persist_*_artifact).
ValidateOutput(role) ==
    /\ InAgent(role, "validate_subagent_output")
    /\ \/ output' = output /\ errors' = errors
       \/ output' = NoResult /\ errors' = Recorded("validate_subagent_output")
    /\ pc' = AfterOutput(output', "build_result_message")
    /\ UNCHANGED <<setup, at, run, work, skills, active, disk, passes>>

\* Mutation of LastCallFellBack: the task's first call is rewritten.
FirstCallFellBack(calls) == [calls EXCEPT ![1] = "fallback"]

LastCallFellBack(calls) == [calls EXCEPT ![Len(calls)] = "fallback"]

BuildDeterministicFallback(role) ==
    /\ InAgent(role, "build_deterministic_fallback")
    /\ output' = [by |-> "fallback", about |-> at]
    /\ work' = [work EXCEPT !.calls = LastCallFellBack(@)]
    /\ pc' = "build_result_message"
    /\ UNCHANGED <<setup, at, run, errors, skills, active, disk, passes>>

BuildResultMessage(role) ==
    /\ InAgent(role, "build_result_message")
    /\ work' = [work EXCEPT !.messages =
                    Sent(@, IF output = NoResult THEN ErrorMessage ELSE ResultMessage(output))]
    /\ pc' = "validate_team_message"
    /\ UNCHANGED <<setup, at, run, errors, skills, output, active, disk, passes>>

ValidateContentInput == ValidateInput("content")
BuildContentPrompt == BuildPrompt("content")
InvokeContentLLM == InvokeStructuredLLM("content")
ValidateContentOutput == ValidateOutput("content")
BuildContentFallback == BuildDeterministicFallback("content")
BuildContentMessage == BuildResultMessage("content")

ValidateVersionInput == ValidateInput("version")
BuildVersionPrompt == BuildPrompt("version")
InvokeVersionLLM == InvokeStructuredLLM("version")
ValidateVersionOutput == ValidateOutput("version")
BuildVersionFallback == BuildDeterministicFallback("version")
BuildVersionMessage == BuildResultMessage("version")

ValidateEvidenceInput == ValidateInput("evidence")
BuildEvidencePrompt == BuildPrompt("evidence")
InvokeEvidenceLLM == InvokeStructuredLLM("evidence")
ValidateEvidenceOutput == ValidateOutput("evidence")
BuildEvidenceFallback == BuildDeterministicFallback("evidence")
BuildEvidenceMessage == BuildResultMessage("evidence")

ValidateJudgeInput == ValidateInput("recommendation_judge")
BuildJudgePrompt == BuildPrompt("recommendation_judge")
InvokeJudgeLLM == InvokeStructuredLLM("recommendation_judge")
ValidateJudgeOutput == ValidateOutput("recommendation_judge")
BuildJudgeFallback == BuildDeterministicFallback("recommendation_judge")
BuildJudgeMessage == BuildResultMessage("recommendation_judge")

(***************************************************************************)
(* The answer: accepted, or replaced by the coordinator's.                 *)
(***************************************************************************)

\* The latest message of the agent must carry the result of this request.
Backed == output # NoResult /\ LatestIs(work.messages, ResultMessage(output))

\* route_team_message_validation.
ValidateTeamMessage ==
    /\ At("validate_team_message")
    /\ IF Backed THEN UNCHANGED <<errors, output>>
       ELSE errors' = Recorded("validate_team_message") /\ output' = NoResult
    /\ pc' = IF Marked(errors', "validate_team_message") THEN "fallback_to_coordinator"
             ELSE "merge_subagent_artifacts"
    /\ UNCHANGED <<setup, at, run, work, skills, active, disk, passes>>

\* The deterministic result of the role, without any content when the payload
\* is outside the protocol.  The audit of the task's last call is rewritten,
\* whichever request made it; when there was none, one is added.
FallbackToCoordinator ==
    /\ At("fallback_to_coordinator")
    /\ output' = [by |-> "fallback", about |-> IF at \in setup.bad THEN 0 ELSE at]
    /\ work' = [work EXCEPT !.calls = IF @ = <<>> THEN <<"fallback">> ELSE LastCallFellBack(@)]
    /\ pc' = "build_fallback_result_message"
    /\ UNCHANGED <<setup, at, run, errors, skills, active, disk, passes>>

BuildFallbackResultMessage ==
    /\ At("build_fallback_result_message")
    /\ work' = [work EXCEPT !.messages = Sent(@, ResultMessage(output)), !.busy = FALSE]
    /\ pc' = "merge_subagent_artifacts"
    /\ UNCHANGED <<setup, at, run, errors, skills, output, active, disk, passes>>

MergeSubagentArtifacts ==
    /\ At("merge_subagent_artifacts")
    /\ IF Backed
       THEN /\ work' = [work EXCEPT !.busy = FALSE, !.merged[at] = output]
            /\ errors' = errors
       ELSE work' = work /\ errors' = Recorded("merge_subagent_artifacts")
    /\ pc' = "release_task_skills"
    /\ UNCHANGED <<setup, at, run, skills, output, active, disk, passes>>

\* Mutation of ReleaseTaskSkills: the members keep what they were given.
ReleaseRegistryOnly ==
    /\ At("release_task_skills")
    /\ skills' = "available"
    /\ pc' = "close_task_worktree"
    /\ UNCHANGED <<setup, at, run, work, errors, output, active, disk, passes>>

\* Registry and members; all members lose their skills.
ReleaseTaskSkills ==
    /\ At("release_task_skills")
    /\ skills' = "available"
    /\ work' = [work EXCEPT !.bound = FALSE]
    /\ pc' = "close_task_worktree"
    /\ UNCHANGED <<setup, at, run, errors, output, active, disk, passes>>

\* A clean directory is removed, a dirty one is left without an error, and git
\* may fail; the branch stays.
CloseTaskWorktree ==
    /\ At("close_task_worktree")
    /\ active' = FALSE
    /\ \/ ~active /\ UNCHANGED <<disk, errors>>
       \/ active /\ disk' \in {disk, [disk EXCEPT !.directory = FALSE]} /\ errors' = errors
       \/ active /\ errors' = Recorded("close_task_worktree") /\ disk' = disk
    /\ pc' = "request_ended"
    /\ UNCHANGED <<setup, at, run, work, skills, output, passes>>

(***************************************************************************)
(* The batch.                                                              *)
(***************************************************************************)
Returned == [n \in ErrorNodes |-> IF errors[n] = "open" THEN "open" ELSE work.errors[n]]

\* dispatch_stage_subagent_requests and its two siblings: an orchestration
\* failure in what a team graph returns, its older errors included, ends the
\* batch.
EndRequest ==
    /\ At("request_ended")
    /\ setup.role # "version"
    /\ work' = [work EXCEPT !.errors = Returned]
    /\ at' = IF OrchestrationFailed(errors) THEN Requests + 1 ELSE at + 1
    /\ pc' = "next_request"
    /\ UNCHANGED <<setup, run, errors, skills, output, active, disk, passes>>

\* has_valid_version_subagent_summary and apply_subagent_summary: a result is
\* applied when the task's last call says that the model gave it.
Applies == output # NoResult /\ work.calls # <<>> /\ work.calls[Len(work.calls)] = "success"

EndComparison ==
    /\ At("request_ended")
    /\ setup.role = "version"
    /\ work' = [work EXCEPT !.errors = Returned,
                            !.applied = IF Applies THEN @ \cup {<<at, output.by>>} ELSE @]
    /\ at' = at + 1
    /\ pc' = "next_request"
    /\ UNCHANGED <<setup, run, errors, skills, output, active, disk, passes>>

\* The stage node hands the batch's channels to the run.
EndBatch ==
    /\ At("next_request")
    /\ at > Requests
    /\ run' = work
    /\ pc' = "batch_ended"
    /\ UNCHANGED <<setup, at, work, errors, skills, output, active, disk, passes>>

\* Recovery has closed some of the errors and goes back to the stage.
RepeatBatch ==
    /\ At("batch_ended")
    /\ passes > 1
    /\ passes' = passes - 1
    /\ \E n \in ErrorNodes \ HookNodes : run.errors[n] = "open"
    /\ \E closed \in SUBSET {n \in ErrorNodes : run.errors[n] = "open"} :
        /\ closed # {}
        /\ run' = [run EXCEPT !.errors = [n \in ErrorNodes |-> IF n \in closed THEN "closed" ELSE @[n]],
                              !.merged = [d \in Request |-> NoResult], !.applied = {}]
    /\ work' = run'
    /\ at' = 1 /\ pc' = "next_request"
    /\ UNCHANGED <<setup, errors, skills, output, active, disk>>

Init ==
    /\ setup \in [role : Role, fallback : BOOLEAN, bad : SUBSET Request, writes : BOOLEAN]
    /\ pc = "next_request" /\ at = 1
    /\ run = [messages |-> <<>>, calls |-> <<>>, busy |-> FALSE, bound |-> FALSE,
              errors |-> NoErrors, merged |-> [d \in Request |-> NoResult], applied |-> {}]
    /\ work = run
    /\ errors = NoErrors /\ skills = "available" /\ output = NoResult /\ active = FALSE
    /\ disk = [directory |-> FALSE, branch |-> FALSE]
    /\ passes = MaxPasses

AgentStep ==
    \/ ValidateContentInput \/ ValidateVersionInput \/ ValidateEvidenceInput \/ ValidateJudgeInput
    \/ BuildContentPrompt \/ BuildVersionPrompt \/ BuildEvidencePrompt \/ BuildJudgePrompt
    \/ InvokeContentLLM \/ InvokeVersionLLM \/ InvokeEvidenceLLM \/ InvokeJudgeLLM
    \/ ValidateContentOutput \/ ValidateVersionOutput
    \/ ValidateEvidenceOutput \/ ValidateJudgeOutput
    \/ BuildContentFallback \/ BuildVersionFallback \/ BuildEvidenceFallback \/ BuildJudgeFallback
    \/ BuildContentMessage \/ BuildVersionMessage \/ BuildEvidenceMessage \/ BuildJudgeMessage

TeamStep ==
    \/ SelectTaskSkills \/ LoadTaskSkills \/ BindTaskSkills
    \/ ValidateSubagentPayload \/ PrepareTaskWorktree \/ LeftoverDirectoryRaises
    \/ CreateAssignmentMessage
    \/ InvokeContentSubagentGraph \/ InvokeVersionSubagentGraph
    \/ InvokeEvidenceSubagentGraph \/ InvokeJudgeSubagentGraph
    \/ ValidateTeamMessage \/ FallbackToCoordinator \/ BuildFallbackResultMessage
    \/ MergeSubagentArtifacts \/ ReleaseTaskSkills \/ CloseTaskWorktree

BatchStep == BeginRequest \/ EndRequest \/ EndComparison \/ EndBatch \/ RepeatBatch

Next ==
    \/ AgentStep
    \/ TeamStep
    \/ BatchStep
    \/ pc = "batch_ended" /\ UNCHANGED vars

Spec == Init /\ [][Next]_vars

(***************************************************************************)
(* Properties.                                                             *)
(***************************************************************************)
TeamDispatchTypeOK ==
    /\ at \in 1..(Requests + 1)
    /\ \A channels \in {run, work} :
        /\ channels.errors \in [ErrorNodes -> ErrorState]
        /\ \A i \in DOMAIN channels.messages : channels.messages[i] \in Message
        /\ IsInjective(channels.messages)
        /\ \A i \in DOMAIN channels.calls : channels.calls[i] \in {"success", "failed", "fallback"}
        /\ channels.merged \in [Request -> Result \cup {NoResult}]
    /\ errors \in [ErrorNodes -> ErrorState]
    /\ output \in Result \cup {NoResult}
    /\ skills \in {"available", "selected", "loaded", "bound"}

\* Whatever failed on the way, a delegation that is over holds nothing: the
\* team is idle, its members have no skills, no skill is loaded, and no
\* worktree is active.
NothingHeldBetweenRequests ==
    /\ pc \in {"next_request", "batch_ended"} =>
        ~work.busy /\ ~work.bound /\ skills = "available" /\ ~active
    /\ ~run.busy /\ ~run.bound

\* A batch that leaves no open error of the team graphs behind has a merged
\* result for every request.
AnsweredUnlessStopped ==
    pc = "batch_ended"
        /\ (\A n \in TeamNodes \cup {"dispatch_subagent_task"} : run.errors[n] # "open")
    => \A d \in Request : run.merged[d] # NoResult

\* A deterministic fallback never passes for the model's summary of a
\* comparison, although the audit is that of the task, not of the request.
OnlyAnswersApplied == \A a \in work.applied : a[2] = "model"
=============================================================================
