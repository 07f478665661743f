--------------------------- MODULE RecoveryPolicy ---------------------------
(***************************************************************************)
(* What is done about an error, by its category: how often it is retried   *)
(* by itself, which fixed degradation replaces the result, and whether a   *)
(* human is asked.  Pure operators; ErrorRecovery owns the errors.         *)
(* src/app/services/recovery_policy.py.                                    *)
(***************************************************************************)
EXTENDS Naturals, Sequences

CONSTANT Policies    \* the run's policy: Category -> Rule

NoFallback == "none"

\* RECOVERY_ERROR_CATEGORIES.
Category == {"filesystem", "parse", "comparison", "evidence", "llm", "validation",
             "protocol", "prompt", "hook", "memory", "skill", "context", "database",
             "checkpoint", "worktree", "mcp", "timeout", "unknown"}

\* RECOVERY_FALLBACK_ACTIONS.
Fallback == {"skip_file", "coordinator", "no_memory", "default_skill",
             "keep_context", "partial_result"}

\* A normalised rule: retryable exactly when max_retries is not zero.  The
\* backoff only fills a field nobody reads and is left out.
Rule == [max : Nat, fallback : Fallback \cup {NoFallback}, human : BOOLEAN]

ASSUME PoliciesAssumption == Policies \in [Category -> Rule]

\* DEFAULT_RECOVERY_POLICY and DEFAULT_RECOVERY_CATEGORY_OVERRIDES.
DefaultMax(c) ==
    CASE c \in {"database", "timeout"} -> 2
      [] c \in {"filesystem", "evidence", "llm", "memory", "skill", "checkpoint"} -> 1
      [] OTHER -> 0

DefaultFallback(c) ==
    CASE c = "parse"                               -> "skip_file"
      [] c \in {"comparison", "evidence", "mcp"}   -> "partial_result"
      [] c \in {"llm", "protocol"}                 -> "coordinator"
      [] c = "memory"                              -> "no_memory"
      [] c = "skill"                               -> "default_skill"
      [] c = "context"                             -> "keep_context"
      [] OTHER                                     -> NoFallback

DefaultPolicies ==
    [c \in Category |->
        [max |-> DefaultMax(c), fallback |-> DefaultFallback(c),
         human |-> c \notin {"parse", "evidence", "llm", "memory", "skill", "context", "mcp"}]]

\* recommend_recovery_action, for an enabled policy and an unresolved error.
Recommend(category, retries) ==
    LET rule == Policies[category]
    IN  IF retries < rule.max THEN "retry"
        ELSE IF rule.fallback # NoFallback THEN "fallback"
        ELSE IF rule.human THEN "wait_human" ELSE "abort"

(***************************************************************************)
(* Where a run goes on after an error.                                     *)
(***************************************************************************)

\* RECOVERY_NODE_TRANSITIONS: the failed node, and what follows it.
MainLine == <<"execute_before_run_hooks", "validate_request", "load_system_prompt",
    "recall_long_term_memory", "load_skill_registry", "plan_run_tasks",
    "run_inventory_subgraph", "sync_inventory_task_status",
    "run_context_compact_after_inventory", "dispatch_content_subagent_task",
    "run_version_analysis_subgraph", "sync_version_task_status",
    "run_evidence_subgraph", "sync_evidence_task_status",
    "dispatch_evidence_subagent_task", "run_context_compact_after_evidence",
    "run_recommendation_subgraph", "dispatch_recommendation_judge_task",
    "sync_recommendation_task_status", "generate_governance_report">>

ClosingLine == <<"validate_report_result", "persist_long_term_memory",
    "finalize_run_tasks", "execute_after_run_hooks", "finalize_run">>

NextOn(line) == [n \in {line[i] : i \in 1..(Len(line) - 1)} |->
                    line[1 + CHOOSE i \in 1..Len(line) : line[i] = n]]

HumanLine == <<"sync_human_review_task_status", "generate_governance_report">>

RetryNodes == DOMAIN NextOn(MainLine) \cup DOMAIN NextOn(ClosingLine) \cup DOMAIN NextOn(HumanLine)

After(n) ==
    CASE n \in DOMAIN NextOn(MainLine)    -> NextOn(MainLine)[n]
      [] n \in DOMAIN NextOn(ClosingLine) -> NextOn(ClosingLine)[n]
      [] OTHER                            -> NextOn(HumanLine)[n]

\* RECOVERY_STAGE_NODES.
StageNode ==
    [before_run |-> "execute_before_run_hooks", before_run_hooks |-> "execute_before_run_hooks",
     request_validation |-> "validate_request", system_prompt |-> "load_system_prompt",
     skills |-> "load_skill_registry", memory_recall |-> "recall_long_term_memory",
     memory_persist |-> "persist_long_term_memory", team_orchestration |-> "plan_run_tasks",
     inventory |-> "run_inventory_subgraph",
     content_subagent |-> "dispatch_content_subagent_task",
     context_compact_after_inventory |-> "run_context_compact_after_inventory",
     version_analysis |-> "run_version_analysis_subgraph",
     version_subagent |-> "run_version_analysis_subgraph",
     evidence |-> "run_evidence_subgraph",
     evidence_subagent |-> "dispatch_evidence_subagent_task",
     context_compact_after_evidence |-> "run_context_compact_after_evidence",
     recommendation |-> "run_recommendation_subgraph",
     recommendation_judge_subagent |-> "dispatch_recommendation_judge_task",
     human_review |-> "sync_human_review_task_status",
     after_run |-> "execute_after_run_hooks", after_run_hooks |-> "execute_after_run_hooks"]

\* RECOVERY_TASK_NODES.
TaskNode ==
    [inventory |-> "run_inventory_subgraph", version_analysis |-> "run_version_analysis_subgraph",
     evidence |-> "run_evidence_subgraph", recommendation |-> "run_recommendation_subgraph",
     human_review |-> "sync_human_review_task_status", report |-> "validate_report_result"]

\* RECOVERY_ORCHESTRATION_TASK_NODES: where a delegation is taken up again.
DispatchNode ==
    [inventory |-> "dispatch_content_subagent_task",
     version_analysis |-> "run_version_analysis_subgraph",
     evidence |-> "dispatch_evidence_subagent_task",
     recommendation |-> "dispatch_recommendation_judge_task"]

\* RECOVERY_ORCHESTRATION_DISPATCH_NODES: the delegation steps of the team graph.
DelegationNodes == {"select_task_skills", "load_task_skills", "bind_task_skills",
    "validate_subagent_payload", "create_assignment_message", "invoke_subagent_graph",
    "validate_team_message", "fallback_to_coordinator", "build_fallback_result_message",
    "merge_subagent_artifacts", "append_task_output_refs", "release_task_skills"}

NoNode == "none"

\* resolve_recovery_targets: the node a failure is retried at.  task is the
\* failure's task when the DAG holds it.
RetryNode(node, stage, task) ==
    CASE node \in RetryNodes -> node
      [] node \notin RetryNodes /\ node \in DelegationNodes /\ task \in DOMAIN DispatchNode
            -> DispatchNode[task]
      [] OTHER ->
            IF stage # "team_orchestration" /\ stage \in DOMAIN StageNode THEN StageNode[stage]
            ELSE IF task \in DOMAIN TaskNode THEN TaskNode[task]
            ELSE IF stage \in DOMAIN StageNode THEN StageNode[stage] ELSE NoNode
=============================================================================
