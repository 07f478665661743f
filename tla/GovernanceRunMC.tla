-------------------------- MODULE GovernanceRunMC --------------------------
(***************************************************************************)
(* An instance of GovernanceRun for TLC: the default policy, and one       *)
(* failure for each way the graph treats them.                             *)
(***************************************************************************)
EXTENDS GovernanceRun

F(at, node, stage, category, task, file, raised) ==
    [at |-> at, node |-> node, stage |-> stage, category |-> category, message |-> category,
     task |-> task, file |-> file, raised |-> raised]

FirstHook  == F("execute_before_run_hooks", "first_hook", "before_run", "hook",
                NoTask, FALSE, FALSE)
SecondHook == F("execute_before_run_hooks", "second_hook", "before_run", "hook",
                NoTask, FALSE, FALSE)
LastHook   == F("execute_after_run_hooks", "execute_after_run_hooks", "after_run_hooks", "hook",
                NoTask, FALSE, FALSE)
BadRequest == F("validate_request", "validate_request", "request_validation", "validation",
                NoTask, FALSE, FALSE)
NoSkills   == F("load_skill_registry", "load_skill_registry", "skills", "skill",
                NoTask, FALSE, FALSE)
BadFile    == F("run_inventory_subgraph", "parse_docx", "inventory", "parse",
                "inventory", TRUE, FALSE)
Unreadable == F("run_inventory_subgraph", "discover_input_files", "inventory",
                "filesystem", "inventory", FALSE, FALSE)
Timeout    == F("run_evidence_subgraph", "run_evidence_subgraph", "evidence", "timeout",
                "evidence", FALSE, TRUE)
NoModel    == F("dispatch_content_subagent_task", "invoke_content_model", "content_subagent", "llm",
                "inventory", FALSE, FALSE)
Worktree   == F("dispatch_evidence_subagent_task", "prepare_task_worktree", "team_orchestration",
                "worktree", "evidence", FALSE, FALSE)
Undecided  == F("run_recommendation_subgraph", "run_recommendation_subgraph", "recommendation",
                "protocol", "recommendation", FALSE, TRUE)
Forgetful  == F("persist_long_term_memory", "persist_long_term_memory", "memory_persist", "memory",
                NoTask, FALSE, FALSE)

\* Two messages of one node, where the policy allows two retries.
BadReply      == [NoModel EXCEPT !.message = "bad reply"]
TwoReplies    == {NoModel, BadReply}
TwoRetries    == [DefaultPolicies EXCEPT !["llm"].max = 2]

\* Two messages of the scan, and a hook that fails at the end.
Gone         == [Unreadable EXCEPT !.message = "gone"]
LockedInputs == {Unreadable, Gone, LastHook}

AllFailures == {FirstHook, SecondHook, LastHook, BadRequest, NoSkills, BadFile, Unreadable,
                Gone, Timeout, NoModel, BadReply, Worktree, Undecided, Forgetful}
LateFailures == {Worktree, Forgetful}
=============================================================================
