--------------------------- MODULE ErrorRecovery ---------------------------
(***************************************************************************)
(* The error recovery graph of a governance run: one unresolved error is   *)
(* selected, retried, degraded, handed to a human or given up, and the run *)
(* goes on at the node that follows.  One action per node of               *)
(* src/app/graphs/error_recovery.py.                                       *)
(*                                                                         *)
(* The run has no ready application database, as in the foreground: the    *)
(* recovery writes to the database are skipped (_database_is_ready) and no *)
(* stored node result can be reused.  NodeExecution models a run that has  *)
(* one.                                                                    *)
(***************************************************************************)
EXTENDS TaskDag, RecoveryPolicy

CONSTANTS
    Failures,       \* what can go wrong at the nodes of this run
    HumanRetries    \* bound: retries that humans ask for in one run

VARIABLES
    pc,        \* the node about to run, "ended" or "raised"
    status,    \* run["status"]
    tasks,     \* the task table; <<>> until it is planned
    errors,    \* the error channel: one entry per failure, first occurrence first
    recovery,  \* the recovery channel
    degraded,  \* the failures a degradation was recorded for
    retries    \* how many retries humans may still ask for (a bound of the model)

recoveryVars == <<pc, status, tasks, errors, recovery, degraded, retries>>

NoTask == "lifecycle"
NoFailure == [at |-> NoNode]

\* A failure: the top node where it shows, the node, stage, category, task,
\* file and message of its error record (its identity), and whether it leaves
\* the top node as an exception.
Failure == [at : STRING, node : STRING, stage : STRING, category : Category, message : STRING,
            task : Tasks \cup {NoTask}, file : BOOLEAN, raised : BOOLEAN]

\* An exception that leaves a top node is recorded under that node's name.
ASSUME FailuresAssumption ==
    /\ Failures \subseteq Failure
    /\ \A f \in Failures : f.raised => f.node = f.at
    /\ HumanRetries \in Nat

\* The error of a task update to s that the team graph refuses.
Refusal(t, s) ==
    [at |-> NoNode, node |-> "update_task_status", stage |-> "team_orchestration",
     category |-> "validation", message |-> s, task |-> t, file |-> FALSE, raised |-> FALSE]

Settled == {"recovered", "fallback_applied"}

ErrorStatus == {"pending", "retrying", "waiting_human", "failed"} \cup Settled

HumanAction == {"retry", "provide_path", "skip_file", "abort"}
NoAnswer == "unanswered"

\* create_recovery_state.
NewRecovery == [current |-> NoFailure, pending |-> <<>>, action |-> "none", retryAt |-> NoNode,
                resumeAfter |-> NoNode, fallback |-> NoFallback, allowed |-> {},
                selected |-> NoAnswer]

\* is_error_unresolved.
Unresolved(e) == e.fatal /\ e.status \notin Settled

Positions(errs, f) == {i \in DOMAIN errs : errs[i].failure = f}

EntryOf(errs, f) == errs[CHOOSE i \in Positions(errs, f) : TRUE]

\* Mutation of Merged: an entry that is there already is appended again.
MergedAppending(errs, e) == Append(errs, e)

\* The reducer of the error channel: an entry is replaced where it stands.
Merged(errs, e) ==
    IF Positions(errs, e.failure) = {} THEN Append(errs, e)
    ELSE [i \in DOMAIN errs |-> IF errs[i].failure = e.failure THEN e ELSE errs[i]]

\* auto is a history field: the automatic retries since the error was last settled.
NewEntry(errs, f, count) ==
    [failure |-> f, status |-> "pending", fatal |-> TRUE, retries |-> count,
     max |-> Policies[f.category].max, fallback |-> Policies[f.category].fallback,
     auto |-> IF Positions(errs, f) # {} /\ EntryOf(errs, f).status \notin Settled
              THEN EntryOf(errs, f).auto ELSE 0]

\* Mutation of Recorded: every record of an error starts at no retries.
RecordedAfresh(errs, f) == Merged(errs, NewEntry(errs, f, 0))

\* create_node_error: the count of the last open error of the same node goes on.
Recorded(errs, f) ==
    LET prior == {i \in DOMAIN errs : /\ errs[i].failure.node = f.node
                                      /\ errs[i].failure.task = f.task
                                      /\ errs[i].status \notin Settled}
        count == IF prior = {} THEN 0
                 ELSE errs[CHOOSE i \in prior : \A j \in prior : j <= i].retries
    IN  Merged(errs, NewEntry(errs, f, count))

\* The failures fs recorded one after the other.
RecordedAll(errs, fs) ==
    LET upTo[i \in 0..Len(fs)] == IF i = 0 THEN errs ELSE Recorded(upTo[i-1], fs[i])
    IN  upTo[Len(fs)]

\* capture_subgraph_exception: the record of the boundary starts at no retries.
Captured(errs, f) == Merged(errs, NewEntry(errs, f, 0))

AddPending(p, f) == IF \E i \in DOMAIN p : p[i] = f THEN p ELSE Append(p, f)
Without(p, fs) ==
    LET kept[i \in 0..Len(p)] ==
            IF i = 0 THEN <<>>
            ELSE IF p[i] \in fs THEN kept[i-1] ELSE Append(kept[i-1], p[i])
    IN  kept[Len(p)]

\* The failed task as a recovery node writes it, whatever its status was.
TaskOverwritten(f, newStatus, again) ==
    IF f.task \in DOMAIN tasks
    THEN [tasks EXCEPT ![f.task] = [status |-> newStatus, error |-> TRUE,
                                    attempts |-> @.attempts + (IF again THEN 1 ELSE 0)]]
    ELSE tasks

Current == EntryOf(errors, recovery.current)

(***************************************************************************)
(* The nodes.                                                              *)
(***************************************************************************)

\* The error the recovery is about: the current one, then the latest pending
\* ones, then the last open one of the channel.
Selected ==
    LET open(f)  == f # NoFailure /\ Positions(errors, f) # {}
                    /\ EntryOf(errors, f).status \notin Settled
        waiting  == {i \in DOMAIN recovery.pending : open(recovery.pending[i])}
        any      == {i \in DOMAIN errors : errors[i].status \notin Settled}
        last(S)  == CHOOSE i \in S : \A j \in S : j <= i
    IN  IF open(recovery.current) THEN recovery.current
        ELSE IF waiting # {} THEN recovery.pending[last(waiting)]
        ELSE IF any # {} THEN errors[last(any)].failure ELSE NoFailure

\* apply_recovery_policy_to_error, and a failed error is opened again.
Reopened(e) ==
    [e EXCEPT !.max = Policies[e.failure.category].max,
              !.fallback = Policies[e.failure.category].fallback,
              !.status = IF @ = "failed" THEN "pending" ELSE @]

\* Without one the node raises LookupError; RecoveryHasWork of GovernanceRun
\* says that no router brings the run here then.
SelectRecoveryError ==
    LET f      == Selected
        known  == IF f.task \in DOMAIN tasks THEN f.task ELSE NoTask
        target == RetryNode(f.node, f.stage, known)
        e      == Reopened(EntryOf(errors, f))
    IN  /\ pc = "select_recovery_error"
        /\ f # NoFailure
        /\ errors' = Merged(errors, IF target = NoNode
                                    THEN [e EXCEPT !.status = "failed", !.fatal = TRUE] ELSE e)
        /\ recovery' = [recovery EXCEPT
                            !.current = f, !.pending = AddPending(@, f),
                            !.action = IF target = NoNode THEN "abort" ELSE "none",
                            !.retryAt = target,
                            !.resumeAfter = IF target = NoNode THEN NoNode ELSE After(target)]
        /\ status' = "recovering"
        /\ pc' = IF target = NoNode THEN "mark_recovery_aborted" ELSE "decide_recovery_action"
        /\ UNCHANGED <<tasks, degraded, retries>>

DecideRecoveryAction ==
    LET action == Recommend(Current.failure.category, Current.retries)
    IN  /\ pc = "decide_recovery_action"
        /\ recovery' = [recovery EXCEPT !.action = action, !.fallback = Current.fallback]
        /\ pc' = CASE action = "retry"      -> "schedule_recovery_retry"
                   [] action = "fallback"   -> "apply_recovery_fallback"
                   [] action = "wait_human" -> "prepare_recovery_human_input"
                   [] OTHER                 -> "mark_recovery_aborted"
        /\ UNCHANGED <<status, tasks, errors, degraded, retries>>

\* Finalisation follows every outcome: the human's request is closed, the
\* answer stays.
Finalized(r) == [r EXCEPT !.allowed = {}]

\* resume_failed_stage and resume_after_failed_stage.
ResumeNode(r) ==
    CASE r.action = "retry" -> r.retryAt
      [] r.action \in {"skip_file", "fallback", "continue_partial"} -> r.resumeAfter
      [] OTHER -> IF r.retryAt = "execute_after_run_hooks"
                  THEN "generate_lifecycle_failure_report" ELSE "generate_failure_report"

FinishRecovery(r) ==
    /\ recovery' = Finalized(r)
    /\ pc' = ResumeNode(r)
    /\ status' = IF r.action = "abort" THEN "recovering" ELSE "running"

\* human_retry: the last answer of a human, even if it was about another error.
HumanRetry == recovery.selected \in {"retry", "provide_path"}

ScheduleRecoveryRetry ==
    LET f == recovery.current
        n == Current.retries + 1
    IN  /\ pc = "schedule_recovery_retry"
        /\ n <= Current.max \/ HumanRetry
        /\ errors' = Merged(errors, [Current EXCEPT !.status = "retrying", !.fatal = FALSE,
                                                    !.retries = n,
                                                    !.max = IF n > @ THEN n ELSE @,
                                                    !.auto = IF recovery.action = "wait_human" THEN 0
                                                             ELSE @ + 1])
        /\ tasks' = TaskOverwritten(f, "running", TRUE)
        /\ FinishRecovery([recovery EXCEPT !.action = "retry"])
        /\ UNCHANGED <<degraded, retries>>

\* Mutation of Degraded: the error stays open.
DegradedOpen(e, fallback) == [e EXCEPT !.fallback = fallback]

\* The entry of an error that a degradation settles.
Degraded(e, fallback) ==
    [e EXCEPT !.status = "fallback_applied", !.fatal = FALSE, !.fallback = fallback]

\* The fixed degradation closes every open error of the task that has it.
ApplyRecoveryFallback ==
    LET f        == recovery.current
        fallback == IF recovery.selected = "skip_file" THEN "skip_file" ELSE recovery.fallback
        cohort   == {f} \cup {e.failure : e \in {errors[i] : i \in {j \in DOMAIN errors :
                        /\ errors[j].failure.task = f.task
                        /\ errors[j].fallback = fallback
                        /\ errors[j].status \notin Settled}}}
        action   == CASE fallback = "skip_file"      -> "skip_file"
                      [] fallback = "partial_result" -> "continue_partial"
                      [] OTHER                       -> "fallback"
    IN  /\ pc = "apply_recovery_fallback"
        /\ errors' = [i \in DOMAIN errors |->
                        IF errors[i].failure \in cohort
                        THEN Degraded(errors[i], fallback) ELSE errors[i]]
        /\ degraded' = degraded \cup cohort
        /\ tasks' = TaskOverwritten(f, "partial", FALSE)
        /\ FinishRecovery([recovery EXCEPT !.fallback = fallback, !.action = action,
                                           !.pending = Without(@, cohort)])
        /\ UNCHANGED retries

\* The answers offered for an error; the node that asks is entered at once.
AllowedAnswers(e) ==
    {"abort"} \cup (IF e.failure.file THEN {"skip_file"} ELSE {})
              \cup (IF e.failure.category \in {"filesystem", "validation"}
                    THEN {"provide_path"} ELSE {})
              \cup (IF Policies[e.failure.category].max > 0 THEN {"retry"} ELSE {})

PrepareRecoveryHumanInput ==
    /\ pc = "prepare_recovery_human_input"
    /\ errors' = Merged(errors, [Current EXCEPT !.status = "waiting_human", !.fatal = FALSE])
    /\ recovery' = [recovery EXCEPT !.action = "wait_human",
                                    !.allowed = AllowedAnswers(Current), !.selected = NoAnswer]
    /\ status' = "waiting_human"
    /\ pc' = "request_recovery_human_input"
    /\ UNCHANGED <<tasks, degraded, retries>>

\* request_recovery_human_input and apply_recovery_human_input: the run is
\* parked until an allowed answer comes.
AnswerRecovery(answer) ==
    /\ pc = "request_recovery_human_input"
    /\ answer \in recovery.allowed
    /\ answer \in {"retry", "provide_path"} => retries > 0
    /\ retries' = IF answer \in {"retry", "provide_path"} THEN retries - 1 ELSE retries
    /\ recovery' = [recovery EXCEPT !.selected = answer,
                                    !.fallback = IF answer = "skip_file" THEN "skip_file" ELSE @]
    /\ status' = "recovering"
    /\ pc' = CASE answer \in {"retry", "provide_path"} -> "schedule_recovery_retry"
               [] answer = "skip_file"                 -> "apply_recovery_fallback"
               [] OTHER                                -> "mark_recovery_aborted"
    /\ UNCHANGED <<tasks, errors, degraded>>

MarkRecoveryAborted ==
    LET f == recovery.current
    IN  /\ pc = "mark_recovery_aborted"
        /\ errors' = Merged(errors, [Current EXCEPT !.status = "failed", !.fatal = TRUE])
        /\ tasks' = TaskOverwritten(f, "failed", FALSE)
        /\ FinishRecovery([recovery EXCEPT !.action = "abort", !.pending = Without(@, {f})])
        /\ UNCHANGED <<degraded, retries>>

RecoveryNext ==
    \/ SelectRecoveryError
    \/ DecideRecoveryAction
    \/ ScheduleRecoveryRetry
    \/ ApplyRecoveryFallback
    \/ PrepareRecoveryHumanInput
    \/ \E answer \in HumanAction : AnswerRecovery(answer)
    \/ MarkRecoveryAborted
=============================================================================
