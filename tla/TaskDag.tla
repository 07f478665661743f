------------------------------ MODULE TaskDag ------------------------------
(***************************************************************************)
(* The fixed task DAG of a governance run: the six tasks, what each one    *)
(* depends on, how its status may change and what the user's todo list     *)
(* shows of it.  Pure operators over a task table tasks \in [Tasks ->      *)
(* TaskRow]; the modules that run the graph own the table.                 *)
(* src/app/services/task_system.py, src/app/utils/task_orchestration.py,   *)
(* src/app/utils/task_tracking.py.                                         *)
(***************************************************************************)
EXTENDS Naturals, Sequences

\* TASK_EXECUTION_ORDER; every task depends on the one before it.
ExecutionOrder == <<"inventory", "version_analysis", "evidence",
                    "recommendation", "human_review", "report">>

Tasks == {ExecutionOrder[i] : i \in 1..6}

PositionOf(t) == CHOOSE i \in 1..6 : ExecutionOrder[i] = t

\* TASK_DAG_TEMPLATE.
Dependencies(t) == {d \in Tasks : PositionOf(d) = PositionOf(t) - 1}

\* TASK_ROLE_BY_TYPE.
RoleOf(t) ==
    CASE t = "inventory"        -> "content"
      [] t = "version_analysis" -> "version"
      [] t = "evidence"         -> "evidence"
      [] t = "recommendation"   -> "recommendation_judge"
      [] OTHER                  -> "coordinator"

TerminalTask == {"completed", "partial", "failed", "skipped"}

TaskStatus == {"pending", "running", "retrying"} \cup TerminalTask

\* error: whether the row's error holds a message.
TaskRow == [status : TaskStatus, attempts : Nat, error : BOOLEAN]

NewTasks == [t \in Tasks |-> [status |-> "pending", attempts |-> 0, error |-> FALSE]]

\* ALLOWED_TASK_TRANSITIONS.
AllowedFrom(s) ==
    CASE s = "pending"  -> {"running", "failed", "skipped"}
      [] s = "running"  -> TaskStatus \ {"pending"}
      [] s = "retrying" -> TaskStatus \ {"pending", "completed"}
      [] OTHER          -> {s}

\* A task the next one may build on: done, or skipped for no bad reason.
Usable(row) ==
    \/ row.status \in {"completed", "partial"}
    \/ row.status = "skipped" /\ ~row.error

DependenciesReady(tasks, t) ==
    \A d \in Dependencies(t) :
        IF t = "report" THEN tasks[d].status \in TerminalTask
                        ELSE Usable(tasks[d])

\* Whether update_task_status accepts the request.
Accepts(tasks, t, status, error) ==
    /\ status \in AllowedFrom(tasks[t].status)
    /\ status \in {"retrying", "partial", "failed"} => error
    /\ status \in {"running", "completed"} => ~error
    /\ status \in {"running", "completed", "partial"} => DependenciesReady(tasks, t)

\* The table after an accepted request.
Written(tasks, t, status, error) ==
    [tasks EXCEPT ![t] =
        [status   |-> status,
         attempts |-> @.attempts + (IF /\ status = "running"
                                       /\ @.status \in {"pending", "retrying"}
                                    THEN 1 ELSE 0),
         error    |-> error]]

(***************************************************************************)
(* Requests to the team graph.  A ledger is the table, the tasks with an   *)
(* unresolved orchestration error (open), the requests refused in this     *)
(* node (refused), whether the team graph ran at all (asked) and whether   *)
(* the last request must stop the caller (has_orchestration_failure: the   *)
(* graph hands back the task's open errors with the new one).              *)
(***************************************************************************)
Ledger(tasks, open) ==
    [tasks |-> tasks, open |-> open, refused |-> <<>>, asked |-> FALSE, stop |-> FALSE]

Asked(l, t, status, error) ==
    IF Accepts(l.tasks, t, status, error)
    THEN [l EXCEPT !.tasks = Written(l.tasks, t, status, error),
                   !.asked = TRUE, !.stop = t \in l.open]
    ELSE [l EXCEPT !.refused = Append(@, <<t, status>>), !.asked = TRUE, !.stop = TRUE]

\* apply_task_status: what is already so, or final, is left alone, and a
\* pending task passes through running on its way to an end.
Apply(l, t, status, error) ==
    IF l.tasks[t].status \in TerminalTask \cup {status}
    THEN [l EXCEPT !.stop = FALSE]
    ELSE IF status \in {"completed", "partial"} /\ l.tasks[t].status = "pending"
    THEN LET started == Asked(l, t, "running", FALSE)
         IN  IF started.stop THEN started ELSE Asked(started, t, status, error)
    ELSE Asked(l, t, status, error)

\* _find_upstream_blocker: some task before the report ended badly.
Blocked(tasks) ==
    \E t \in Tasks \ {"report"} :
        \/ tasks[t].status = "failed"
        \/ tasks[t].status = "skipped" /\ tasks[t].error

\* settle_unfinished_tasks_before_report: what is unfinished is skipped, with a
\* reason when something upstream failed; the first refusal ends it.
Settle(l) ==
    LET blocked == Blocked(l.tasks)
        upTo[i \in 0..5] ==
            IF i = 0 THEN [l EXCEPT !.stop = FALSE]
            ELSE IF upTo[i-1].stop THEN upTo[i-1]
            ELSE Apply(upTo[i-1], ExecutionOrder[i], "skipped", blocked)
    IN  upTo[5]

\* Mutation of Finalize: the report task is started and never completed.
FinalizeStarted(l) ==
    LET settled == Settle(l)
    IN  IF settled.stop THEN settled ELSE Apply(settled, "report", "running", FALSE)

\* finalize_run_tasks.
Finalize(l) ==
    LET settled == Settle(l)
        running == Apply(settled, "report", "running", FALSE)
    IN  IF settled.stop THEN settled
        ELSE IF running.stop THEN running
        ELSE Apply(running, "report", "completed", FALSE)

\* TODO_TEMPLATE.
TodoOf(t) ==
    CASE t = "inventory"    -> "prepare_file_facts"
      [] t = "human_review" -> "complete_human_review"
      [] t = "report"       -> "produce_report"
      [] OTHER              -> "build_governance_conclusion"

Todos == {TodoOf(t) : t \in Tasks}

\* _derive_todo_status over the tasks of one todo.
TodoStatus(rows) ==
    IF \E r \in rows : r.status = "failed" \/ (r.status = "skipped" /\ r.error)
    THEN "blocked"
    ELSE IF \A r \in rows : r.status \in {"completed", "partial", "skipped"}
    THEN "completed"
    ELSE IF \E r \in rows : r.status # "pending" THEN "in_progress" ELSE "pending"

TodosFrom(tasks) ==
    [d \in Todos |-> TodoStatus({tasks[t] : t \in {u \in Tasks : TodoOf(u) = d}})]
=============================================================================
