--------------------------- MODULE NodeExecution ---------------------------
(***************************************************************************)
(* One wrapped node of a governance run that has an application database:  *)
(* execute_recoverable_subgraph around a business subgraph, the record of  *)
(* its execution in the run's state and its row in node_execution_records, *)
(* the stored result, the capture of what it raises, and the recovery that *)
(* retries it, reuses its result, goes on without one, asks a human or     *)
(* gives up.  Every database transaction is a step, and so is the end of a *)
(* graph node, which is when the checkpointer keeps its channels.  The     *)
(* process may die before any of them; the requeued job then starts the    *)
(* run again on the same thread, or resumes it from its checkpoint when a  *)
(* human has answered.  src/app/services/recovery_execution.py,            *)
(* src/app/nodes/error_recovery.py, src/app/storage/repositories.py,       *)
(* src/app/runtime/worker.py.                                              *)
(***************************************************************************)
EXTENDS Naturals

CONSTANTS
    Policies,       \* the rules a recovery policy may have for a category
    MaxFailures,    \* bound: executions that fail
    MaxRestarts,    \* bound: crashes and requeues
    HumanRetries    \* bound: retries that humans ask for

\* The error records of the node: one raised by the subgraph, one recorded
\* inside it, and the ValueError of a database write that is refused.
Kind == {"raised", "inside", "refused"}

\* The kinds whose error carries the key of the wrapped execution.
AtBoundary == {"raised", "refused"}

\* RECOVERY_FALLBACK_ACTIONS, by the two names that anything depends on.
Fallback == {"skip_file", "partial_result"}

ASSUME NodeAssumption ==
    /\ Policies \subseteq [retries : Nat, fallback : Fallback \cup {"none"}, human : BOOLEAN]
    /\ {MaxFailures, MaxRestarts, HumanRetries} \subseteq Nat

VARIABLES
    policy,      \* kind -> the rule for the category that the error has
    job,         \* the run is running, waiting for a human, or has raised
    pc,          \* the graph node in progress, and the step of a business node
    written,     \* the transactions that the graph node has committed
    path,        \* the input directory
    data,        \* what results have put into the run's state
    record,      \* the node's entry in state["node_executions"]
    errors,      \* kind -> the error in the run's state
    recovery,    \* current error, action, and the human's last choice
    resume,      \* the job's accepted answer; whether a question may take it
    saved,       \* the lists, as of the last checkpoint of the top graph
    row,         \* the row in node_execution_records
    errorRows,   \* kind -> its row in error_recovery_records
    artifact,    \* the stored node result: one file, named by the key
    invoked,     \* history: the inputs the subgraph has run on to the end
    budget       \* failures, restarts and human retries still to come

channels == <<path, data, record, errors, recovery>>
database == <<row, errorRows>>
files == <<artifact, invoked>>
vars == <<policy, job, pc, written, channels, resume, saved, database, files, budget>>

None == [status |-> "none"]

\* A stored result: the input it was computed from, whether it holds data, and
\* the error recorded on the way.
NoResult == [input |-> <<>>, full |-> FALSE, error |-> None]

\* What the subgraph works on: the request, and the data the run holds, which
\* the node's own results and those of later nodes belong to.
Reads == <<path, data>>

\* Mutation of Input: the digest does not cover the request.
InputWithoutRequest == <<"request", data>>

\* build_node_execution_identity: the key is run, task and node; the digest is
\* of what the subgraph works on.
Input == Reads

Reusable == {"succeeded", "reused"}

\* NODE_EXECUTION_STATUS_TRANSITIONS.
RowFollows(s) ==
    CASE s = "running"   -> {"running", "succeeded", "failed"}
      [] s = "succeeded" -> Reusable
      [] OTHER           -> {s}

\* Mutation of RowTakes: a stored success does not refuse another attempt.
RowTakesNewAttempt(e) ==
    row # None =>
        /\ e.input = row.input
        /\ e.attempts >= row.attempts
        /\ e.attempts = row.attempts => e.status \in RowFollows(row.status)

\* NodeExecutionRecordRepository.upsert_state raises for anything else.
RowTakes(e) ==
    row # None =>
        /\ e.input = row.input
        /\ e.attempts >= row.attempts
        /\ e.attempts = row.attempts => e.status \in RowFollows(row.status)
        /\ row.status \in Reusable => e.attempts = row.attempts /\ e.result = row.result

\* ERROR_RECOVERY_STATUS_TRANSITIONS.
ErrorFollows(s) ==
    CASE s \in {"pending", "retrying"} ->
            {"pending", "retrying", "waiting_human", "fallback_applied", "recovered", "failed"}
      [] s = "waiting_human" ->
            {"waiting_human", "retrying", "fallback_applied", "recovered", "failed"}
      [] s = "fallback_applied" -> {"fallback_applied", "recovered", "failed"}
      [] OTHER -> {s}

\* ErrorRecoveryRecordRepository.upsert_state.
ErrorRowTakes(k, e) ==
    /\ e.retries <= e.max
    /\ errorRows[k] # None =>
        /\ e.retries >= errorRows[k].retries
        /\ e.max >= errorRows[k].max
        /\ e.status \in ErrorFollows(errorRows[k].status)

Open(e) == e # None /\ e.status \notin {"recovered", "fallback_applied"}
Unresolved(e) == Open(e) /\ e.fatal

NewError(k) == [status |-> "pending", fatal |-> TRUE, retries |-> 0, max |-> policy[k].retries]
Settled(e, status) == [e EXCEPT !.status = status, !.fatal = status = "failed"]
NoRecovery == [current |-> "none", action |-> "none", human |-> "none"]

\* Mutation of Execution: attempts are counted from zero.
ExecutionFromZero(status, attempts, result) ==
    [status |-> status, attempts |-> attempts - 1, input |-> Input, result |-> result]

Execution(status, attempts, result) ==
    [status |-> status, attempts |-> attempts, input |-> Input, result |-> result]

\* The newer of the state's record and the row; the row wins a tie.
Existing == IF row # None /\ (record = None \/ row.attempts >= record.attempts)
            THEN row ELSE record

Larger(a, b) == IF a > b THEN a ELSE b

\* The router behind the node: any open fatal error of the node's stage.
Routed(errs) == IF \E k \in Kind : Unresolved(errs[k]) THEN "select" ELSE "done"

(***************************************************************************)
(* The steps of a graph node: its transactions, and its end.               *)
(***************************************************************************)

Doing(node) == job = "running" /\ pc = node

\* What becomes of the step when the repository raises.
Raises == job' = "raised" /\ UNCHANGED <<pc, written>>
Caught == pc' = "refused" /\ written' = {} /\ job' = job
PassedOver(k) == written' = {<<"execution", k>>, <<"error", k>>} /\ UNCHANGED <<job, pc>>

\* persist_node_execution.
PersistExecution(k, e, refused) ==
    /\ <<"execution", k>> \notin written
    /\ IF RowTakes(e)
       THEN row' = e /\ written' = written \cup {<<"execution", k>>} /\ UNCHANGED <<job, pc>>
       ELSE row' = row /\ refused
    /\ UNCHANGED <<channels, resume, saved, errorRows, files, budget>>

\* persist_recovery_error.
PersistError(k, e, refused) ==
    /\ <<"error", k>> \notin written
    /\ IF ErrorRowTakes(k, e)
       THEN /\ errorRows' = [errorRows EXCEPT ![k] = e]
            /\ written' = written \cup {<<"error", k>>}
            /\ UNCHANGED <<job, pc>>
       ELSE errorRows' = errorRows /\ refused
    /\ UNCHANGED <<channels, resume, saved, row, files, budget>>

\* Mutation of Persisted: the checkpoint does not wait for the database.
NotWaitedFor(k) == k \in Kind

Persisted(k) == <<"error", k>> \in written

\* The execution of an error is written before the error; that of the inner
\* node which recorded an error has a row of its own, which is left out.
ExecutionPersisted(k) == k \in AtBoundary => <<"execution", k>> \in written

\* A node of the recovery graph ends.
Returns(next) ==
    /\ pc' = next /\ written' = {}
    /\ UNCHANGED <<job, saved, database, files, budget>>

\* A node of the top graph ends.
Checkpointed(next) ==
    /\ pc' = next /\ written' = {}
    /\ saved' = [data |-> data', record |-> record', errors |-> errors']
    /\ resume' = [resume EXCEPT !.given = FALSE]
    /\ UNCHANGED <<job, database, files>>

(***************************************************************************)
(* The wrapped node.                                                       *)
(***************************************************************************)

Failed == Execution("failed", IF Existing = None THEN 1 ELSE Larger(Existing.attempts, 1), NoResult)

\* Mutation of CaptureException: what failed is tried again at once.
CaptureTryingAgain(k) ==
    /\ Doing(k)
    /\ UNCHANGED <<channels, budget>>
    /\ Checkpointed("start")

\* capture_subgraph_exception: what the database refuses is passed over, and
\* with the row of the execution goes that of the error.
CaptureException(k) ==
    /\ Doing(k)
    /\ \/ PersistExecution(k, Failed, PassedOver(k))
       \/ ExecutionPersisted(k) /\ PersistError(k, NewError(k), PassedOver(k))
       \/ /\ Persisted(k)
          /\ record' = Failed
          /\ errors' = [errors EXCEPT ![k] = NewError(k)]
          /\ recovery' = [recovery EXCEPT !.current = k, !.action = "none"]
          /\ UNCHANGED <<path, data, budget>>
          /\ Checkpointed("select")

\* A success is reused when it was computed from this very input, and does not
\* hold the error that is being retried.
Reuses ==
    /\ Existing.status \in Reusable
    /\ Existing.input = Input
    /\ recovery.current = "inside" /\ recovery.action = "retry" => Existing.result.error = None

ReuseResult ==
    LET reused == [Existing EXCEPT !.status = "reused"]
        taken  == Existing.result = artifact /\ RowTakes(reused)
    IN  /\ Doing("start")
        /\ Reuses
        /\ row' = IF taken THEN reused ELSE row
        /\ pc' = IF taken THEN "apply" ELSE "refused"
        /\ UNCHANGED <<job, written, channels, resume, saved, errorRows, files, budget>>

StartExecution ==
    LET running == Execution("running", IF Existing = None THEN 1 ELSE Existing.attempts + 1,
                             NoResult)
    IN  /\ Doing("start")
        /\ ~Reuses
        /\ row' = IF RowTakes(running) THEN running ELSE row
        /\ pc' = IF RowTakes(running) THEN "invoke" ELSE "refused"
        /\ UNCHANGED <<job, written, channels, resume, saved, errorRows, files, budget>>

\* The subgraph ends: it found data or not, it recorded an error or not (which
\* goes on with the count of the open one), and the result is written to its
\* file.
InvokeSubgraph(full, bad) ==
    /\ Doing("invoke")
    /\ bad => budget.failures > 0
    /\ bad \/ full
    /\ artifact' = [input |-> Reads, full |-> full,
                    error |-> IF ~bad THEN None
                              ELSE [NewError("inside") EXCEPT
                                       !.retries = IF Open(errors["inside"])
                                                   THEN errors["inside"].retries ELSE @]]
    /\ invoked' = invoked \cup {Reads}
    /\ budget' = [budget EXCEPT !.failures = IF bad THEN @ - 1 ELSE @]
    /\ pc' = "persist"
    /\ UNCHANGED <<job, written, channels, resume, saved, database>>

SubgraphRaises ==
    /\ Doing("invoke")
    /\ budget.failures > 0
    /\ budget' = [budget EXCEPT !.failures = @ - 1]
    /\ pc' = "raised"
    /\ UNCHANGED <<job, written, channels, resume, saved, database, files>>

\* The success is committed first; the run's state follows.
PersistSuccess ==
    /\ Doing("persist")
    /\ row' = Execution("succeeded", row.attempts, artifact)
    /\ pc' = "apply"
    /\ UNCHANGED <<job, written, channels, resume, saved, errorRows, files, budget>>

\* The result settles the error being retried, unless it repeats it.
Settles == recovery.action = "retry" /\ ~(recovery.current = "inside" /\ row.result.error # None)

\* The result of an execution joins the run's state.
ApplyResult ==
    LET merged == IF row.result.error # None
                  THEN [errors EXCEPT !["inside"] = row.result.error] ELSE errors
        k      == recovery.current
        done   == Settled(errors[k], "recovered")
    IN  /\ Doing("apply")
        /\ \/ Settles /\ PersistError(k, done, Caught)
           \/ /\ Settles => Persisted(k)
              /\ record' = row
              /\ data' = IF row.result.full THEN "some" ELSE data
              /\ errors' = IF Settles THEN [merged EXCEPT ![k] = done] ELSE merged
              /\ recovery' = IF Settles
                             THEN [recovery EXCEPT !.current = "none", !.action = "none"]
                             ELSE recovery
              /\ UNCHANGED <<path, budget>>
              /\ Checkpointed(Routed(errors'))

(***************************************************************************)
(* The recovery of the node's error: one node of the top graph, whose own  *)
(* graph keeps its channels after each of its nodes.                       *)
(***************************************************************************)

InRecovery == {"select", "inspect", "decide", "retry", "fallback", "wait_human", "ask", "abort",
               "load"}

Selected == IF recovery.current # "none" /\ Open(errors[recovery.current])
            THEN recovery.current
            ELSE CHOOSE k \in Kind : Open(errors[k])

\* hydrate_recovery_graph_state: the row replaces the state's record, and
\* neither counts when it was made from another input.
Hydrated ==
    IF recovery.current \notin AtBoundary THEN record
    ELSE IF row = None THEN (IF record # None /\ record.input = Input THEN record ELSE None)
    ELSE IF row.input = Input THEN row ELSE None

\* materialize_error_node_execution; an error without an execution gets a
\* record with a digest of its own.
Materialized(existing, e) ==
    IF existing = None
    THEN [status |-> "failed", attempts |-> e.retries + 1, input |-> <<"error">>,
          result |-> NoResult]
    ELSE IF existing.status \in Reusable THEN existing
    ELSE [existing EXCEPT !.status = "failed", !.attempts = Larger(@, e.retries + 1)]

\* apply_recovery_policy_to_error sets the limit; a given-up error starts again.
Taken(k) == [errors[k] EXCEPT !.max = policy[k].retries,
                              !.status = IF @ = "failed" THEN "pending" ELSE @]

\* select_recovery_error, and where inspect_reusable_execution leads.
SelectRecoveryError ==
    LET k == Selected
        e == Taken(k)
        m == Materialized(Hydrated, e)
    IN  /\ Doing("select")
        /\ \/ k \in AtBoundary /\ PersistExecution(k, m, Raises)
           \/ ExecutionPersisted(k) /\ PersistError(k, e, Raises)
           \/ /\ Persisted(k)
              /\ errors' = [errors EXCEPT ![k] = e]
              /\ record' = IF k \in AtBoundary THEN m ELSE record
              /\ recovery' = [recovery EXCEPT !.current = k, !.action = "none"]
              /\ UNCHANGED <<path, data, resume>>
              /\ Returns(IF k \in AtBoundary /\ m.status \in Reusable THEN "inspect" ELSE "decide")

InspectReusableExecution ==
    LET k == recovery.current
        e == Settled(errors[k], "recovered")
    IN  /\ Doing("inspect")
        /\ \/ PersistError(k, e, Raises)
           \/ /\ Persisted(k)
              /\ errors' = [errors EXCEPT ![k] = e]
              /\ recovery' = [recovery EXCEPT !.action = "reuse_result"]
              /\ UNCHANGED <<path, data, record, resume>>
              /\ Returns("load")

\* load_recovery_reused_update: the run goes on behind the node with the stored
\* result.  The errors of the recovery win over those of the result.
LoadReusedUpdate ==
    LET found == record.result = artifact /\ record.input = Input
    IN  /\ Doing("load")
        /\ \/ /\ found
              /\ data' = IF artifact.full THEN "some" ELSE data
              /\ errors' = IF artifact.error # None /\ errors["inside"] = None
                           THEN [errors EXCEPT !["inside"] = artifact.error] ELSE errors
              /\ UNCHANGED <<path, record, recovery, budget>>
              /\ Checkpointed(Routed(errors'))
           \/ /\ ~found
              /\ Raises
              /\ UNCHANGED <<channels, resume, saved, database, files, budget>>

\* recommend_recovery_action; a policy that is switched off aborts as well.
Recommended(k) ==
    CASE errors[k].retries < policy[k].retries -> "retry"
      [] policy[k].fallback # "none"           -> "fallback"
      [] policy[k].human                       -> "wait_human"
      [] OTHER                                 -> "abort"

DecideRecoveryAction ==
    /\ Doing("decide")
    /\ recovery' = [recovery EXCEPT !.action = Recommended(recovery.current)]
    /\ UNCHANGED <<path, data, record, errors, resume>>
    /\ Returns(Recommended(recovery.current))

Retried(k) == [errors[k] EXCEPT !.status = "retrying", !.fatal = FALSE, !.retries = @ + 1,
                                !.max = Larger(@, errors[k].retries + 1)]

\* By itself or because a human said so, past the limit then.
ScheduleRecoveryRetry ==
    LET k == recovery.current
        e == Retried(k)
    IN  /\ Doing("retry")
        /\ \/ PersistError(k, e, Raises)
           \/ /\ Persisted(k)
              /\ errors' = [errors EXCEPT ![k] = e]
              /\ recovery' = [recovery EXCEPT !.action = "retry"]
              /\ UNCHANGED <<path, data, record, budget>>
              /\ Checkpointed("start")

\* The errors of the task that go with the current one: the human's choice
\* comes before the policy's, also when it was made for an earlier error.
Cohort ==
    LET fallback == IF recovery.human = "skip_file" THEN "skip_file"
                    ELSE policy[recovery.current].fallback
    IN  {recovery.current} \cup {k \in Kind : Open(errors[k]) /\ policy[k].fallback = fallback}

\* Each error of the cohort is written with its execution, the current one
\* first; then the run goes on behind the node, with what results it has.
ApplyRecoveryFallback ==
    LET latest == IF \E k \in Kind : <<"execution", k>> \in written THEN row ELSE record
        settled(k) == Settled(errors[k], "fallback_applied")
    IN  /\ Doing("fallback")
        /\ \/ \E k \in Cohort :
                /\ k = recovery.current \/ Persisted(recovery.current)
                /\ \/ /\ \A j \in Cohort : <<"execution", j>> \in written => Persisted(j)
                      /\ k \in AtBoundary
                      /\ PersistExecution(k, Materialized(latest, errors[k]), Raises)
                   \/ ExecutionPersisted(k) /\ PersistError(k, settled(k), Raises)
           \/ /\ \A k \in Cohort : Persisted(k)
              /\ errors' = [k \in Kind |-> IF k \in Cohort THEN settled(k) ELSE errors[k]]
              /\ record' = latest
              /\ recovery' = [recovery EXCEPT !.action = "fallback"]
              /\ UNCHANGED <<path, data, budget>>
              /\ Checkpointed(Routed(errors'))

Asked(k) == [errors[k] EXCEPT !.status = "waiting_human", !.fatal = FALSE]

PrepareRecoveryHumanInput ==
    LET k == recovery.current
        e == Asked(k)
    IN  /\ Doing("wait_human")
        /\ \/ PersistError(k, e, Raises)
           \/ /\ Persisted(k)
              /\ errors' = [errors EXCEPT ![k] = e]
              /\ recovery' = [recovery EXCEPT !.human = "none"]
              /\ UNCHANGED <<path, data, record, resume>>
              /\ Returns("ask")

\* What the human may choose; only an error inside names a file, and every
\* category is taken as one of those for which a path may be provided.
Offered(k) ==
    {"abort", "provide_path"}
        \cup (IF k = "inside" THEN {"skip_file"} ELSE {})
        \cup (IF policy[k].retries > 0 THEN {"retry"} ELSE {})

\* request_recovery_human_input without a value to take: the run is interrupted
\* and the job waits.
Interrupt ==
    /\ Doing("ask")
    /\ ~resume.given
    /\ job' = "waiting"
    /\ resume' = [resume EXCEPT !.answer = "none"]
    /\ UNCHANGED <<pc, written, channels, saved, database, files, budget>>

\* The human answers, whatever was offered, and the job is resumed.
Answer(a) ==
    /\ job = "waiting"
    /\ a \in {"retry", "provide_path"} => budget.retries > 0
    /\ budget' = [budget EXCEPT !.retries = IF a \in {"retry", "provide_path"} THEN @ - 1 ELSE @]
    /\ resume' = [answer |-> a, given |-> TRUE]
    /\ job' = "running"
    /\ UNCHANGED <<pc, written, channels, saved, database, files>>

\* The interrupt returns the job's answer, an old one too, and
\* apply_recovery_human_input follows it.
TakeAnswer ==
    LET a == resume.answer
    IN  /\ Doing("ask")
        /\ resume.given
        /\ a \in Offered(recovery.current)
        /\ resume' = [resume EXCEPT !.given = FALSE]
        /\ path' = IF a = "provide_path" THEN "replaced" ELSE path
        /\ recovery' = [recovery EXCEPT !.human = a]
        /\ UNCHANGED <<data, record, errors>>
        /\ Returns(CASE a \in {"retry", "provide_path"} -> "retry"
                     [] a = "skip_file"                  -> "fallback"
                     [] OTHER                            -> "abort")

\* The answer was not offered, or the path cannot be used.
RefuseAnswer ==
    /\ Doing("ask")
    /\ resume.given
    /\ resume.answer \notin Offered(recovery.current) \/ resume.answer = "provide_path"
    /\ Raises
    /\ UNCHANGED <<channels, resume, saved, database, files, budget>>

MarkRecoveryAborted ==
    LET k == recovery.current
        e == Settled(errors[k], "failed")
    IN  /\ Doing("abort")
        /\ \/ PersistError(k, e, Raises)
           \/ /\ Persisted(k)
              /\ errors' = [errors EXCEPT ![k] = e]
              /\ recovery' = [recovery EXCEPT !.action = "abort"]
              /\ UNCHANGED <<path, data, record, budget>>
              /\ Checkpointed("given_up")

(***************************************************************************)
(* The run around the node.                                                *)
(***************************************************************************)

\* The nodes behind this one add their results to the run's state.
LaterNodes ==
    /\ Doing("done")
    /\ data # "more"
    /\ data' = "more"
    /\ UNCHANGED <<path, record, errors, recovery, budget>>
    /\ Checkpointed("done")

\* The job is claimed again without an answer: a new request and recovery, and
\* the lists of the last checkpoint.
StartOver ==
    /\ resume.answer = "none"
    /\ pc' = "start"
    /\ path' = "given"
    /\ recovery' = NoRecovery
    /\ data' = saved.data
    /\ record' = saved.record
    /\ errors' = saved.errors
    /\ resume' = resume

\* The job is claimed again with an answer: the graph node in progress runs
\* again on the channels it had, and if it is the recovery, its next question
\* takes the answer, the same one or an old one.
Resume ==
    /\ resume.answer # "none"
    /\ pc' = IF pc \in InRecovery \cup {"done", "given_up"} THEN pc ELSE "start"
    /\ resume' = [resume EXCEPT !.given = pc \in InRecovery]
    /\ UNCHANGED channels

\* The process dies, or the run has raised, and the job is claimed again.
Restart ==
    /\ job # "waiting"
    /\ budget.restarts > 0
    /\ budget' = [budget EXCEPT !.restarts = @ - 1]
    /\ job' = "running" /\ written' = {}
    /\ StartOver \/ Resume
    /\ UNCHANGED <<saved, database, files>>

Ended == job = "raised" \/ pc \in {"done", "given_up"}

Init ==
    /\ policy \in [Kind -> Policies]
    /\ job = "running" /\ pc = "start" /\ written = {}
    /\ path = "given" /\ data = "none"
    /\ record = None /\ errors = [k \in Kind |-> None] /\ recovery = NoRecovery
    /\ resume = [answer |-> "none", given |-> FALSE]
    /\ saved = [data |-> data, record |-> record, errors |-> errors]
    /\ row = None /\ errorRows = [k \in Kind |-> None] /\ artifact = NoResult
    /\ invoked = {}
    /\ budget = [failures |-> MaxFailures, restarts |-> MaxRestarts, retries |-> HumanRetries]

Step ==
    \/ \E k \in AtBoundary : CaptureException(k)
    \/ ReuseResult
    \/ StartExecution
    \/ \E full, bad \in BOOLEAN : InvokeSubgraph(full, bad)
    \/ SubgraphRaises
    \/ PersistSuccess
    \/ ApplyResult
    \/ SelectRecoveryError
    \/ InspectReusableExecution
    \/ LoadReusedUpdate
    \/ DecideRecoveryAction
    \/ ScheduleRecoveryRetry
    \/ ApplyRecoveryFallback
    \/ PrepareRecoveryHumanInput
    \/ Interrupt
    \/ \E a \in {"retry", "provide_path", "skip_file", "abort"} : Answer(a)
    \/ TakeAnswer
    \/ RefuseAnswer
    \/ MarkRecoveryAborted
    \/ LaterNodes

Next ==
    \/ Step /\ policy' = policy
    \/ Restart /\ policy' = policy
    \/ Ended /\ UNCHANGED vars

Spec == Init /\ [][Next]_vars

\* The run does not stop by itself, and a human answers.
FairSpec == Spec /\ WF_vars(Step /\ policy' = policy)

(***************************************************************************)
(* Properties.                                                             *)
(***************************************************************************)

Result == [input : {<<>>} \cup ({"given", "replaced"} \X {"none", "some", "more"}),
           full : BOOLEAN, error : {None} \cup [status : {"pending"}, fatal : {TRUE},
                                               retries : Nat, max : Nat]]

\* The node's record, row and errors hold what their state types say.
NodeTypeOK ==
    /\ \A e \in {record, row} \ {None} :
        /\ e.status \in {"running", "failed"} \cup Reusable
        /\ e.attempts \in Nat \ {0}
        /\ e.result \in Result
    /\ \A k \in Kind : errors[k] # None =>
        errors[k].status \in {"pending", "retrying", "waiting_human", "fallback_applied",
                              "recovered", "failed"}
    /\ artifact \in Result

\* The run goes on behind the node either with the result that was computed
\* from the input directory of this run, or without one because a degradation
\* was applied, and then the database says so: the execution failed and its
\* error is fallback_applied.
DoneOrDegraded ==
    pc = "done" =>
        \/ row.status \in Reusable /\ row.result.input[1] = path
        \/ /\ row.status = "failed"
           /\ \E k \in AtBoundary : errors[k].status = "fallback_applied" /\ errorRows[k] = errors[k]

\* Once a success is stored it stays, and its file with it: the subgraph is
\* not run to its end again, and whatever reads the row later, in a retry, a
\* recovery or after a crash, finds the result it was written for
\* (technical-reference-1.0.0.md:1064).
NoSecondSuccess ==
    [][row.status \in Reusable =>
        /\ row'.status \in Reusable /\ row'.result = row.result
        /\ row.result = artifact /\ UNCHANGED <<artifact, invoked>>]_vars

\* What the checkpoint knows of retries and of the end of an error, the
\* database knows too, whatever crashed between them: a restarted run never
\* finds an error row behind its state.
RowsLeadCheckpoint ==
    \A k \in Kind : LET e == saved.errors[k] IN
        /\ e # None /\ e.retries > 0 => e.retries <= errorRows[k].retries
        /\ e.status \in {"recovered", "fallback_applied", "failed"} => errorRows[k].status = e.status

\* The node ends, is given up or raises: recovery and restarts do not go on
\* for ever after finitely many failures.
NodeComesToAnEnd == <>[]Ended

\* A directory provided by a human is read (version-0.6.5-recovery-interrupt-report-cli.md:25).
ReplacedPathIsRead == path = "replaced" ~> \E i \in invoked : i[1] = "replaced"
=============================================================================
