------------------------------ MODULE JobQueue ------------------------------
(***************************************************************************)
(* The persistent background queue: app/runtime/job_queue.py over the      *)
(* repositories of app/storage/repositories.py.  Every method of JobQueue  *)
(* is one database transaction, and one action here.  Who calls a method,  *)
(* and when, is left open: any worker may call any method at any moment,   *)
(* with any argument, as a stalled or restarted process may.  A call that  *)
(* raises rolls its transaction back, so it is no step at all.             *)
(*                                                                         *)
(* A timestamp is kept as its distance from now: left is what remains of   *)
(* a lease, due is how long ago available_at was reached (negative while   *)
(* it lies in the future).  Tick moves time for all of them.               *)
(***************************************************************************)
EXTENDS Integers, FiniteSets

CONSTANTS
    Jobs,            \* background_jobs rows, and the run and thread of each
    Workers,         \* worker ids
    Requests,        \* request_id values a client may choose
    Interrupts,      \* (interrupt_id, kind) pairs LangGraph may raise
    Values,          \* resume values, told apart by their value_digest
    Acceptable,      \* Acceptable[i]: the values valid for interrupt i
    AttemptLimits,   \* max_attempts values a submission may carry
    LeaseTerm,       \* lease_seconds
    RetryDelay,      \* retry_delay_seconds
    AgeLimit,        \* bound: waiting times beyond it are not told apart
    None             \* SQL NULL

ASSUME QueueAssumption ==
    /\ AttemptLimits \subseteq (Nat \ {0})
    /\ LeaseTerm \in Nat \ {0}
    /\ RetryDelay \in Nat
    /\ AgeLimit \in Nat
    /\ Acceptable \in [Interrupts -> SUBSET Values]
    /\ None \notin Workers \cup Requests \cup Interrupts \cup Values

VARIABLES
    jobs,       \* background_jobs
    leases,     \* worker_leases, one row per job
    runs,       \* governance_runs
    accepted,   \* history: the answers EnqueueResume ever accepted
    failures    \* history: failed or expired executions of each job

queueVars == <<jobs, leases, runs, accepted, failures>>

Terminal == {"completed", "partial", "failed"}
Settled  == Terminal \cup {"waiting_human"}
Queued   == {"queued", "resume_queued"}
Owned    == {"leased", "running"}

JobStatus    == {"none"} \cup Queued \cup Owned \cup Settled
ResumeStatus == {"none", "pending", "applied", "failed"}

Answer == [request: Requests, interrupt: Interrupts, value: Values]

NoResume == [request |-> None, interrupt |-> None, value |-> None,
             status |-> "none"]

NoJob == [status |-> "none", worker |-> None, attempts |-> 0, max |-> 0,
          resumes |-> 0, interrupt |-> None, resume |-> NoResume, due |-> 0]

JobRow == [status: JobStatus,
           worker: Workers \cup {None},
           attempts: Nat, max: Nat, resumes: Nat,
           interrupt: Interrupts \cup {None},
           resume: [request: Requests \cup {None},
                    interrupt: Interrupts \cup {None},
                    value: Values \cup {None},
                    status: ResumeStatus],
           due: Int]

NoLease  == [status |-> "none", worker |-> None, left |-> 0]

LeaseRow == [status: {"none", "active", "released", "expired"},
             worker: Workers \cup {None}, left: Nat]

NoRun  == [status |-> "none", finished |-> FALSE]

RunRow == [status: {"none", "queued", "running"} \cup Settled,
           finished: BOOLEAN]

(***************************************************************************)
(* What a repository method does to one row.                               *)
(***************************************************************************)
ResumePending(row) == row.resume.status = "pending"

\* Mutation of EffectiveAttempts: a failed resume costs nothing.
AttemptsAsClaimed(row) == row.attempts

\* The attempts this execution has cost, should it fail: the claim already
\* counted an ordinary execution, a resumed one is counted only on failure.
EffectiveAttempts(row) ==
    row.attempts + (IF ResumePending(row) THEN 1 ELSE 0)

NewJob(limit) == [NoJob EXCEPT !.status = "queued", !.max = limit]

\* Mutations of ClaimedBy: a resumed execution is charged like a new one, and
\* no execution is charged at all.
ClaimedCountingResumes(row, w) ==
    [row EXCEPT !.status = "leased", !.worker = w, !.due = 0,
                !.attempts = IF @ < row.max THEN @ + 1 ELSE @]

ClaimedUncounted(row, w) ==
    [row EXCEPT !.status = "leased", !.worker = w, !.due = 0]

ClaimedBy(row, w) ==
    [row EXCEPT !.status = "leased",
                !.worker = w,
                !.due = 0,
                !.attempts = IF row.status = "queued" THEN @ + 1 ELSE @]

\* Mutations of FinishedAs: the answer stays pending, every end counts as an
\* answer, and an old interrupt is kept.
FinishedUnapplied(row, status, interrupt) ==
    [row EXCEPT !.status = status, !.worker = None, !.interrupt = interrupt]

FinishedCountingAll(row, status, interrupt) ==
    [row EXCEPT !.status = status, !.worker = None, !.interrupt = interrupt,
                !.resume.status = IF ResumePending(row) THEN "applied" ELSE @,
                !.resumes = @ + 1]

FinishedKeepingInterrupt(row, status, interrupt) ==
    [row EXCEPT !.status = status, !.worker = None,
                !.interrupt = IF @ # None THEN @ ELSE interrupt,
                !.resume.status = IF ResumePending(row) THEN "applied" ELSE @,
                !.resumes = IF ResumePending(row) THEN @ + 1 ELSE @]

FinishedAs(row, status, interrupt) ==
    [row EXCEPT !.status = status,
                !.worker = None,
                !.interrupt = interrupt,
                !.resume.status = IF ResumePending(row) THEN "applied" ELSE @,
                !.resumes = IF ResumePending(row) THEN @ + 1 ELSE @]

Requeued(row, delay) ==
    [row EXCEPT !.status = IF ResumePending(row) THEN "resume_queued"
                                                 ELSE "queued",
                !.worker = None,
                !.attempts = EffectiveAttempts(row),
                !.due = -delay]

\* Mutation of FailedForGood: the last attempt is counted beyond the limit.
FailedUncapped(row) ==
    [row EXCEPT !.status = "failed", !.worker = None, !.interrupt = None,
                !.attempts = IF ResumePending(row) THEN @ + 1 ELSE @,
                !.resume.status = IF ResumePending(row) THEN "failed" ELSE @]

FailedForGood(row) ==
    [row EXCEPT !.status = "failed",
                !.worker = None,
                !.interrupt = None,
                !.attempts = IF ResumePending(row) /\ @ < row.max
                             THEN @ + 1 ELSE @,
                !.resume.status = IF ResumePending(row) THEN "failed" ELSE @]

\* fail_or_requeue and requeue_expired decide alike: retry while the budget
\* lasts, then give up.
CanRetry(row) == EffectiveAttempts(row) < row.max

AfterFailure(row, delay) ==
    IF CanRetry(row) THEN Requeued(row, delay) ELSE FailedForGood(row)

\* Mutation of RunAfterFailure: the run is told that every failure is retried.
RunAlwaysRequeued(row, run) == [run EXCEPT !.status = "queued"]

RunAfterFailure(row, run) ==
    IF CanRetry(row)
    THEN [run EXCEPT !.status = "queued"]
    ELSE [run EXCEPT !.status = "failed", !.finished = TRUE]

\* Mutation of Answered: an answer comes with a fresh retry budget.
AnsweredWithFreshBudget(row, a) ==
    [row EXCEPT !.status = "resume_queued", !.attempts = 0,
                !.resume = [request   |-> a.request,
                            interrupt |-> a.interrupt,
                            value     |-> a.value,
                            status    |-> "pending"],
                !.due = 0]

Answered(row, a) ==
    [row EXCEPT !.status = "resume_queued",
                !.resume = [request   |-> a.request,
                            interrupt |-> a.interrupt,
                            value     |-> a.value,
                            status    |-> "pending"],
                !.due = 0]

\* Mutation of Closed: the lease forgets who held it.
ClosedForgettingWorker(lease, state) ==
    [lease EXCEPT !.status = state, !.worker = None, !.left = 0]

Activated(w)         == [status |-> "active", worker |-> w, left |-> LeaseTerm]
Closed(lease, state) == [lease EXCEPT !.status = state, !.left = 0]

(***************************************************************************)
(* Submission and resumption, called by the API process.                   *)
(***************************************************************************)
Enqueue(j, limit) ==
    /\ jobs[j].status = "none"
    /\ jobs' = [jobs EXCEPT ![j] = NewJob(limit)]
    /\ runs' = [runs EXCEPT ![j].status = "queued"]
    /\ UNCHANGED <<leases, accepted, failures>>

\* is_same_resume_request: only the latest request is remembered.
SameRequest(resume, a) ==
    /\ resume.status # "none"
    /\ resume.request = a.request
    /\ resume.interrupt = a.interrupt
    /\ resume.value = a.value

\* Mutation of Awaits: an answer to any interrupt will do.
AwaitsAnyInterrupt(row, a) ==
    row.resume.request # a.request /\ row.status = "waiting_human"

\* queue_resume: the job waits for this interrupt, and the request id is not
\* the one of the answer before.
Awaits(row, a) ==
    /\ row.resume.request # a.request
    /\ row.status = "waiting_human"
    /\ row.interrupt = a.interrupt

\* The HTTP outcome of POST /runs/{run_id}/resume for answer a.
ResumeReply(j, a) ==
    IF jobs[j].status = "none" THEN "not_found"
    ELSE IF SameRequest(jobs[j].resume, a) THEN "accepted"
    ELSE IF ~Awaits(jobs[j], a) THEN "conflict"
    ELSE IF a.value \in Acceptable[a.interrupt] THEN "accepted"
    ELSE "unprocessable"

EnqueueResume(j, a) ==
    /\ ResumeReply(j, a) = "accepted"
    /\ jobs' = IF SameRequest(jobs[j].resume, a)
               THEN jobs
               ELSE [jobs EXCEPT ![j] = Answered(@, a)]
    /\ runs' = IF jobs'[j].status = "resume_queued"
               THEN [runs EXCEPT ![j].status = "queued"]
               ELSE runs
    /\ accepted' = [accepted EXCEPT ![j] = @ \cup {a}]
    /\ UNCHANGED <<leases, failures>>

(***************************************************************************)
(* Claiming and executing, called by a worker.                             *)
(***************************************************************************)
Claimable(j) ==
    /\ jobs[j].status \in Queued
    /\ jobs[j].due >= 0
    /\ \/ jobs[j].status = "resume_queued"
       \/ jobs[j].attempts < jobs[j].max

\* claim_next orders by available_at; ties are broken by creation time and
\* id, which the model leaves open.
NextInLine(j) ==
    /\ Claimable(j)
    /\ \A k \in Jobs : Claimable(k) => jobs[k].due <= jobs[j].due

Claim(w, j) ==
    /\ NextInLine(j)
    /\ jobs' = [jobs EXCEPT ![j] = ClaimedBy(@, w)]
    /\ leases' = [leases EXCEPT ![j] = Activated(w)]
    /\ runs' = [runs EXCEPT ![j].status = "queued"]
    /\ UNCHANGED <<accepted, failures>>

CanMarkRunning(w, j) == jobs[j].status = "leased" /\ jobs[j].worker = w

MarkRunning(w, j) ==
    /\ CanMarkRunning(w, j)
    /\ jobs' = [jobs EXCEPT ![j].status = "running"]
    /\ runs' = [runs EXCEPT ![j].status = "running"]
    /\ UNCHANGED <<leases, accepted, failures>>

CanHeartbeat(w, j) == leases[j].status = "active" /\ leases[j].worker = w

Heartbeat(w, j) ==
    /\ CanHeartbeat(w, j)
    /\ leases' = [leases EXCEPT ![j].left = LeaseTerm]
    /\ UNCHANGED <<jobs, runs, accepted, failures>>

\* A new interrupt has an identity of its own: LangGraph derives it from the
\* checkpoint that raised it.
FreshInterrupt(j, i) ==
    i # jobs[j].interrupt /\ \A a \in accepted[j] : a.interrupt # i

CanFinish(w, j) ==
    /\ jobs[j].worker = w
    /\ jobs[j].status \in Owned
    /\ leases[j].worker = w

\* waiting_human comes with an interrupt, every other status without one.
Outcome(status, interrupt) ==
    \/ status = "waiting_human" /\ interrupt \in Interrupts
    \/ status \in Terminal /\ interrupt = None

\* Mutation of Finish: the lease is not released.
FinishKeepingLease(w, j, status, interrupt) ==
    /\ CanFinish(w, j)
    /\ Outcome(status, interrupt)
    /\ jobs' = [jobs EXCEPT ![j] = FinishedAs(@, status, interrupt)]
    /\ runs' = [runs EXCEPT ![j] = [status   |-> status,
                                    finished |-> @.finished \/ status \in Terminal]]
    /\ UNCHANGED <<leases, accepted, failures>>

Finish(w, j, status, interrupt) ==
    /\ CanFinish(w, j)
    /\ Outcome(status, interrupt)
    /\ jobs' = [jobs EXCEPT ![j] = FinishedAs(@, status, interrupt)]
    /\ leases' = [leases EXCEPT ![j] = Closed(@, "released")]
    /\ runs' = [runs EXCEPT ![j] = [status   |-> status,
                                    finished |-> @.finished \/ status \in Terminal]]
    /\ UNCHANGED <<accepted, failures>>

\* Mutations of CanFail: the lease alone says who owns the job, and nothing
\* does.
CanFailByLease(w, j) == jobs[j].status # "none" /\ leases[j].worker = w

CanFailUnowned(w, j) == jobs[j].status # "none"

CanFail(w, j) ==
    jobs[j].status # "none" /\ jobs[j].worker = w /\ leases[j].worker = w

FailOrRequeue(w, j) ==
    /\ CanFail(w, j)
    /\ jobs' = [jobs EXCEPT ![j] = AfterFailure(@, RetryDelay)]
    /\ leases' = [leases EXCEPT ![j] = Closed(@, "released")]
    /\ runs' = [runs EXCEPT ![j] = RunAfterFailure(jobs[j], @)]
    /\ failures' = [failures EXCEPT ![j] = @ + 1]
    /\ UNCHANGED accepted

(***************************************************************************)
(* The sweep every worker makes before it claims: all expired leases are   *)
(* dealt with in one transaction.                                          *)
(***************************************************************************)
Expired == {j \in Jobs : leases[j].status = "active" /\ leases[j].left = 0}

\* Mutation of Abandoned: only jobs that were not started are swept.
AbandonedUnstarted == {j \in Expired : jobs[j].status = "leased"}

Abandoned == {j \in Expired : jobs[j].status \notin Settled}

RequeueExpired ==
    /\ Expired # {}
    /\ leases' = [j \in Jobs |-> IF j \in Expired
                                 THEN Closed(leases[j], "expired")
                                 ELSE leases[j]]
    /\ jobs' = [j \in Jobs |-> IF j \in Abandoned
                               THEN AfterFailure(jobs[j], 0) ELSE jobs[j]]
    /\ runs' = [j \in Jobs |-> IF j \in Abandoned
                               THEN RunAfterFailure(jobs[j], runs[j])
                               ELSE runs[j]]
    /\ failures' = [j \in Jobs |-> IF j \in Abandoned
                                   THEN failures[j] + 1 ELSE failures[j]]
    /\ UNCHANGED accepted

(***************************************************************************)
(* Time.                                                                   *)
(***************************************************************************)
Ageing(j)  == jobs[j].status \in Queued /\ jobs[j].due < AgeLimit
Running(j) == leases[j].left > 0

Tick ==
    /\ \E j \in Jobs : Ageing(j) \/ Running(j)
    /\ jobs' = [j \in Jobs |-> IF Ageing(j)
                               THEN [jobs[j] EXCEPT !.due = @ + 1]
                               ELSE jobs[j]]
    /\ leases' = [j \in Jobs |-> IF Running(j)
                                 THEN [leases[j] EXCEPT !.left = @ - 1]
                                 ELSE leases[j]]
    /\ UNCHANGED <<runs, accepted, failures>>

-----------------------------------------------------------------------------
Init ==
    /\ jobs     = [j \in Jobs |-> NoJob]
    /\ leases   = [j \in Jobs |-> NoLease]
    /\ runs     = [j \in Jobs |-> NoRun]
    /\ accepted = [j \in Jobs |-> {}]
    /\ failures = [j \in Jobs |-> 0]

ClientNext ==
    \E j \in Jobs :
        \/ \E limit \in AttemptLimits : Enqueue(j, limit)
        \/ \E a \in Answer : EnqueueResume(j, a)

WorkerNext ==
    \E w \in Workers, j \in Jobs :
        \/ Claim(w, j)
        \/ MarkRunning(w, j)
        \/ Heartbeat(w, j)
        \/ \E status \in Terminal : Finish(w, j, status, None)
        \/ \E i \in Interrupts : FreshInterrupt(j, i)
                                 /\ Finish(w, j, "waiting_human", i)
        \/ FailOrRequeue(w, j)

Next == ClientNext \/ WorkerNext \/ RequeueExpired \/ Tick

Spec == Init /\ [][Next]_queueVars

-----------------------------------------------------------------------------
\* Every row has the columns of app/storage/orm_models.py and the values the
\* repositories may write there, the CHECK constraints included.
TypeOK ==
    /\ jobs \in [Jobs -> JobRow]
    /\ leases \in [Jobs -> LeaseRow]
    /\ runs \in [Jobs -> RunRow]
    /\ accepted \in [Jobs -> SUBSET Answer]
    /\ failures \in [Jobs -> Nat]
    /\ \A j \in Jobs : jobs[j].attempts <= jobs[j].max

LeaseMatches(row, lease) ==
    /\ (lease.status = "active") <=> (row.status \in Owned)
    /\ (row.status \in Owned)    <=> (row.worker # None)
    /\ row.status \in Owned => lease.worker = row.worker

\* A lease is active exactly while its job is leased or running, and both
\* rows name the same worker.  The two tables are written by different
\* repository calls, and release never looks at the lease's status: only the
\* order of the calls keeps them together.  (job_queue.py claim, finish,
\* fail_or_requeue, requeue_expired)
LeaseMatchesJob == \A j \in Jobs : LeaseMatches(jobs[j], leases[j])

AnswerFits(row) ==
    /\ row.status = "resume_queued" => ResumePending(row)
    /\ ResumePending(row) => /\ row.status \in Owned \cup {"resume_queued"}
                             /\ row.resume.interrupt = row.interrupt
    /\ (row.interrupt # None) <=>
           (row.status = "waiting_human" \/ ResumePending(row))

\* An accepted answer is pending until the execution it was accepted for is
\* over, it answers the interrupt the row still shows, and no row shows an
\* interrupt that nobody may answer any more.  (queue_resume, finish, requeue,
\* fail_expired)
AnswerInOrder == \A j \in Jobs : AnswerFits(jobs[j])

BudgetKept(row, failed) ==
    /\ row.status = "queued" => row.attempts = failed /\ failed < row.max
    /\ row.status \in Owned \cup {"resume_queued", "waiting_human"} =>
           row.attempts = failed + 1
    /\ failed <= row.max

\* Waiting for a human costs no attempt: whatever was answered in between,
\* attempt_count is one more than the executions that failed, so the retry
\* budget is spent by failures alone and no job fails more often than
\* max_attempts.  (claim_next, requeue, fail_expired)
AttemptsCountFailures == \A j \in Jobs : BudgetKept(jobs[j], failures[j])

UncountedAnswers(row) ==
    IF row.resume.status \in {"pending", "failed"} THEN 1 ELSE 0

AnswersCounted(row, answers) ==
    row.resumes + UncountedAnswers(row) = Cardinality(answers)

\* resume_count counts every accepted answer once: all of them but the one
\* still pending, or the one that failed with its job.  (finish)
EachAnswerCountedOnce ==
    \A j \in Jobs : AnswersCounted(jobs[j], accepted[j])

RunMirrors(row, run) ==
    /\ run.status = (IF row.status \in Queued \cup {"leased"}
                     THEN "queued" ELSE row.status)
    /\ run.finished <=> row.status \in Terminal

\* The run a client reads tells the same story as the job: each transaction
\* that moves one of them moves the other.  (update_status calls of
\* job_queue.py)
RunMirrorsJob == \A j \in Jobs : RunMirrors(jobs[j], runs[j])

Given(resume) == [request   |-> resume.request,
                  interrupt |-> resume.interrupt,
                  value     |-> resume.value]

HistoryFits(row, answers, failed) ==
    /\ row.status = "none" => row = NoJob /\ answers = {} /\ failed = 0
    /\ IsFiniteSet(answers)
    /\ row.status \in Settled => \A a \in answers : a.interrupt # row.interrupt
    /\ row.status \notin Terminal => row.resume.status # "failed"
    /\ row.resume.status # "none" => Given(row.resume) \in answers

\* What the invariants above need to be preserved by every transaction: a row
\* that does not exist yet has no past, an interrupt that waits for its answer
\* has never been answered before, and the answer a row shows was accepted.
QueueInvariant ==
    /\ TypeOK
    /\ LeaseMatchesJob
    /\ AnswerInOrder
    /\ AttemptsCountFailures
    /\ EachAnswerCountedOnce
    /\ RunMirrorsJob
    /\ \A j \in Jobs : HistoryFits(jobs[j], accepted[j], failures[j])

\* A job that reached completed, partial or failed never changes again, late
\* calls of workers that lost it included.  (guards of finish, requeue,
\* fail_or_requeue, requeue_expired, queue_resume)
TerminalIsFinal ==
    [][\A j \in Jobs : jobs[j].status \in Terminal =>
           /\ jobs'[j] = jobs[j]
           /\ runs'[j] = runs[j]
           /\ leases'[j].status = leases[j].status]_queueVars

\* Only a matching answer takes a job out of waiting_human, and the job keeps
\* its attempts, its count of answers and the interrupt it is about.
\* (queue_resume)
OnlyAnswersWake ==
    [][\A j \in Jobs :
           jobs[j].status = "waiting_human" /\ jobs'[j].status # "waiting_human"
           => /\ jobs'[j].status = "resume_queued"
              /\ jobs'[j].attempts = jobs[j].attempts
              /\ jobs'[j].resumes = jobs[j].resumes
              /\ \E a \in accepted'[j] \ accepted[j] :
                    /\ a.interrupt = jobs[j].interrupt
                    /\ a.value \in Acceptable[a.interrupt]]_queueVars

=============================================================================
