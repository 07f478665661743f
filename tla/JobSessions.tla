----------------------------- MODULE JobSessions -----------------------------
(***************************************************************************)
(* The queue one level below JobQueue: a method there is one transaction,  *)
(* but open_application_session gives it no isolation beyond its commit.   *)
(* It reads the rows it decides by, and other sessions may commit before   *)
(* it writes.  SQLAlchemy keeps the rows it has read (get returns the same *)
(* object again), and flush writes the columns that differ from what was   *)
(* read, by primary key, with no version and no condition.                 *)
(*                                                                         *)
(* A session is its reads, which check the guards, and its writes.  From   *)
(* its first write to its commit it holds the database's write lock (the   *)
(* row's, on PostgreSQL), so the writes are one step, and a row read for   *)
(* the first time after the first write is read in that step.  Claiming is *)
(* the exception: its UPDATE repeats the condition of its SELECT.          *)
(***************************************************************************)
EXTENDS JobQueue

CONSTANT Clients    \* threads of the API process, one request each

ASSUME ClientAssumption == Clients \cap Workers = {}

VARIABLES
    session,   \* session[s]: what the session of s has read and will do
    beats      \* beats[w]: jobs whose lease w's heartbeat thread has read

sessionVars == <<queueVars, session, beats>>

\* A worker makes its queue calls one after another, beside its heartbeats.
Sessions == Workers \cup Clients

NoAnswer == [request |-> None, interrupt |-> None, value |-> None]

\* row is the job as the session has read it.
Free == [op |-> "none", job |-> None, row |-> NoJob, status |-> "none",
         answer |-> NoAnswer]

Ops == {"none", "claim", "start", "finish", "fail", "list", "sweep", "answer"}

Session == [op: Ops, job: Jobs \cup {None}, row: JobRow,
            status: Settled \cup {"none"},
            answer: [request: Requests \cup {None},
                     interrupt: Interrupts \cup {None},
                     value: Values \cup {None}]]

Op(s)   == session[s].op
Open(s, view) == session' = [session EXCEPT ![s] = view]
Close(s)      == session' = [session EXCEPT ![s] = Free]

(***************************************************************************)
(* What a flush leaves in a row: the columns the session changed, and the  *)
(* others as they are by now.                                              *)
(***************************************************************************)
Flushed(read, written, now) ==
    [c \in DOMAIN now |-> IF written[c] # read[c] THEN written[c] ELSE now[c]]

\* available_at is written by requeue and queue_resume whatever it was.
FlushedDue(read, written, now) ==
    [Flushed(read, written, now) EXCEPT !.due = written.due]

(***************************************************************************)
(* First reads.  A guard that fails raises, and nothing happens.           *)
(***************************************************************************)
Reads(s, view) ==
    Op(s) = "none" /\ Open(s, view) /\ UNCHANGED <<queueVars, beats>>

ReadCandidate(w, j) ==
    /\ NextInLine(j)
    /\ Reads(w, [Free EXCEPT !.op = "claim", !.job = j, !.row = jobs[j]])

ReadToStart(w, j) ==
    /\ CanMarkRunning(w, j)
    /\ Reads(w, [Free EXCEPT !.op = "start", !.job = j, !.row = jobs[j]])

ReadToBeat(w, j) ==
    /\ CanHeartbeat(w, j)
    /\ beats' = [beats EXCEPT ![w] = @ \cup {j}]
    /\ UNCHANGED <<queueVars, session>>

ReadToFinish(w, j, status, interrupt) ==
    /\ jobs[j].worker = w
    /\ jobs[j].status \in Owned
    /\ Outcome(status, interrupt)
    /\ Reads(w, [Free EXCEPT !.op = "finish", !.job = j, !.row = jobs[j],
                             !.status = status,
                             !.answer.interrupt = interrupt])

ReadToFail(w, j) ==
    /\ jobs[j].status # "none"
    /\ jobs[j].worker = w
    /\ Reads(w, [Free EXCEPT !.op = "fail", !.job = j, !.row = jobs[j]])

\* requeue_expired lists the expired leases and reads each one's job after
\* that.  What it does for one lease does not depend on the others: here each
\* lease has a session of its own.
ListExpired(w, j) ==
    /\ j \in Expired
    /\ Reads(w, [Free EXCEPT !.op = "list", !.job = j])

ReadToSweep(w) ==
    /\ Op(w) = "list"
    /\ Open(w, [session[w] EXCEPT !.op = "sweep",
                                  !.row = jobs[session[w].job]])
    /\ UNCHANGED <<queueVars, beats>>

\* An answer that repeats the one before writes nothing and needs no step.
ReadToAnswer(c, j, a) ==
    /\ ResumeReply(j, a) = "accepted"
    /\ ~SameRequest(jobs[j].resume, a)
    /\ Reads(c, [Free EXCEPT !.op = "answer", !.job = j, !.row = jobs[j],
                             !.answer = a])

(***************************************************************************)
(* Writes and commit.                                                      *)
(***************************************************************************)
Commits(s, op) == Op(s) = op /\ Close(s) /\ UNCHANGED beats

\* Mutation of StillClaimable: an UPDATE by primary key alone.
ClaimableOnceRead(row, j) == row.status \in Queued

\* The UPDATE matches the row only if it is still what the SELECT promised.
StillClaimable(row, j) == jobs[j].status = row.status /\ Claimable(j)

CommitClaim(w) ==
    LET j == session[w].job IN
    /\ Commits(w, "claim")
    /\ IF StillClaimable(session[w].row, j)
       THEN /\ jobs' = [jobs EXCEPT ![j] = ClaimedBy(@, w)]
            /\ leases' = [leases EXCEPT ![j] = Activated(w)]
            /\ runs' = [runs EXCEPT ![j].status = "queued"]
            /\ UNCHANGED <<accepted, failures>>
       ELSE UNCHANGED queueVars

CommitStart(w) ==
    LET j   == session[w].job
        row == session[w].row IN
    /\ Commits(w, "start")
    /\ jobs' = [jobs EXCEPT ![j] =
                    Flushed(row, [row EXCEPT !.status = "running"], @)]
    /\ runs' = [runs EXCEPT ![j].status = "running"]
    /\ UNCHANGED <<leases, accepted, failures>>

\* A lease that was closed meanwhile gets a new expires_at too, which no
\* longer matters.
CommitBeat(w, j) ==
    /\ j \in beats[w]
    /\ beats' = [beats EXCEPT ![w] = @ \ {j}]
    /\ leases' = [leases EXCEPT ![j].left =
                      IF leases[j].status = "active" THEN LeaseTerm ELSE @]
    /\ UNCHANGED <<jobs, runs, accepted, failures, session>>

\* Mutation of HoldsLease: release does not compare the workers.
HoldsSomeLease(w, j) == leases[j].status # "none"

\* release reads the lease after the job was flushed: whoever lost the lease
\* is rolled back.
HoldsLease(w, j) == leases[j].worker = w

CommitFinish(w) ==
    LET j      == session[w].job
        row    == session[w].row
        status == session[w].status
        done   == FinishedAs(row, status, session[w].answer.interrupt) IN
    /\ Commits(w, "finish")
    /\ IF HoldsLease(w, j)
       THEN /\ jobs' = [jobs EXCEPT ![j] = Flushed(row, done, @)]
            /\ leases' = [leases EXCEPT ![j] = Closed(@, "released")]
            /\ runs' = [runs EXCEPT ![j] =
                            [status   |-> status,
                             finished |-> @.finished \/ status \in Terminal]]
            /\ UNCHANGED <<accepted, failures>>
       ELSE UNCHANGED queueVars

\* Both ends of a failed execution write the job and the run alike.  The
\* history of failures is not kept here.
WriteFailure(j, row, delay) ==
    /\ jobs' = [jobs EXCEPT ![j] =
                    FlushedDue(row, AfterFailure(row, delay), @)]
    /\ runs' = [runs EXCEPT ![j] = RunAfterFailure(row, @)]
    /\ UNCHANGED <<accepted, failures>>

CommitFail(w) ==
    LET j == session[w].job IN
    /\ Commits(w, "fail")
    /\ IF HoldsLease(w, j)
       THEN /\ WriteFailure(j, session[w].row, RetryDelay)
            /\ leases' = [leases EXCEPT ![j] = Closed(@, "released")]
       ELSE UNCHANGED queueVars

\* release gets the lease the session has listed, so its check compares the
\* lease with itself; it changes the status and leaves the worker alone.
CommitSweep(w) ==
    LET j   == session[w].job
        row == session[w].row IN
    /\ Commits(w, "sweep")
    /\ leases' = [leases EXCEPT ![j] = Closed(@, "expired")]
    /\ IF row.status \in Settled
       THEN UNCHANGED <<jobs, runs, accepted, failures>>
       ELSE WriteFailure(j, row, 0)

CommitAnswer(c) ==
    LET j   == session[c].job
        row == session[c].row
        a   == session[c].answer IN
    /\ Commits(c, "answer")
    /\ jobs' = [jobs EXCEPT ![j] = FlushedDue(row, Answered(row, a), @)]
    /\ runs' = [runs EXCEPT ![j].status = "queued"]
    /\ accepted' = [accepted EXCEPT ![j] = @ \cup {a}]
    /\ UNCHANGED <<leases, failures>>

-----------------------------------------------------------------------------
SessionInit ==
    /\ Init
    /\ session = [s \in Sessions |-> Free]
    /\ beats   = [w \in Workers |-> {}]

WorkerReads(w) ==
    \/ \E j \in Jobs :
           \/ ReadCandidate(w, j)
           \/ ReadToStart(w, j)
           \/ ReadToBeat(w, j)
           \/ \E status \in Terminal : ReadToFinish(w, j, status, None)
           \/ \E i \in Interrupts :
                  FreshInterrupt(j, i) /\ ReadToFinish(w, j, "waiting_human", i)
           \/ ReadToFail(w, j)
           \/ ListExpired(w, j)
    \/ ReadToSweep(w)

WorkerCommits(w) ==
    \/ CommitClaim(w)
    \/ CommitStart(w)
    \/ \E j \in Jobs : CommitBeat(w, j)
    \/ CommitFinish(w)
    \/ CommitFail(w)
    \/ CommitSweep(w)

ClientSession(c) ==
    \/ \E j \in Jobs, a \in Answer : ReadToAnswer(c, j, a)
    \/ CommitAnswer(c)

\* A submission inserts its rows and reads none.
Submission ==
    /\ \E j \in Jobs, limit \in AttemptLimits : Enqueue(j, limit)
    /\ UNCHANGED <<session, beats>>

SessionNext ==
    \/ Submission
    \/ \E w \in Workers : WorkerReads(w) \/ WorkerCommits(w)
    \/ \E c \in Clients : ClientSession(c)
    \/ Tick /\ UNCHANGED <<session, beats>>

SessionSpec == SessionInit /\ [][SessionNext]_sessionVars

-----------------------------------------------------------------------------
\* Sessions hold rows of the tables' types, and overlapping writes leave rows
\* that the CHECK constraints accept.
SessionTypeOK ==
    /\ TypeOK
    /\ session \in [Sessions -> Session]
    /\ beats \in [Workers -> SUBSET Jobs]

\* Whoever the job names as its owner is the one its lease names, however
\* sessions overlap: claiming is the only one that writes either.
\* (claim_next, activate; the check in release rests on it)
OwnerHoldsLease ==
    \A j \in Jobs :
        jobs[j].worker # None => leases[j].worker = jobs[j].worker

\* Two sessions that read the same queued job never both get it: a worker is
\* written into a row only while the row is queued.  (the condition of
\* claim_next's UPDATE)
ClaimsComeFromQueue ==
    [][\A j \in Jobs :
           jobs'[j].worker \notin {None, jobs[j].worker}
               => jobs[j].status \in Queued]_sessionVars

\* A result or a failure is never written over another worker's execution, not
\* even when the job was swept and claimed again between the reading and the
\* writing.  (the check in release, at the end of the transaction)
NoForeignResult ==
    [][\A w \in Workers :
           Op(w) \in {"finish", "fail"} /\ session'[w] = Free /\ jobs' # jobs
               => jobs[session[w].job].worker \in {None, w}]_sessionVars

-----------------------------------------------------------------------------
(***************************************************************************)
(* What the code and the documents say, and overlapping sessions break.    *)
(***************************************************************************)
\* repositories.py: a job in a final status must not be queued again.
FinalJobsStayFinal ==
    [][\A j \in Jobs :
           jobs[j].status \in Terminal => jobs'[j].status \notin Queued]_sessionVars
=============================================================================
