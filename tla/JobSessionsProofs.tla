-------------------------- MODULE JobSessionsProofs --------------------------
(***************************************************************************)
(* JobSessions for any numbers of jobs, workers and clients: what          *)
(* overlapping sessions never do to the rows of a job.                     *)
(***************************************************************************)
EXTENDS JobSessions, JobQueueProofs

\* A session was opened for a job that exists, and max_attempts, which no
\* method writes, is what the session has read.
ViewFits(v, rows) ==
    /\ v.op # "none" => v.job \in Jobs /\ rows[v.job].status # "none"
    /\ v.op \notin {"none", "list"} =>
           /\ v.row.status # "none"
           /\ v.row.attempts <= v.row.max
           /\ v.row.max = rows[v.job].max
    /\ v.op = "finish" => Outcome(v.status, v.answer.interrupt)
    /\ v.op = "answer" => v.answer \in Answer

SessionsFit == \A s \in Sessions : ViewFits(session[s], jobs)

\* Only jobs that exist are claimed.
JobsKnown ==
    \A j \in Jobs :
        /\ leases[j].status = "active" => jobs[j].status # "none"
        /\ jobs[j].worker # None => jobs[j].status # "none"

SessionInvariant ==
    /\ SessionTypeOK
    /\ OwnerHoldsLease
    /\ JobsKnown
    /\ SessionsFit

(***************************************************************************)
(* Rows.                                                                   *)
(***************************************************************************)
\* A row the database accepts: its columns have their types, and the CHECK on
\* attempt_count holds.
Valid(row) == row \in JobRow /\ row.attempts <= row.max

\* What a transaction makes of a job's row: the job goes on to exist, its
\* retry budget and, but for the loss of it, its owner stay the same.
Follows(old, new) ==
    /\ Valid(new)
    /\ new.worker \in {None, old.worker}
    /\ old.status # "none" => new.status # "none" /\ new.max = old.max

\* What a session makes of the row it has read.
Written(row, new) ==
    /\ Valid(new)
    /\ new.status # "none"
    /\ new.max = row.max
    /\ new.worker \in {None, row.worker}

LEMMA FlushedColumns ==
    ASSUME NEW read \in JobRow, NEW written \in JobRow, NEW now \in JobRow
    PROVE  LET new == Flushed(read, written, now) IN
           /\ new \in JobRow
           /\ new.status = IF written.status # read.status THEN written.status ELSE now.status
           /\ new.worker = IF written.worker # read.worker THEN written.worker ELSE now.worker
           /\ new.attempts = IF written.attempts # read.attempts THEN written.attempts ELSE now.attempts
           /\ new.max = IF written.max # read.max THEN written.max ELSE now.max
<1>. DEFINE new == Flushed(read, written, now)
            Columns == {"status", "worker", "attempts", "max", "resumes", "interrupt", "resume", "due"}
<1>1. DOMAIN now = Columns
  BY DEF JobRow
<1>2. new = [c \in Columns |-> IF written[c] # read[c] THEN written[c] ELSE now[c]]
  BY <1>1 DEF Flushed
<1>3. /\ new.status \in JobStatus
      /\ new.worker \in Workers \cup {None}
      /\ new.attempts \in Nat /\ new.max \in Nat /\ new.resumes \in Nat
  BY <1>2 DEF JobRow
<1>4. /\ new.interrupt \in Interrupts \cup {None}
      /\ new.due \in Int
  BY <1>2 DEF JobRow
<1>5. new.resume \in [request: Requests \cup {None}, interrupt: Interrupts \cup {None},
                      value: Values \cup {None}, status: ResumeStatus]
  BY <1>2 DEF JobRow
<1>6. new = [status |-> new.status, worker |-> new.worker, attempts |-> new.attempts,
             max |-> new.max, resumes |-> new.resumes, interrupt |-> new.interrupt,
             resume |-> new.resume, due |-> new.due]
  BY <1>2
<1>7. /\ new.status = IF written.status # read.status THEN written.status ELSE now.status
      /\ new.worker = IF written.worker # read.worker THEN written.worker ELSE now.worker
      /\ new.attempts = IF written.attempts # read.attempts THEN written.attempts ELSE now.attempts
      /\ new.max = IF written.max # read.max THEN written.max ELSE now.max
  BY <1>2
<1>. HIDE DEF new
<1>8. new \in JobRow
  BY <1>3, <1>4, <1>5, <1>6 DEF JobRow
<1>. QED  BY <1>7, <1>8 DEF new

\* A row flushed over what it is by now: the job keeps its budget, and what
\* the session does not change stays as others have left it.
LEMMA FlushedFollows ==
    ASSUME NEW row, NEW written, NEW now, Valid(row), Valid(now),
           Written(row, written), now.max = row.max, now.status # "none"
    PROVE  Follows(now, Flushed(row, written, now))
<1>1. row \in JobRow /\ written \in JobRow /\ now \in JobRow
  BY DEF Valid, Written
<1>. DEFINE new == Flushed(row, written, now)
<1>2. /\ new \in JobRow
      /\ new.status = IF written.status # row.status THEN written.status ELSE now.status
      /\ new.worker = IF written.worker # row.worker THEN written.worker ELSE now.worker
      /\ new.attempts = IF written.attempts # row.attempts THEN written.attempts ELSE now.attempts
      /\ new.max = IF written.max # row.max THEN written.max ELSE now.max
  BY <1>1, FlushedColumns
<1>. HIDE DEF new
<1>3. Follows(now, new)
  BY <1>1, <1>2 DEF Follows, Written, Valid, JobRow
<1>. QED  BY <1>3 DEF new

LEMMA FlushedDueFollows ==
    ASSUME NEW row, NEW written, NEW now, Valid(row), Valid(now),
           Written(row, written), now.max = row.max, now.status # "none"
    PROVE  Follows(now, FlushedDue(row, written, now))
<1>. DEFINE f   == Flushed(row, written, now)
            new == FlushedDue(row, written, now)
<1>1. Follows(now, f) /\ f \in JobRow /\ written.due \in Int
  BY FlushedFollows DEF Follows, Valid, Written, JobRow
<1>2. new = [f EXCEPT !.due = written.due]
  BY DEF FlushedDue
<1>. HIDE DEF f
<1>3. new \in JobRow
  BY <1>1, <1>2, ColumnUpdates
<1>4. /\ new.status = f.status /\ new.worker = f.worker /\ new.attempts = f.attempts
      /\ new.max = f.max
  BY <1>1, <1>2 DEF JobRow
<1>. HIDE DEF new
<1>5. Follows(now, new)
  BY <1>1, <1>3, <1>4 DEF Follows, Valid
<1>. QED  BY <1>5 DEF new

(***************************************************************************)
(* What the repository methods make of a row.                              *)
(***************************************************************************)
LEMMA ClaimedRow ==
    ASSUME NEW row, Valid(row), NEW w \in Workers, row.status \in Queued,
           row.status = "queued" => row.attempts < row.max
    PROVE  LET new == ClaimedBy(row, w) IN
           /\ Valid(new) /\ new.status = "leased" /\ new.worker = w /\ new.max = row.max
<1>. DEFINE n   == IF row.status = "queued" THEN row.attempts + 1 ELSE row.attempts
            a   == [row EXCEPT !.status = "leased"]
            b   == [a EXCEPT !.worker = w]
            c   == [b EXCEPT !.due = 0]
            new == ClaimedBy(row, w)
<1>1. row \in JobRow /\ n \in Nat /\ n <= row.max
  BY DEF Valid, JobRow
<1>2. a \in JobRow
  BY <1>1, ColumnUpdates DEF JobStatus, Owned
<1>3. b \in JobRow
  <2>. HIDE DEF a
  <2>. QED  BY <1>2, ColumnUpdates
<1>4. c \in JobRow
  <2>. HIDE DEF b
  <2>. QED  BY <1>3, ColumnUpdates
<1>5. [c EXCEPT !.attempts = n] \in JobRow
  <2>. HIDE DEF c, n
  <2>. QED  BY <1>1, <1>4, ColumnUpdates
<1>6. new = [c EXCEPT !.attempts = n]
  BY <1>1 DEF ClaimedBy, JobRow
<1>7. new.status = "leased" /\ new.worker = w /\ new.max = row.max /\ new.attempts = n
  BY <1>1 DEF ClaimedBy, JobRow
<1>8. new \in JobRow
  BY <1>5, <1>6
<1>. HIDE DEF new
<1>9. Valid(new) /\ new.status = "leased" /\ new.worker = w /\ new.max = row.max
  BY <1>1, <1>7, <1>8 DEF Valid
<1>. QED  BY <1>9 DEF new

LEMMA StartedRow ==
    ASSUME NEW row, Valid(row)
    PROVE  Written(row, [row EXCEPT !.status = "running"])
<1>1. row \in JobRow
  BY DEF Valid
<1>2. [row EXCEPT !.status = "running"] \in JobRow
  BY <1>1, ColumnUpdates DEF JobStatus, Owned
<1>. QED  BY <1>1, <1>2 DEF Written, Valid, JobRow

LEMMA FinishedRow ==
    ASSUME NEW row, Valid(row), NEW status, NEW interrupt, Outcome(status, interrupt)
    PROVE  Written(row, FinishedAs(row, status, interrupt))
<1>. DEFINE p   == ResumePending(row)
            s   == IF p THEN "applied" ELSE row.resume.status
            n   == IF p THEN row.resumes + 1 ELSE row.resumes
            a   == [row EXCEPT !.status = status]
            b   == [a EXCEPT !.worker = None]
            c   == [b EXCEPT !.interrupt = interrupt]
            d   == [c EXCEPT !.resume.status = s]
            e   == [d EXCEPT !.resumes = n]
            new == FinishedAs(row, status, interrupt)
<1>1. /\ row \in JobRow /\ s \in ResumeStatus /\ n \in Nat
      /\ status \in Settled /\ interrupt \in Interrupts \cup {None}
  BY DEF Valid, JobRow, ResumeStatus, Outcome, Settled
<1>2. a \in JobRow
  BY <1>1, ColumnUpdates DEF JobStatus
<1>3. b \in JobRow
  <2>. HIDE DEF a
  <2>. QED  BY <1>2, ColumnUpdates
<1>4. c \in JobRow
  <2>. HIDE DEF b
  <2>. QED  BY <1>1, <1>3, ColumnUpdates
<1>5. d \in JobRow
  <2>. HIDE DEF c, s
  <2>. QED  BY <1>1, <1>4, ColumnUpdates
<1>6. e \in JobRow
  <2>. HIDE DEF d, n
  <2>. QED  BY <1>1, <1>5, ColumnUpdates
<1>7. new = e
  BY <1>1 DEF FinishedAs, JobRow
<1>8. new.status = status /\ new.worker = None /\ new.max = row.max /\ new.attempts = row.attempts
  BY <1>1 DEF FinishedAs, JobRow
<1>9. new \in JobRow /\ status # "none"
  BY <1>1, <1>6, <1>7 DEF Settled, Terminal
<1>. HIDE DEF new
<1>10. Written(row, new)
  BY <1>8, <1>9 DEF Written, Valid
<1>. QED  BY <1>10 DEF new

LEMMA RequeuedRow ==
    ASSUME NEW row, Valid(row), CanRetry(row), NEW delay \in Nat
    PROVE  Written(row, Requeued(row, delay))
<1>. DEFINE s   == IF ResumePending(row) THEN "resume_queued" ELSE "queued"
            n   == EffectiveAttempts(row)
            a   == [row EXCEPT !.status = s]
            b   == [a EXCEPT !.worker = None]
            c   == [b EXCEPT !.attempts = n]
            d   == [c EXCEPT !.due = -delay]
            new == Requeued(row, delay)
<1>1. row \in JobRow /\ s \in JobStatus /\ s # "none" /\ n \in Nat /\ n < row.max /\ -delay \in Int
  BY DEF Valid, JobRow, JobStatus, Queued, EffectiveAttempts, CanRetry
<1>2. a \in JobRow
  <2>. HIDE DEF s
  <2>. QED  BY <1>1, ColumnUpdates
<1>3. b \in JobRow
  <2>. HIDE DEF a
  <2>. QED  BY <1>2, ColumnUpdates
<1>4. c \in JobRow
  <2>. HIDE DEF b, n
  <2>. QED  BY <1>1, <1>3, ColumnUpdates
<1>5. d \in JobRow
  <2>. HIDE DEF c
  <2>. QED  BY <1>1, <1>4, ColumnUpdates
<1>6. new = d
  BY DEF Requeued
<1>7. new.status = s /\ new.worker = None /\ new.max = row.max /\ new.attempts = n
  BY <1>1 DEF Requeued, JobRow
<1>8. new \in JobRow /\ row.max \in Nat
  BY <1>1, <1>5, <1>6 DEF JobRow
<1>. HIDE DEF new, n, s
<1>9. Written(row, new)
  BY <1>1, <1>7, <1>8 DEF Written, Valid
<1>. QED  BY <1>9 DEF new

LEMMA FailedRow ==
    ASSUME NEW row, Valid(row)
    PROVE  Written(row, FailedForGood(row))
<1>. DEFINE p   == ResumePending(row)
            s   == IF p THEN "failed" ELSE row.resume.status
            n   == IF p /\ row.attempts < row.max THEN row.attempts + 1 ELSE row.attempts
            a   == [row EXCEPT !.status = "failed"]
            b   == [a EXCEPT !.worker = None]
            c   == [b EXCEPT !.interrupt = None]
            d   == [c EXCEPT !.attempts = n]
            e   == [d EXCEPT !.resume.status = s]
            new == FailedForGood(row)
<1>1. row \in JobRow /\ s \in ResumeStatus /\ n \in Nat /\ n <= row.max
  BY DEF Valid, JobRow, ResumeStatus
<1>2. a \in JobRow
  BY <1>1, ColumnUpdates DEF JobStatus, Settled, Terminal
<1>3. b \in JobRow
  <2>. HIDE DEF a
  <2>. QED  BY <1>2, ColumnUpdates
<1>4. c \in JobRow
  <2>. HIDE DEF b
  <2>. QED  BY <1>3, ColumnUpdates
<1>5. d \in JobRow
  <2>. HIDE DEF c, n
  <2>. QED  BY <1>1, <1>4, ColumnUpdates
<1>6. e \in JobRow
  <2>. HIDE DEF d, s
  <2>. QED  BY <1>1, <1>5, ColumnUpdates
<1>7. new = e
  BY <1>1 DEF FailedForGood, JobRow
<1>8. new.status = "failed" /\ new.worker = None /\ new.max = row.max /\ new.attempts = n
  BY <1>1 DEF FailedForGood, JobRow
<1>9. new \in JobRow
  BY <1>6, <1>7
<1>. HIDE DEF new, n
<1>10. Written(row, new)
  BY <1>1, <1>8, <1>9 DEF Written, Valid
<1>. QED  BY <1>10 DEF new

LEMMA RowAfterFailure ==
    ASSUME NEW row, Valid(row), NEW delay \in Nat
    PROVE  Written(row, AfterFailure(row, delay))
BY RequeuedRow, FailedRow DEF AfterFailure

LEMMA AnsweredRow ==
    ASSUME NEW row, Valid(row), NEW x \in Answer
    PROVE  Written(row, Answered(row, x))
<1>. DEFINE r   == [request |-> x.request, interrupt |-> x.interrupt,
                    value |-> x.value, status |-> "pending"]
            a   == [row EXCEPT !.status = "resume_queued"]
            b   == [a EXCEPT !.resume = r]
            c   == [b EXCEPT !.due = 0]
            new == Answered(row, x)
<1>1. row \in JobRow
  BY DEF Valid
<1>2. a \in JobRow
  BY <1>1, ColumnUpdates DEF JobStatus, Queued
<1>3. b \in JobRow
  <2>1. r \in [request: Requests \cup {None}, interrupt: Interrupts \cup {None},
               value: Values \cup {None}, status: ResumeStatus]
    BY DEF Answer, ResumeStatus
  <2>. HIDE DEF a, r
  <2>. QED  BY <1>2, <2>1 DEF JobRow
<1>4. c \in JobRow
  <2>. HIDE DEF b
  <2>. QED  BY <1>3, ColumnUpdates
<1>5. new = c
  BY DEF Answered
<1>6. /\ new.status = "resume_queued" /\ new.worker = row.worker /\ new.max = row.max
      /\ new.attempts = row.attempts
  BY <1>1 DEF Answered, JobRow
<1>7. new \in JobRow
  BY <1>4, <1>5
<1>. HIDE DEF new
<1>8. Written(row, new)
  BY <1>6, <1>7 DEF Written, Valid
<1>. QED  BY <1>8 DEF new

(***************************************************************************)
(* What a step may do to the tables and to the sessions.                   *)
(***************************************************************************)
RowsFollow ==
    /\ jobs' \in [Jobs -> JobRow]
    /\ \A j \in Jobs : Follows(jobs[j], jobs'[j])

LeasesFollow ==
    /\ leases' \in [Jobs -> LeaseRow]
    /\ \A j \in Jobs : /\ leases'[j].worker = leases[j].worker
                       /\ leases'[j].status = "active" => leases[j].status = "active"

HistoriesTyped ==
    /\ runs' \in [Jobs -> RunRow]
    /\ accepted' \in [Jobs -> SUBSET Answer]
    /\ failures' \in [Jobs -> Nat]

LEMMA JobsValid ==
    ASSUME TypeOK, NEW j \in Jobs
    PROVE  Valid(jobs[j]) /\ Follows(jobs[j], jobs[j])
BY DEF TypeOK, Valid, Follows

LEMMA OneRowWritten ==
    ASSUME TypeOK, NEW j \in Jobs, NEW new, Follows(jobs[j], new),
           jobs' = [jobs EXCEPT ![j] = new]
    PROVE  RowsFollow
<1>1. new \in JobRow
  BY DEF Follows, Valid
<1>2. jobs' \in [Jobs -> JobRow] /\ jobs'[j] = new /\ \A k \in Jobs \ {j} : jobs'[k] = jobs[k]
  BY <1>1 DEF TypeOK
<1>. QED  BY <1>2, JobsValid DEF RowsFollow

LEMMA RowsUntouched ==
    ASSUME TypeOK, jobs' = jobs
    PROVE  RowsFollow
BY JobsValid DEF TypeOK, RowsFollow

LEMMA LeaseClosed ==
    ASSUME TypeOK, NEW j \in Jobs, NEW state \in {"released", "expired"},
           leases' = [leases EXCEPT ![j] = Closed(@, state)]
    PROVE  LeasesFollow
<1>. DEFINE new == Closed(leases[j], state)
<1>1. leases[j] \in LeaseRow
  BY DEF TypeOK
<1>2. new \in LeaseRow /\ new.worker = leases[j].worker /\ new.status = state
  BY <1>1 DEF Closed, LeaseRow
<1>3. leases' = [leases EXCEPT ![j] = new]
  OBVIOUS
<1>. HIDE DEF new
<1>4. leases' \in [Jobs -> LeaseRow] /\ leases'[j] = new /\ \A k \in Jobs \ {j} : leases'[k] = leases[k]
  BY <1>2, <1>3 DEF TypeOK
<1>. QED  BY <1>2, <1>4 DEF LeasesFollow

LEMMA LeasesUntouched ==
    ASSUME TypeOK, leases' = leases
    PROVE  LeasesFollow
BY DEF TypeOK, LeasesFollow

\* A worker becomes the owner of queued jobs only.
OwnersClaimed ==
    \A j \in Jobs :
        jobs'[j].worker \notin {None, jobs[j].worker} => jobs[j].status \in Queued

\* The view of a session stays right while rows follow one another.
LEMMA ViewStays ==
    ASSUME NEW v, ViewFits(v, jobs), RowsFollow
    PROVE  ViewFits(v, jobs')
<1>1. v.op # "none" =>
          v.job \in Jobs /\ jobs'[v.job].status # "none" /\ jobs'[v.job].max = jobs[v.job].max
  BY DEF ViewFits, RowsFollow, Follows
<1>. QED  BY <1>1 DEF ViewFits

LEMMA FreeIsIdle == Free \in Session /\ Free.op = "none" /\ \A rows : ViewFits(Free, rows)
<1>1. NoJob \in JobRow
  BY NoJobOK DEF JobOK
<1>. QED  BY <1>1 DEF Free, Session, Ops, NoAnswer, ViewFits

\* A step after which every session is as before or over.
LEMMA TransactionKeepsInvariant ==
    ASSUME SessionInvariant, RowsFollow, LeasesFollow, HistoriesTyped,
           beats' \in [Workers -> SUBSET Jobs],
           session' = session \/ \E s \in Sessions : Close(s)
    PROVE  SessionInvariant' /\ OwnersClaimed
<1>1. /\ session' \in [Sessions -> Session]
      /\ \A s \in Sessions : session'[s] \in {session[s], Free}
  BY FreeIsIdle DEF SessionInvariant, SessionTypeOK, Close
<1>2. SessionTypeOK'
  BY <1>1 DEF SessionTypeOK, TypeOK, RowsFollow, LeasesFollow, HistoriesTyped, Follows, Valid
<1>3. OwnerHoldsLease'
  BY DEF SessionInvariant, OwnerHoldsLease, RowsFollow, LeasesFollow, Follows
<1>4. JobsKnown'
  <2>. SUFFICES ASSUME NEW j \in Jobs
                PROVE  /\ leases'[j].status = "active" => jobs'[j].status # "none"
                       /\ jobs'[j].worker # None => jobs'[j].status # "none"
    BY DEF JobsKnown
  <2>. QED  BY DEF SessionInvariant, JobsKnown, RowsFollow, LeasesFollow, Follows
<1>5. ASSUME NEW s \in Sessions PROVE ViewFits(session'[s], jobs')
  <2>1. CASE session'[s] = session[s]
    BY <2>1, ViewStays DEF SessionInvariant, SessionsFit
  <2>2. CASE session'[s] = Free
    BY <2>2, FreeIsIdle
  <2>. QED  BY <1>1, <2>1, <2>2
<1>6. SessionsFit'
  BY <1>5 DEF SessionsFit
<1>7. OwnersClaimed
  BY DEF RowsFollow, Follows, OwnersClaimed
<1>. QED  BY <1>2, <1>3, <1>4, <1>6, <1>7 DEF SessionInvariant

(***************************************************************************)
(* First reads.                                                            *)
(***************************************************************************)
LEMMA SessionOpened ==
    ASSUME SessionInvariant, NEW s \in Sessions, NEW view, view \in Session,
           ViewFits(view, jobs), Open(s, view), UNCHANGED <<queueVars, beats>>
    PROVE  SessionInvariant' /\ OwnersClaimed
<1>1. SessionTypeOK'
  BY DEF SessionInvariant, SessionTypeOK, TypeOK, Open, queueVars
<1>2. OwnerHoldsLease' /\ JobsKnown'
  BY DEF SessionInvariant, OwnerHoldsLease, JobsKnown, queueVars
<1>3. ASSUME NEW t \in Sessions PROVE ViewFits(session'[t], jobs')
  <2>1. session'[t] = (IF t = s THEN view ELSE session[t]) /\ jobs' = jobs
    BY DEF Open, SessionInvariant, SessionTypeOK, queueVars
  <2>. QED  BY <2>1 DEF SessionInvariant, SessionsFit
<1>4. SessionsFit'
  BY <1>3 DEF SessionsFit
<1>5. OwnersClaimed
  BY DEF OwnersClaimed, queueVars
<1>. QED  BY <1>1, <1>2, <1>4, <1>5 DEF SessionInvariant

\* A session that was opened to do op with what it has read of job j.
View(op, j, row, status, answer) ==
    [op |-> op, job |-> j, row |-> row, status |-> status, answer |-> answer]

LEMMA FreeWith ==
    ASSUME NEW op, NEW j, NEW row
    PROVE  [Free EXCEPT !.op = op, !.job = j, !.row = row] = View(op, j, row, "none", NoAnswer)
<1>. DEFINE a == [Free EXCEPT !.op = op]
            b == [a EXCEPT !.job = j]
<1>1. a = View(op, None, NoJob, "none", NoAnswer)
  BY DEF View, Free
<1>2. b = View(op, j, NoJob, "none", NoAnswer)
  <2>. HIDE DEF a
  <2>. QED  BY <1>1 DEF View
<1>3. [b EXCEPT !.row = row] = View(op, j, row, "none", NoAnswer)
  <2>. HIDE DEF b
  <2>. QED  BY <1>2 DEF View
<1>. QED  BY <1>3

LEMMA ViewInOrder ==
    ASSUME SessionInvariant, NEW j \in Jobs, jobs[j].status # "none",
           NEW op \in Ops, NEW status \in Settled \cup {"none"},
           NEW answer \in [request: Requests \cup {None}, interrupt: Interrupts \cup {None},
                           value: Values \cup {None}],
           op = "finish" => Outcome(status, answer.interrupt),
           op = "answer" => answer \in Answer
    PROVE  /\ View(op, j, jobs[j], status, answer) \in Session
           /\ ViewFits(View(op, j, jobs[j], status, answer), jobs)
<1>1. jobs[j] \in JobRow /\ jobs[j].attempts <= jobs[j].max
  BY DEF SessionInvariant, SessionTypeOK, TypeOK
<1>. QED  BY <1>1 DEF View, ViewFits, Session

LEMMA NoAnswerTyped ==
    NoAnswer \in [request: Requests \cup {None}, interrupt: Interrupts \cup {None},
                  value: Values \cup {None}]
BY DEF NoAnswer

LEMMA InvariantSimpleRead ==
    ASSUME SessionInvariant, NEW w \in Workers, NEW j \in Jobs, jobs[j].status # "none",
           NEW op \in Ops \ {"finish", "answer"},
           Reads(w, [Free EXCEPT !.op = op, !.job = j, !.row = jobs[j]])
    PROVE  SessionInvariant' /\ OwnersClaimed
<1>. DEFINE view == View(op, j, jobs[j], "none", NoAnswer)
<1>1. view = [Free EXCEPT !.op = op, !.job = j, !.row = jobs[j]]
  BY FreeWith
<1>2. view \in Session /\ ViewFits(view, jobs)
  BY ViewInOrder, NoAnswerTyped
<1>3. Open(w, view) /\ UNCHANGED <<queueVars, beats>> /\ w \in Sessions
  BY <1>1 DEF Reads, Sessions
<1>. HIDE DEF view
<1>. QED  BY <1>2, <1>3, SessionOpened

LEMMA InvariantReadToFinish ==
    ASSUME SessionInvariant, NEW w \in Workers, NEW j \in Jobs, NEW status, NEW interrupt,
           ReadToFinish(w, j, status, interrupt)
    PROVE  SessionInvariant' /\ OwnersClaimed
<1>. DEFINE answer == [request |-> None, interrupt |-> interrupt, value |-> None]
            view == View("finish", j, jobs[j], status, answer)
<1>1. view = [Free EXCEPT !.op = "finish", !.job = j, !.row = jobs[j],
                          !.status = status, !.answer.interrupt = interrupt]
  <2>. DEFINE a == [Free EXCEPT !.op = "finish", !.job = j, !.row = jobs[j]]
              b == [a EXCEPT !.status = status]
  <2>1. a = View("finish", j, jobs[j], "none", NoAnswer)
    BY FreeWith
  <2>2. b = View("finish", j, jobs[j], status, NoAnswer)
    <3>. HIDE DEF a
    <3>. QED  BY <2>1 DEF View
  <2>3. [NoAnswer EXCEPT !.interrupt = interrupt] = answer
    BY DEF NoAnswer
  <2>4. [b EXCEPT !.answer.interrupt = interrupt] = [b EXCEPT !.answer = answer]
    <3>. HIDE DEF b
    <3>. QED  BY <2>2, <2>3 DEF View
  <2>5. [b EXCEPT !.answer = answer] = view
    <3>. HIDE DEF b, answer
    <3>. QED  BY <2>2 DEF View
  <2>. QED  BY <2>4, <2>5
<1>2. /\ Outcome(status, interrupt) /\ status \in Settled \cup {"none"}
      /\ interrupt \in Interrupts \cup {None} /\ jobs[j].status # "none" /\ "finish" \in Ops
  BY DEF ReadToFinish, Outcome, Settled, Owned, Ops
<1>3. /\ answer \in [request: Requests \cup {None}, interrupt: Interrupts \cup {None},
                     value: Values \cup {None}]
      /\ answer.interrupt = interrupt
  BY <1>2
<1>. HIDE DEF answer
<1>4. view \in Session /\ ViewFits(view, jobs)
  BY <1>2, <1>3, ViewInOrder
<1>5. Open(w, view) /\ UNCHANGED <<queueVars, beats>> /\ w \in Sessions
  BY <1>1 DEF ReadToFinish, Reads, Sessions
<1>. HIDE DEF view
<1>. QED  BY <1>4, <1>5, SessionOpened

LEMMA InvariantListExpired ==
    ASSUME SessionInvariant, NEW w \in Workers, NEW j \in Jobs, ListExpired(w, j)
    PROVE  SessionInvariant' /\ OwnersClaimed
<1>. DEFINE view == View("list", j, NoJob, "none", NoAnswer)
<1>1. view = [Free EXCEPT !.op = "list", !.job = j]
  <2>. DEFINE a == [Free EXCEPT !.op = "list"]
  <2>1. a = View("list", None, NoJob, "none", NoAnswer)
    BY DEF View, Free
  <2>2. [a EXCEPT !.job = j] = view
    <3>. HIDE DEF a
    <3>. QED  BY <2>1 DEF View
  <2>. QED  BY <2>2
<1>2. jobs[j].status # "none"
  BY DEF ListExpired, Expired, SessionInvariant, JobsKnown
<1>3. view \in Session /\ ViewFits(view, jobs)
  <2>1. NoJob \in JobRow
    BY NoJobOK DEF JobOK
  <2>. QED  BY <1>2, <2>1, NoAnswerTyped DEF View, Session, Ops, ViewFits
<1>4. Open(w, view) /\ UNCHANGED <<queueVars, beats>> /\ w \in Sessions
  BY <1>1 DEF ListExpired, Reads, Sessions
<1>. HIDE DEF view
<1>. QED  BY <1>3, <1>4, SessionOpened

LEMMA InvariantReadToSweep ==
    ASSUME SessionInvariant, NEW w \in Workers, ReadToSweep(w)
    PROVE  SessionInvariant' /\ OwnersClaimed
<1>. DEFINE old  == session[w]
            j    == old.job
            view == View("sweep", j, jobs[j], old.status, old.answer)
<1>1. old \in Session /\ old.op = "list" /\ ViewFits(old, jobs) /\ w \in Sessions
  BY DEF SessionInvariant, SessionTypeOK, SessionsFit, ReadToSweep, Op, Sessions
<1>2. view = [old EXCEPT !.op = "sweep", !.row = jobs[j]]
  <2>. DEFINE a == [old EXCEPT !.op = "sweep"]
  <2>1. a = View("sweep", j, old.row, old.status, old.answer)
    <3>. HIDE DEF old, j
    <3>1. old = View("list", old.job, old.row, old.status, old.answer)
      BY <1>1 DEF View, Session
    <3>2. old.job = j
      BY DEF j
    <3>. QED  BY <3>1, <3>2 DEF View
  <2>2. [a EXCEPT !.row = jobs[j]] = view
    <3>. HIDE DEF a, old, j
    <3>. QED  BY <2>1 DEF View
  <2>. QED  BY <2>2
<1>3. j \in Jobs /\ jobs[j].status # "none"
  BY <1>1 DEF ViewFits
<1>4. /\ old.status \in Settled \cup {"none"} /\ "sweep" \in Ops
      /\ old.answer \in [request: Requests \cup {None}, interrupt: Interrupts \cup {None},
                         value: Values \cup {None}]
  BY <1>1 DEF Session, Ops
<1>5. Open(w, view) /\ UNCHANGED <<queueVars, beats>>
  BY <1>2 DEF ReadToSweep
<1>. HIDE DEF old, j
<1>6. view \in Session /\ ViewFits(view, jobs)
  BY <1>3, <1>4, ViewInOrder
<1>. HIDE DEF view
<1>. QED  BY <1>1, <1>5, <1>6, SessionOpened

LEMMA InvariantReadToAnswer ==
    ASSUME SessionInvariant, NEW c \in Clients, NEW j \in Jobs, NEW a \in Answer,
           ReadToAnswer(c, j, a)
    PROVE  SessionInvariant' /\ OwnersClaimed
<1>. DEFINE view == View("answer", j, jobs[j], "none", a)
<1>1. view = [Free EXCEPT !.op = "answer", !.job = j, !.row = jobs[j], !.answer = a]
  <2>. DEFINE b == [Free EXCEPT !.op = "answer", !.job = j, !.row = jobs[j]]
  <2>1. b = View("answer", j, jobs[j], "none", NoAnswer)
    BY FreeWith
  <2>2. [b EXCEPT !.answer = a] = view
    <3>. HIDE DEF b
    <3>. QED  BY <2>1 DEF View
  <2>. QED  BY <2>2
<1>2. jobs[j].status # "none" /\ "answer" \in Ops
  BY DEF ReadToAnswer, ResumeReply, Ops
<1>3. a \in [request: Requests \cup {None}, interrupt: Interrupts \cup {None},
             value: Values \cup {None}]
  BY DEF Answer
<1>4. view \in Session /\ ViewFits(view, jobs)
  BY <1>2, <1>3, ViewInOrder
<1>5. Open(c, view) /\ UNCHANGED <<queueVars, beats>> /\ c \in Sessions
  BY <1>1 DEF ReadToAnswer, Reads, Sessions
<1>. HIDE DEF view
<1>. QED  BY <1>4, <1>5, SessionOpened

LEMMA InvariantReadToBeat ==
    ASSUME SessionInvariant, NEW w \in Workers, NEW j \in Jobs, ReadToBeat(w, j)
    PROVE  SessionInvariant' /\ OwnersClaimed
<1>1. RowsFollow /\ LeasesFollow /\ HistoriesTyped
  BY RowsUntouched, LeasesUntouched
     DEF ReadToBeat, SessionInvariant, SessionTypeOK, TypeOK, HistoriesTyped, queueVars
<1>2. beats' \in [Workers -> SUBSET Jobs]
  BY DEF ReadToBeat, SessionInvariant, SessionTypeOK
<1>3. session' = session
  BY DEF ReadToBeat
<1>. QED  BY <1>1, <1>2, <1>3, TransactionKeepsInvariant

(***************************************************************************)
(* Commits.                                                                *)
(***************************************************************************)
\* A session with work to commit has read a valid row of a job that exists.
LEMMA SessionReads ==
    ASSUME SessionInvariant, NEW s \in Sessions, Op(s) \notin {"none", "list"}
    PROVE  /\ session[s].job \in Jobs
           /\ Valid(session[s].row) /\ Valid(jobs[session[s].job])
           /\ jobs[session[s].job].max = session[s].row.max
           /\ jobs[session[s].job].status # "none"
           /\ ViewFits(session[s], jobs) /\ session[s] \in Session
<1>1. session[s] \in Session /\ ViewFits(session[s], jobs)
  BY DEF SessionInvariant, SessionTypeOK, SessionsFit
<1>2. session[s].job \in Jobs /\ jobs[session[s].job].status # "none"
  BY <1>1 DEF Op, ViewFits
<1>3. Valid(jobs[session[s].job])
  BY <1>2, JobsValid DEF SessionInvariant, SessionTypeOK
<1>. QED  BY <1>1, <1>2, <1>3 DEF Op, ViewFits, Valid, Session

LEMMA RunsTyped ==
    ASSUME TypeOK, NEW j \in Jobs, NEW run \in RunRow, runs' = [runs EXCEPT ![j] = run],
           accepted' \in [Jobs -> SUBSET Answer], UNCHANGED failures
    PROVE  HistoriesTyped
BY DEF TypeOK, HistoriesTyped

LEMMA RunMoved ==
    ASSUME TypeOK, NEW j \in Jobs, NEW x \in {"queued", "running"}
    PROVE  [runs[j] EXCEPT !.status = x] \in RunRow
BY DEF TypeOK, RunRow

LEMMA BeatsTyped ==
    ASSUME SessionInvariant, UNCHANGED beats
    PROVE  beats' \in [Workers -> SUBSET Jobs]
BY DEF SessionInvariant, SessionTypeOK

\* A session that ends without writing anything.
LEMMA InvariantRolledBack ==
    ASSUME SessionInvariant, NEW s \in Sessions, Close(s), UNCHANGED queueVars, UNCHANGED beats
    PROVE  SessionInvariant' /\ OwnersClaimed
<1>1. RowsFollow /\ LeasesFollow /\ HistoriesTyped
  BY RowsUntouched, LeasesUntouched
     DEF SessionInvariant, SessionTypeOK, TypeOK, HistoriesTyped, queueVars
<1>. QED  BY <1>1, BeatsTyped, TransactionKeepsInvariant

\* The claim is the one transaction that names an owner, in both rows at once.
LEMMA InvariantCommitClaim ==
    ASSUME SessionInvariant, NEW w \in Workers, CommitClaim(w)
    PROVE  SessionInvariant' /\ OwnersClaimed
<1>. DEFINE j   == session[w].job
            new == ClaimedBy(jobs[j], w)
<1>1. w \in Sessions /\ Close(w) /\ UNCHANGED beats /\ Op(w) = "claim" /\ TypeOK
  BY DEF CommitClaim, Commits, Sessions, SessionInvariant, SessionTypeOK
<1>2. CASE ~StillClaimable(session[w].row, j)
  <2>1. UNCHANGED queueVars
    BY <1>2 DEF CommitClaim
  <2>. QED  BY <1>1, <2>1, InvariantRolledBack
<1>3. CASE StillClaimable(session[w].row, j)
  <2>1. j \in Jobs /\ Valid(jobs[j]) /\ jobs[j].status # "none"
    BY <1>1, SessionReads
  <2>2. jobs[j].status \in Queued /\ (jobs[j].status = "queued" => jobs[j].attempts < jobs[j].max)
    BY <1>3 DEF StillClaimable, Claimable
  <2>3. Valid(new) /\ new.status = "leased" /\ new.worker = w /\ new.max = jobs[j].max
    BY <2>1, <2>2, ClaimedRow
  <2>4. /\ jobs' = [jobs EXCEPT ![j] = new]
        /\ leases' = [leases EXCEPT ![j] = Activated(w)]
        /\ runs' = [runs EXCEPT ![j].status = "queued"]
        /\ UNCHANGED <<accepted, failures>>
    BY <1>3 DEF CommitClaim
  <2>. HIDE DEF j, new
  <2>5. /\ jobs' \in [Jobs -> JobRow] /\ jobs'[j] = new
        /\ \A k \in Jobs \ {j} : jobs'[k] = jobs[k]
    BY <1>1, <2>1, <2>3, <2>4 DEF TypeOK, Valid
  <2>6. Activated(w) \in LeaseRow /\ Activated(w).worker = w /\ w # None
    BY QueueAssumption DEF Activated, LeaseRow
  <2>7. /\ leases' \in [Jobs -> LeaseRow] /\ leases'[j].worker = w
        /\ \A k \in Jobs \ {j} : leases'[k] = leases[k]
    BY <1>1, <2>1, <2>4, <2>6 DEF TypeOK
  <2>8. HistoriesTyped
    BY <1>1, <2>1, <2>4, RunMoved, RunsTyped DEF TypeOK
  <2>9. /\ session' \in [Sessions -> Session]
        /\ \A s \in Sessions : session'[s] \in {session[s], Free}
    BY <1>1, FreeIsIdle DEF SessionInvariant, SessionTypeOK, Close
  <2>10. SessionTypeOK'
    <3>1. \A k \in Jobs : jobs'[k].attempts <= jobs'[k].max
      BY <1>1, <2>3, <2>5 DEF TypeOK, Valid
    <3>2. beats' \in [Workers -> SUBSET Jobs]
      BY <1>1, BeatsTyped
    <3>. QED  BY <2>5, <2>7, <2>8, <2>9, <3>1, <3>2 DEF SessionTypeOK, TypeOK, HistoriesTyped
  <2>11. OwnerHoldsLease'
    BY <2>3, <2>5, <2>7 DEF OwnerHoldsLease, SessionInvariant
  <2>12. JobsKnown'
    BY <2>3, <2>5, <2>7 DEF JobsKnown, SessionInvariant
  <2>13. \A k \in Jobs : jobs[k].status # "none" => jobs'[k].status # "none" /\ jobs'[k].max = jobs[k].max
    BY <2>3, <2>5
  <2>14. ASSUME NEW s \in Sessions PROVE ViewFits(session'[s], jobs')
    <3>1. ViewFits(session[s], jobs)
      BY DEF SessionInvariant, SessionsFit
    <3>2. ViewFits(session[s], jobs')
      BY <2>13, <3>1 DEF ViewFits
    <3>. QED  BY <2>9, <3>2, FreeIsIdle
  <2>15. SessionsFit'
    BY <2>14 DEF SessionsFit
  <2>16. OwnersClaimed
    BY <2>2, <2>5 DEF OwnersClaimed
  <2>. QED  BY <2>10, <2>11, <2>12, <2>15, <2>16 DEF SessionInvariant
<1>. QED  BY <1>2, <1>3

LEMMA InvariantCommitStart ==
    ASSUME SessionInvariant, NEW w \in Workers, CommitStart(w)
    PROVE  SessionInvariant' /\ OwnersClaimed
<1>. DEFINE j   == session[w].job
            row == session[w].row
            new == Flushed(row, [row EXCEPT !.status = "running"], jobs[j])
<1>1. w \in Sessions /\ Close(w) /\ UNCHANGED beats /\ Op(w) = "start" /\ TypeOK
  BY DEF CommitStart, Commits, Sessions, SessionInvariant, SessionTypeOK
<1>2. /\ j \in Jobs /\ Valid(row) /\ Valid(jobs[j]) /\ jobs[j].max = row.max /\ jobs[j].status # "none"
  BY <1>1, SessionReads
<1>3. /\ jobs' = [jobs EXCEPT ![j] = new]
      /\ runs' = [runs EXCEPT ![j].status = "running"]
      /\ UNCHANGED <<leases, accepted, failures>>
  BY DEF CommitStart
<1>4. Follows(jobs[j], new)
  <2>. HIDE DEF j, row
  <2>. QED  BY <1>2, StartedRow, FlushedFollows
<1>. HIDE DEF j, new
<1>5. RowsFollow /\ LeasesFollow
  BY <1>1, <1>2, <1>3, <1>4, OneRowWritten, LeasesUntouched
<1>6. HistoriesTyped
  BY <1>1, <1>2, <1>3, RunMoved, RunsTyped DEF TypeOK
<1>. QED  BY <1>1, <1>5, <1>6, BeatsTyped, TransactionKeepsInvariant

LEMMA InvariantCommitBeat ==
    ASSUME SessionInvariant, NEW w \in Workers, NEW j \in Jobs, CommitBeat(w, j)
    PROVE  SessionInvariant' /\ OwnersClaimed
<1>. DEFINE x == IF leases[j].status = "active" THEN LeaseTerm ELSE leases[j].left
<1>1. leases' = [leases EXCEPT ![j].left = x]
  BY DEF CommitBeat, SessionInvariant, SessionTypeOK, TypeOK
<1>2. x \in Nat
  BY QueueAssumption DEF SessionInvariant, SessionTypeOK, TypeOK, LeaseRow
<1>. HIDE DEF x
<1>3. LeasesFollow
  BY <1>1, <1>2 DEF LeasesFollow, SessionInvariant, SessionTypeOK, TypeOK, LeaseRow
<1>4. RowsFollow /\ HistoriesTyped
  BY RowsUntouched DEF CommitBeat, SessionInvariant, SessionTypeOK, TypeOK, HistoriesTyped
<1>5. beats' \in [Workers -> SUBSET Jobs] /\ session' = session
  BY DEF CommitBeat, SessionInvariant, SessionTypeOK
<1>. QED  BY <1>3, <1>4, <1>5, TransactionKeepsInvariant

LEMMA InvariantCommitFinish ==
    ASSUME SessionInvariant, NEW w \in Workers, CommitFinish(w)
    PROVE  SessionInvariant' /\ OwnersClaimed
<1>. DEFINE j      == session[w].job
            row    == session[w].row
            status == session[w].status
            i      == session[w].answer.interrupt
            new    == Flushed(row, FinishedAs(row, status, i), jobs[j])
            run    == [status |-> status, finished |-> runs[j].finished \/ status \in Terminal]
<1>1. w \in Sessions /\ Close(w) /\ UNCHANGED beats /\ Op(w) = "finish" /\ TypeOK
  BY DEF CommitFinish, Commits, Sessions, SessionInvariant, SessionTypeOK
<1>2. /\ j \in Jobs /\ Valid(row) /\ Valid(jobs[j]) /\ jobs[j].max = row.max /\ jobs[j].status # "none"
      /\ ViewFits(session[w], jobs)
  BY <1>1, SessionReads
<1>3. CASE ~HoldsLease(w, j)
  <2>1. UNCHANGED queueVars
    BY <1>3 DEF CommitFinish
  <2>. QED  BY <1>1, <2>1, InvariantRolledBack
<1>4. CASE HoldsLease(w, j)
  <2>1. /\ jobs' = [jobs EXCEPT ![j] = new]
        /\ leases' = [leases EXCEPT ![j] = Closed(@, "released")]
        /\ runs' = [runs EXCEPT ![j] = run]
        /\ UNCHANGED <<accepted, failures>>
    BY <1>4 DEF CommitFinish
  <2>2. Outcome(status, i)
    BY <1>1, <1>2 DEF ViewFits, Op
  <2>3. Follows(jobs[j], new)
    <3>. HIDE DEF j, row, status, i
    <3>. QED  BY <1>2, <2>2, FinishedRow, FlushedFollows
  <2>4. run \in RunRow
    <3>1. status \in Settled
      BY <2>2 DEF Outcome, Settled
    <3>. QED  BY <3>1 DEF RunRow
  <2>. HIDE DEF j, new, run
  <2>5. RowsFollow
    BY <1>1, <1>2, <2>1, <2>3, OneRowWritten
  <2>6. LeasesFollow
    BY <1>1, <1>2, <2>1, LeaseClosed
  <2>7. HistoriesTyped
    BY <1>1, <1>2, <2>1, <2>4, RunsTyped DEF TypeOK
  <2>. QED  BY <1>1, <2>5, <2>6, <2>7, BeatsTyped, TransactionKeepsInvariant
<1>. QED  BY <1>3, <1>4

LEMMA FailureWritten ==
    ASSUME TypeOK, NEW j \in Jobs, NEW row, NEW delay \in Nat, Valid(row),
           jobs[j].max = row.max, jobs[j].status # "none", WriteFailure(j, row, delay)
    PROVE  RowsFollow /\ HistoriesTyped
<1>. DEFINE new == FlushedDue(row, AfterFailure(row, delay), jobs[j])
            run == RunAfterFailure(row, runs[j])
<1>1. /\ jobs' = [jobs EXCEPT ![j] = new]
      /\ runs' = [runs EXCEPT ![j] = run]
      /\ UNCHANGED <<accepted, failures>>
  BY DEF WriteFailure
<1>2. Follows(jobs[j], new)
  BY JobsValid, RowAfterFailure, FlushedDueFollows
<1>3. run \in RunRow
  <2>1. runs[j] \in RunRow
    BY DEF TypeOK
  <2>2. /\ [runs[j] EXCEPT !.status = "queued"] \in RunRow
        /\ [runs[j] EXCEPT !.status = "failed", !.finished = TRUE] \in RunRow
    BY <2>1 DEF RunRow, Settled, Terminal
  <2>. QED  BY <2>2 DEF RunAfterFailure
<1>. HIDE DEF new, run
<1>4. RowsFollow
  BY <1>1, <1>2, OneRowWritten
<1>5. HistoriesTyped
  BY <1>1, <1>3, RunsTyped DEF TypeOK
<1>. QED  BY <1>4, <1>5

LEMMA InvariantCommitFail ==
    ASSUME SessionInvariant, NEW w \in Workers, CommitFail(w)
    PROVE  SessionInvariant' /\ OwnersClaimed
<1>. DEFINE j   == session[w].job
            row == session[w].row
<1>1. w \in Sessions /\ Close(w) /\ UNCHANGED beats /\ Op(w) = "fail" /\ TypeOK
  BY DEF CommitFail, Commits, Sessions, SessionInvariant, SessionTypeOK
<1>2. /\ j \in Jobs /\ Valid(row) /\ jobs[j].max = row.max /\ jobs[j].status # "none"
  BY <1>1, SessionReads
<1>3. CASE ~HoldsLease(w, j)
  <2>1. UNCHANGED queueVars
    BY <1>3 DEF CommitFail
  <2>. QED  BY <1>1, <2>1, InvariantRolledBack
<1>4. CASE HoldsLease(w, j)
  <2>1. WriteFailure(j, row, RetryDelay) /\ leases' = [leases EXCEPT ![j] = Closed(@, "released")]
    BY <1>4 DEF CommitFail
  <2>. HIDE DEF j, row
  <2>2. RowsFollow /\ HistoriesTyped
    BY <1>1, <1>2, <2>1, FailureWritten, QueueAssumption
  <2>3. LeasesFollow
    BY <1>1, <1>2, <2>1, LeaseClosed
  <2>. QED  BY <1>1, <2>2, <2>3, BeatsTyped, TransactionKeepsInvariant
<1>. QED  BY <1>3, <1>4

LEMMA InvariantCommitSweep ==
    ASSUME SessionInvariant, NEW w \in Workers, CommitSweep(w)
    PROVE  SessionInvariant' /\ OwnersClaimed
<1>. DEFINE j   == session[w].job
            row == session[w].row
<1>1. w \in Sessions /\ Close(w) /\ UNCHANGED beats /\ Op(w) = "sweep" /\ TypeOK
  BY DEF CommitSweep, Commits, Sessions, SessionInvariant, SessionTypeOK
<1>2. /\ j \in Jobs /\ Valid(row) /\ jobs[j].max = row.max /\ jobs[j].status # "none"
  BY <1>1, SessionReads
<1>3. leases' = [leases EXCEPT ![j] = Closed(@, "expired")]
  BY DEF CommitSweep
<1>4. UNCHANGED <<jobs, runs, accepted, failures>> \/ WriteFailure(j, row, 0)
  BY DEF CommitSweep
<1>. HIDE DEF j, row
<1>5. LeasesFollow
  BY <1>1, <1>2, <1>3, LeaseClosed
<1>6. RowsFollow /\ HistoriesTyped
  <2>1. CASE UNCHANGED <<jobs, runs, accepted, failures>>
    BY <1>1, <2>1, RowsUntouched DEF TypeOK, HistoriesTyped
  <2>2. CASE WriteFailure(j, row, 0)
    BY <1>1, <1>2, <2>2, FailureWritten
  <2>. QED  BY <1>4, <2>1, <2>2
<1>. QED  BY <1>1, <1>5, <1>6, BeatsTyped, TransactionKeepsInvariant

LEMMA InvariantCommitAnswer ==
    ASSUME SessionInvariant, NEW c \in Clients, CommitAnswer(c)
    PROVE  SessionInvariant' /\ OwnersClaimed
<1>. DEFINE j   == session[c].job
            row == session[c].row
            a   == session[c].answer
            new == FlushedDue(row, Answered(row, a), jobs[j])
<1>1. c \in Sessions /\ Close(c) /\ UNCHANGED beats /\ Op(c) = "answer" /\ TypeOK
  BY DEF CommitAnswer, Commits, Sessions, SessionInvariant, SessionTypeOK
<1>2. /\ j \in Jobs /\ Valid(row) /\ Valid(jobs[j]) /\ jobs[j].max = row.max /\ jobs[j].status # "none"
      /\ ViewFits(session[c], jobs)
  BY <1>1, SessionReads
<1>3. a \in Answer
  BY <1>1, <1>2 DEF ViewFits, Op
<1>4. /\ jobs' = [jobs EXCEPT ![j] = new]
      /\ runs' = [runs EXCEPT ![j].status = "queued"]
      /\ accepted' = [accepted EXCEPT ![j] = accepted[j] \cup {a}]
      /\ UNCHANGED <<leases, failures>>
  BY DEF CommitAnswer
<1>5. Follows(jobs[j], new)
  <2>. HIDE DEF j, row, a
  <2>. QED  BY <1>2, <1>3, AnsweredRow, FlushedDueFollows
<1>. HIDE DEF j, new, a
<1>6. RowsFollow /\ LeasesFollow
  BY <1>1, <1>2, <1>4, <1>5, OneRowWritten, LeasesUntouched
<1>7. HistoriesTyped
  <2>1. accepted' \in [Jobs -> SUBSET Answer]
    BY <1>1, <1>2, <1>3, <1>4 DEF TypeOK
  <2>. QED  BY <1>1, <1>2, <1>4, <2>1, RunMoved, RunsTyped DEF TypeOK
<1>. QED  BY <1>1, <1>6, <1>7, BeatsTyped, TransactionKeepsInvariant

(***************************************************************************)
(* Submission and time.                                                    *)
(***************************************************************************)
LEMMA NewJobFollows ==
    ASSUME NEW row, row.status = "none", NEW limit \in AttemptLimits
    PROVE  Follows(row, NewJob(limit))
<1>1. NewJob(limit).worker = None
  BY DEF NewJob, NoJob
<1>2. Valid(NewJob(limit))
  BY NewJobOK DEF JobOK, Valid
<1>. QED  BY <1>1, <1>2 DEF Follows

LEMMA InvariantSubmission ==
    ASSUME SessionInvariant, Submission
    PROVE  SessionInvariant' /\ OwnersClaimed
<1>1. PICK j \in Jobs, limit \in AttemptLimits : Enqueue(j, limit)
  BY DEF Submission
<1>2. TypeOK /\ UNCHANGED <<session, beats>>
  BY DEF Submission, SessionInvariant, SessionTypeOK
<1>3. /\ jobs[j].status = "none" /\ jobs' = [jobs EXCEPT ![j] = NewJob(limit)]
      /\ runs' = [runs EXCEPT ![j].status = "queued"]
      /\ UNCHANGED <<leases, accepted, failures>>
  BY <1>1 DEF Enqueue
<1>4. Follows(jobs[j], NewJob(limit))
  BY <1>3, NewJobFollows
<1>5. RowsFollow /\ LeasesFollow
  BY <1>2, <1>3, <1>4, OneRowWritten, LeasesUntouched
<1>6. HistoriesTyped
  BY <1>2, <1>3, RunMoved, RunsTyped DEF TypeOK
<1>. QED  BY <1>2, <1>5, <1>6, BeatsTyped, TransactionKeepsInvariant

LEMMA InvariantTick ==
    ASSUME SessionInvariant, Tick, UNCHANGED <<session, beats>>
    PROVE  SessionInvariant' /\ OwnersClaimed
<1>1. TypeOK
  BY DEF SessionInvariant, SessionTypeOK
<1>2. ASSUME NEW j \in Jobs PROVE Follows(jobs[j], jobs'[j]) /\ jobs'[j] \in JobRow
  <2>1. jobs'[j] = jobs[j] \/ jobs'[j] = [jobs[j] EXCEPT !.due = jobs[j].due + 1]
    BY DEF Tick
  <2>2. Valid(jobs[j]) /\ Follows(jobs[j], jobs[j])
    BY <1>1, JobsValid
  <2>. DEFINE new == [jobs[j] EXCEPT !.due = jobs[j].due + 1]
  <2>3. new \in JobRow
    BY <2>2, ColumnUpdates DEF Valid, JobRow
  <2>4. /\ new.status = jobs[j].status /\ new.worker = jobs[j].worker
        /\ new.attempts = jobs[j].attempts /\ new.max = jobs[j].max
    BY <2>2 DEF Valid, JobRow
  <2>5. Follows(jobs[j], new)
    <3>. HIDE DEF new
    <3>. QED  BY <2>2, <2>3, <2>4 DEF Follows, Valid
  <2>. QED  BY <2>1, <2>2, <2>3, <2>5 DEF Valid
<1>3. RowsFollow
  BY <1>2 DEF Tick, RowsFollow
<1>4. ASSUME NEW j \in Jobs
      PROVE  /\ leases'[j] \in LeaseRow /\ leases'[j].worker = leases[j].worker
             /\ leases'[j].status = leases[j].status
  <2>1. leases[j] \in LeaseRow
    BY <1>1 DEF TypeOK
  <2>2. leases'[j] = IF Running(j) THEN [leases[j] EXCEPT !.left = @ - 1] ELSE leases[j]
    BY DEF Tick
  <2>3. CASE Running(j)
    <3>1. leases[j].left - 1 \in Nat
      BY <2>1, <2>3 DEF LeaseRow, Running
    <3>2. leases'[j] = [leases[j] EXCEPT !.left = leases[j].left - 1]
      BY <2>2, <2>3
    <3>. QED  BY <2>1, <3>1, <3>2 DEF LeaseRow
  <2>4. CASE ~Running(j)
    BY <2>1, <2>2, <2>4
  <2>. QED  BY <2>3, <2>4
<1>5. LeasesFollow
  BY <1>4 DEF Tick, LeasesFollow
<1>6. HistoriesTyped
  BY <1>1 DEF Tick, TypeOK, HistoriesTyped
<1>. QED  BY <1>3, <1>5, <1>6, BeatsTyped, TransactionKeepsInvariant

-----------------------------------------------------------------------------
LEMMA InvariantSessionInit ==
    ASSUME SessionInit
    PROVE  SessionInvariant
<1>1. ASSUME NEW j \in Jobs
      PROVE  /\ jobs[j] = NoJob /\ leases[j] = NoLease
             /\ NoJob \in JobRow /\ NoLease \in LeaseRow /\ NoRun \in RunRow
             /\ NoJob.attempts <= NoJob.max
  BY NoJobOK DEF SessionInit, Init, JobOK
<1>2. TypeOK
  BY <1>1 DEF SessionInit, Init, TypeOK
<1>3. SessionTypeOK
  BY <1>2, FreeIsIdle DEF SessionInit, SessionTypeOK
<1>4. OwnerHoldsLease /\ JobsKnown
  BY <1>1 DEF OwnerHoldsLease, JobsKnown, NoJob, NoLease
<1>5. SessionsFit
  BY FreeIsIdle DEF SessionInit, SessionsFit
<1>. QED  BY <1>3, <1>4, <1>5 DEF SessionInvariant

LEMMA InvariantWorkerReads ==
    ASSUME SessionInvariant, NEW w \in Workers, WorkerReads(w)
    PROVE  SessionInvariant' /\ OwnersClaimed
<1>1. ASSUME NEW j \in Jobs, ReadCandidate(w, j) PROVE SessionInvariant' /\ OwnersClaimed
  <2>1. jobs[j].status # "none" /\ "claim" \in Ops \ {"finish", "answer"}
    BY <1>1 DEF ReadCandidate, NextInLine, Claimable, Queued, Ops
  <2>. QED  BY <1>1, <2>1, InvariantSimpleRead DEF ReadCandidate
<1>2. ASSUME NEW j \in Jobs, ReadToStart(w, j) PROVE SessionInvariant' /\ OwnersClaimed
  <2>1. jobs[j].status # "none" /\ "start" \in Ops \ {"finish", "answer"}
    BY <1>2 DEF ReadToStart, CanMarkRunning, Ops
  <2>. QED  BY <1>2, <2>1, InvariantSimpleRead DEF ReadToStart
<1>3. ASSUME NEW j \in Jobs, ReadToFail(w, j) PROVE SessionInvariant' /\ OwnersClaimed
  <2>1. jobs[j].status # "none" /\ "fail" \in Ops \ {"finish", "answer"}
    BY <1>3 DEF ReadToFail, Ops
  <2>. QED  BY <1>3, <2>1, InvariantSimpleRead DEF ReadToFail
<1>. QED
  BY <1>1, <1>2, <1>3, InvariantReadToBeat, InvariantReadToFinish, InvariantListExpired,
     InvariantReadToSweep DEF WorkerReads

LEMMA InvariantSessionNext ==
    ASSUME SessionInvariant, [SessionNext]_sessionVars
    PROVE  SessionInvariant' /\ OwnersClaimed
<1>1. ASSUME NEW w \in Workers, WorkerCommits(w) PROVE SessionInvariant' /\ OwnersClaimed
  BY <1>1, InvariantCommitClaim, InvariantCommitStart, InvariantCommitBeat, InvariantCommitFinish,
     InvariantCommitFail, InvariantCommitSweep DEF WorkerCommits
<1>2. ASSUME NEW c \in Clients, ClientSession(c) PROVE SessionInvariant' /\ OwnersClaimed
  BY <1>2, InvariantReadToAnswer, InvariantCommitAnswer DEF ClientSession
<1>3. CASE UNCHANGED sessionVars
  <2>1. RowsFollow /\ LeasesFollow /\ HistoriesTyped /\ session' = session
    BY <1>3, RowsUntouched, LeasesUntouched
       DEF SessionInvariant, SessionTypeOK, TypeOK, HistoriesTyped, queueVars, sessionVars
  <2>2. UNCHANGED beats
    BY <1>3 DEF sessionVars
  <2>. QED  BY <2>1, <2>2, BeatsTyped, TransactionKeepsInvariant
<1>. QED
  BY <1>1, <1>2, <1>3, InvariantWorkerReads, InvariantSubmission, InvariantTick DEF SessionNext

\* Whatever the sessions of the queue interleave, rows stay valid, a session
\* works on a job that exists and whose limit it knows, and the owner a job
\* names is the one its lease names.  (repositories.py)
THEOREM SessionsKeepInvariant == SessionSpec => []SessionInvariant
BY InvariantSessionInit, InvariantSessionNext, PTL DEF SessionSpec

\* Rows keep the types and the limit the CHECK constraints demand, although
\* sessions flush columns over rows they have not read again.
THEOREM SessionTypesAreKept == SessionSpec => []SessionTypeOK
<1>1. SessionInvariant => SessionTypeOK
  BY DEF SessionInvariant
<1>. QED  BY <1>1, SessionsKeepInvariant, PTL

\* A job's owner and its lease's worker are the same, which is what lets
\* release tell a worker that lost its lease.
THEOREM OwnersHoldLeases == SessionSpec => []OwnerHoldsLease
<1>1. SessionInvariant => OwnerHoldsLease
  BY DEF SessionInvariant
<1>. QED  BY <1>1, SessionsKeepInvariant, PTL

(***************************************************************************)
(* What a step never does.                                                 *)
(***************************************************************************)
\* No two sessions that read the same queued job both get it: a worker's name
\* is written into queued rows only, because claim_next repeats its condition
\* in the UPDATE.
THEOREM ClaimsTakeQueuedJobs == SessionSpec => ClaimsComeFromQueue
<1>1. SessionInvariant /\ [SessionNext]_sessionVars =>
          [\A j \in Jobs :
               jobs'[j].worker \notin {None, jobs[j].worker}
                   => jobs[j].status \in Queued]_sessionVars
  BY InvariantSessionNext DEF OwnersClaimed
<1>. QED  BY <1>1, SessionsKeepInvariant, PTL DEF SessionSpec, ClaimsComeFromQueue

\* A worker's result is written only where the job still names the worker.
ResultIsOwn(w) ==
    Op(w) \in {"finish", "fail"} /\ session'[w] = Free /\ jobs' # jobs
        => jobs[session[w].job].worker \in {None, w}

LEMMA SessionOfOthers ==
    ASSUME SessionInvariant, NEW w \in Workers, NEW s \in Sessions, s # w,
           Op(w) # "none", session'[w] = Free,
           NEW view, session' = [session EXCEPT ![s] = view]
    PROVE  FALSE
<1>1. session'[w] = session[w]
  BY DEF SessionInvariant, SessionTypeOK, Sessions
<1>. QED  BY <1>1 DEF Op, Free

LEMMA StepsWriteOwnResults ==
    ASSUME SessionInvariant, [SessionNext]_sessionVars, NEW w \in Workers
    PROVE  ResultIsOwn(w)
<1>. SUFFICES ASSUME Op(w) \in {"finish", "fail"}, session'[w] = Free, jobs' # jobs
              PROVE  jobs[session[w].job].worker \in {None, w}
  BY DEF ResultIsOwn
<1>. DEFINE j == session[w].job
<1>0. w \in Sessions /\ session[w] # Free /\ j \in Jobs
  BY SessionReads DEF Op, Free, Sessions
<1>1. ASSUME HoldsLease(w, j) PROVE jobs[j].worker \in {None, w}
  BY <1>0, <1>1 DEF HoldsLease, SessionInvariant, OwnerHoldsLease
<1>2. session' # session
  BY <1>0
<1>3. PICK s \in Sessions : \E view : session' = [session EXCEPT ![s] = view]
                                      /\ (CommitClaim(s) \/ CommitStart(s) \/ CommitFinish(s)
                                          \/ CommitFail(s) \/ CommitSweep(s) \/ CommitAnswer(s))
  <2>1. PICK s \in Sessions : CommitClaim(s) \/ CommitStart(s) \/ CommitFinish(s)
                              \/ CommitFail(s) \/ CommitSweep(s) \/ CommitAnswer(s)
    <3>1. ~ UNCHANGED sessionVars /\ ~Submission /\ ~(Tick /\ UNCHANGED <<session, beats>>)
      BY <1>2 DEF Submission, sessionVars
    <3>2. \A v \in Workers : ~WorkerReads(v)
      BY DEF WorkerReads, ReadCandidate, ReadToStart, ReadToBeat, ReadToFinish, ReadToFail,
         ListExpired, ReadToSweep, Reads, queueVars
    <3>3. \A c \in Clients, k \in Jobs, a \in Answer : ~ReadToAnswer(c, k, a)
      BY DEF ReadToAnswer, Reads, queueVars
    <3>4. \A v \in Workers, k \in Jobs : ~CommitBeat(v, k)
      BY DEF CommitBeat
    <3>5. (\E v \in Workers : WorkerCommits(v)) \/ (\E c \in Clients : ClientSession(c))
      BY <3>1, <3>2 DEF SessionNext
    <3>. QED  BY <3>3, <3>4, <3>5 DEF WorkerCommits, ClientSession, Sessions
  <2>2. session' = [session EXCEPT ![s] = Free]
    BY <2>1 DEF CommitClaim, CommitStart, CommitFinish, CommitFail, CommitSweep, CommitAnswer,
       Commits, Close
  <2>. QED  BY <2>1, <2>2
<1>4. s = w
  BY <1>3, SessionOfOthers
<1>5. CommitFinish(w) \/ CommitFail(w)
  BY <1>3, <1>4 DEF CommitClaim, CommitStart, CommitSweep, CommitAnswer, Commits
<1>6. HoldsLease(w, j)
  BY <1>5 DEF CommitFinish, CommitFail, queueVars
<1>. QED  BY <1>1, <1>6

\* A result or a failure reaches the table only from the worker that owns the
\* execution, or when nobody does: release is the last call of both
\* transactions and compares the workers.
THEOREM ResultsAreOwn == SessionSpec => NoForeignResult
<1>1. SessionInvariant /\ [SessionNext]_sessionVars =>
          [\A w \in Workers :
               Op(w) \in {"finish", "fail"} /\ session'[w] = Free /\ jobs' # jobs
                   => jobs[session[w].job].worker \in {None, w}]_sessionVars
  BY StepsWriteOwnResults DEF ResultIsOwn
<1>. QED  BY <1>1, SessionsKeepInvariant, PTL DEF SessionSpec, NoForeignResult
=============================================================================
