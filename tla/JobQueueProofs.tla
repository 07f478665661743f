--------------------------- MODULE JobQueueProofs ---------------------------
(***************************************************************************)
(* The invariants of JobQueue and that it implements JobLifecycle, proved  *)
(* for every set of jobs, workers, requests, interrupts and values and     *)
(* every retry limit.                                                      *)
(*                                                                         *)
(* All rows a transaction touches belong to one job, so the argument is    *)
(* made for one job: JobOK relates the five rows of a job, a lemma per     *)
(* repository operation shows that the operation preserves it, and the     *)
(* step lemma applies them job by job.                                     *)
(***************************************************************************)
EXTENDS JobQueueRefinement, FiniteSetTheorems, TLAPS

JobOK(row, lease, run, answers, failed) ==
    /\ row \in JobRow /\ row.attempts <= row.max
    /\ lease \in LeaseRow
    /\ run \in RunRow
    /\ answers \in SUBSET Answer
    /\ failed \in Nat
    /\ LeaseMatches(row, lease)
    /\ AnswerFits(row)
    /\ BudgetKept(row, failed)
    /\ AnswersCounted(row, answers)
    /\ RunMirrors(row, run)
    /\ HistoryFits(row, answers, failed)

OK(j) == JobOK(jobs[j], leases[j], runs[j], accepted[j], failures[j])

Shape ==
    /\ jobs = [j \in Jobs |-> jobs[j]]
    /\ leases = [j \in Jobs |-> leases[j]]
    /\ runs = [j \in Jobs |-> runs[j]]
    /\ accepted = [j \in Jobs |-> accepted[j]]
    /\ failures = [j \in Jobs |-> failures[j]]

\* The invariant, job by job.
LEMMA InvariantIsPerJob ==
    QueueInvariant <=> Shape /\ \A j \in Jobs : OK(j)
<1>1. QueueInvariant => Shape /\ \A j \in Jobs : OK(j)
  BY DEF QueueInvariant, TypeOK, LeaseMatchesJob, AnswerInOrder,
         AttemptsCountFailures, EachAnswerCountedOnce, RunMirrorsJob,
         Shape, OK, JobOK
<1>2. Shape /\ (\A j \in Jobs : OK(j)) => QueueInvariant
  BY DEF QueueInvariant, TypeOK, LeaseMatchesJob, AnswerInOrder,
         AttemptsCountFailures, EachAnswerCountedOnce, RunMirrorsJob,
         Shape, OK, JobOK
<1> QED BY <1>1, <1>2

-----------------------------------------------------------------------------
(***************************************************************************)
(* One lemma per repository operation.                                     *)
(***************************************************************************)
\* A column may be given any value of its type, one after the other.
LEMMA ColumnUpdates ==
    ASSUME NEW row \in JobRow
    PROVE  /\ \A x \in JobStatus : [row EXCEPT !.status = x] \in JobRow
           /\ \A x \in Workers \cup {None} :
                  [row EXCEPT !.worker = x] \in JobRow
           /\ \A x \in Nat : [row EXCEPT !.attempts = x] \in JobRow
           /\ \A x \in Nat : [row EXCEPT !.max = x] \in JobRow
           /\ \A x \in Nat : [row EXCEPT !.resumes = x] \in JobRow
           /\ \A x \in Interrupts \cup {None} :
                  [row EXCEPT !.interrupt = x] \in JobRow
           /\ \A x \in ResumeStatus :
                  [row EXCEPT !.resume.status = x] \in JobRow
           /\ \A x \in Int : [row EXCEPT !.due = x] \in JobRow
  BY DEF JobRow, JobStatus, ResumeStatus

\* A row that does not exist yet is in order.
LEMMA NoJobOK == JobOK(NoJob, NoLease, NoRun, {}, 0)
<1>1. Cardinality({}) = 0 /\ IsFiniteSet({})
  BY FS_EmptySet
<1>2. NoJob \in JobRow
  BY DEF NoJob, NoResume, JobRow, JobStatus, ResumeStatus
<1> QED
  BY <1>1, <1>2 DEF JobOK, NoJob, NoLease, NoRun, NoResume, LeaseRow, RunRow,
     LeaseMatches, AnswerFits, BudgetKept, AnswersCounted, UncountedAnswers,
     RunMirrors, HistoryFits, ResumePending, Queued, Owned, Settled, Terminal

\* A fresh row is in order.
LEMMA NewJobOK ==
    ASSUME NEW limit \in AttemptLimits
    PROVE  JobOK(NewJob(limit), NoLease, [NoRun EXCEPT !.status = "queued"],
                 {}, 0)
<1> DEFINE a   == [NoJob EXCEPT !.status = "queued"]
           row == NewJob(limit)
           run == [NoRun EXCEPT !.status = "queued"]
<1>1. limit \in Nat /\ limit > 0
  BY QueueAssumption
<1>2. Cardinality({}) = 0 /\ IsFiniteSet({})
  BY FS_EmptySet
<1>3. row \in JobRow
  <2>1. a \in JobRow
    BY NoJobOK, ColumnUpdates DEF JobOK, JobStatus, Queued
  <2>2. [a EXCEPT !.max = limit] \in JobRow
    <3> HIDE DEF a
    <3> QED BY <1>1, <2>1, ColumnUpdates
  <2> QED BY <2>2 DEF NewJob
<1>4. /\ row.status = "queued" /\ row.worker = None /\ row.attempts = 0
      /\ row.max = limit /\ row.resumes = 0 /\ row.interrupt = None
      /\ row.resume.status = "none"
  BY DEF NewJob, NoJob, NoResume
<1>5. run \in RunRow /\ run.status = "queued" /\ run.finished = FALSE
  BY DEF NoRun, RunRow
<1>6. NoLease \in LeaseRow /\ NoLease.status = "none"
  BY DEF NoLease, LeaseRow
<1>7. JobOK(row, NoLease, run, {}, 0)
  <2> HIDE DEF row, run
  <2> QED
    BY <1>1, <1>2, <1>3, <1>4, <1>5, <1>6 DEF JobOK, LeaseMatches,
       AnswerFits, BudgetKept, AnswersCounted, UncountedAnswers, RunMirrors,
       HistoryFits, Given, ResumePending, Queued, Owned, Settled, Terminal
<1> QED BY <1>7

\* A claim: queue_resume left the answer pending, requeue or enqueue left an
\* attempt to spend.
LEMMA ClaimOK ==
    ASSUME NEW row, NEW lease, NEW run, NEW answers, NEW failed,
           JobOK(row, lease, run, answers, failed),
           NEW w \in Workers, row.status \in Queued
    PROVE  JobOK(ClaimedBy(row, w), Activated(w),
                 [run EXCEPT !.status = "queued"], answers, failed)
<1> DEFINE n   == IF row.status = "queued" THEN row.attempts + 1
                                           ELSE row.attempts
           a   == [row EXCEPT !.status = "leased"]
           b   == [a EXCEPT !.worker = w]
           c   == [b EXCEPT !.due = 0]
           d   == [c EXCEPT !.attempts = n]
           new == ClaimedBy(row, w)
           lse == Activated(w)
           rn  == [run EXCEPT !.status = "queued"]
<1>1. row \in JobRow /\ run \in RunRow /\ w # None /\ n \in Nat
  BY QueueAssumption DEF JobOK, JobRow
<1>2. new \in JobRow
  <2>1. a \in JobRow
    BY <1>1, ColumnUpdates DEF JobStatus, Owned
  <2>2. b \in JobRow
    <3> HIDE DEF a
    <3> QED BY <2>1, ColumnUpdates
  <2>3. c \in JobRow
    <3> HIDE DEF b
    <3> QED BY <2>2, ColumnUpdates
  <2>4. d \in JobRow
    <3> HIDE DEF c, n
    <3> QED BY <1>1, <2>3, ColumnUpdates
  <2> QED BY <1>1, <2>4 DEF ClaimedBy, JobRow
<1>3. /\ new.status = "leased" /\ new.worker = w /\ new.attempts = n
      /\ new.max = row.max /\ new.resumes = row.resumes
      /\ new.interrupt = row.interrupt /\ new.resume = row.resume
  BY <1>1 DEF ClaimedBy, JobRow
<1>4. lse \in LeaseRow /\ lse.status = "active" /\ lse.worker = w
  BY QueueAssumption DEF Activated, LeaseRow
<1>5. rn \in RunRow /\ rn.status = "queued" /\ rn.finished = run.finished
  BY <1>1 DEF RunRow
<1>6. JobOK(new, lse, rn, answers, failed)
  <2> HIDE DEF new, lse, rn
  <2> QED
    BY <1>1, <1>2, <1>3, <1>4, <1>5 DEF JobOK, LeaseMatches, AnswerFits,
       BudgetKept, AnswersCounted, UncountedAnswers, RunMirrors, HistoryFits,
       Given, ResumePending, Queued, Owned, Settled, Terminal, JobRow
<1> QED BY <1>6

\* Starting moves the job and its run and nothing else.
LEMMA MarkRunningOK ==
    ASSUME NEW row, NEW lease, NEW run, NEW answers, NEW failed,
           JobOK(row, lease, run, answers, failed),
           row.status = "leased"
    PROVE  JobOK([row EXCEPT !.status = "running"], lease,
                 [run EXCEPT !.status = "running"], answers, failed)
<1> DEFINE new == [row EXCEPT !.status = "running"]
           rn  == [run EXCEPT !.status = "running"]
<1>1. row \in JobRow /\ run \in RunRow
  BY DEF JobOK
<1>2. new \in JobRow
  BY <1>1, ColumnUpdates DEF JobStatus, Owned
<1>3. /\ new.status = "running" /\ new.worker = row.worker
      /\ new.attempts = row.attempts
      /\ new.max = row.max /\ new.resumes = row.resumes
      /\ new.interrupt = row.interrupt /\ new.resume = row.resume
  BY <1>1 DEF JobRow
<1>4. rn \in RunRow /\ rn.status = "running" /\ rn.finished = run.finished
  BY <1>1 DEF RunRow
<1>5. JobOK(new, lease, rn, answers, failed)
  <2> HIDE DEF new, rn
  <2> QED
    BY <1>1, <1>2, <1>3, <1>4 DEF JobOK, LeaseMatches, AnswerFits,
       BudgetKept, AnswersCounted, UncountedAnswers, RunMirrors, HistoryFits,
       Given, ResumePending, Queued, Owned, Settled, Terminal, JobRow
<1> QED BY <1>5

\* A finish: the answer it consumed is counted, and a new interrupt is one
\* that nobody has answered.
LEMMA FinishOK ==
    ASSUME NEW row, NEW lease, NEW run, NEW answers, NEW failed,
           JobOK(row, lease, run, answers, failed),
           row.status \in Owned,
           NEW status, NEW interrupt,
           Outcome(status, interrupt),
           \A a \in answers : a.interrupt # interrupt
    PROVE  JobOK(FinishedAs(row, status, interrupt), Closed(lease, "released"),
                 [status   |-> status,
                  finished |-> run.finished \/ status \in Terminal],
                 answers, failed)
<1> DEFINE p   == ResumePending(row)
           s   == IF p THEN "applied" ELSE row.resume.status
           n   == IF p THEN row.resumes + 1 ELSE row.resumes
           a   == [row EXCEPT !.status = status]
           b   == [a EXCEPT !.worker = None]
           c   == [b EXCEPT !.interrupt = interrupt]
           d   == [c EXCEPT !.resume.status = s]
           e   == [d EXCEPT !.resumes = n]
           new == FinishedAs(row, status, interrupt)
           lse == Closed(lease, "released")
           rn  == [status   |-> status,
                   finished |-> run.finished \/ status \in Terminal]
<1>1. /\ row \in JobRow /\ run \in RunRow /\ lease \in LeaseRow
      /\ s \in ResumeStatus /\ n \in Nat
      /\ status \in Settled /\ interrupt \in Interrupts \cup {None}
  BY DEF JobOK, JobRow, ResumeStatus, Outcome, Settled
<1>2. new \in JobRow
  <2>1. a \in JobRow
    BY <1>1, ColumnUpdates DEF JobStatus
  <2>2. b \in JobRow
    <3> HIDE DEF a
    <3> QED BY <2>1, ColumnUpdates
  <2>3. c \in JobRow
    <3> HIDE DEF b
    <3> QED BY <1>1, <2>2, ColumnUpdates
  <2>4. d \in JobRow
    <3> HIDE DEF c, s
    <3> QED BY <1>1, <2>3, ColumnUpdates
  <2>5. e \in JobRow
    <3> HIDE DEF d, n
    <3> QED BY <1>1, <2>4, ColumnUpdates
  <2>6. new = e
    BY <1>1 DEF FinishedAs, JobRow
  <2> QED BY <2>5, <2>6
<1>3. /\ new.status = status /\ new.worker = None
      /\ new.attempts = row.attempts /\ new.max = row.max
      /\ new.resumes = n /\ new.interrupt = interrupt
      /\ new.resume.status = s /\ new.resume.interrupt = row.resume.interrupt
      /\ new.resume.request = row.resume.request
      /\ new.resume.value = row.resume.value
  BY <1>1 DEF FinishedAs, JobRow
<1>4. lse \in LeaseRow /\ lse.status = "released"
  BY <1>1 DEF Closed, LeaseRow
<1>5. /\ rn \in RunRow /\ rn.status = status
      /\ rn.finished <=> status \in Terminal
  BY <1>1 DEF RunRow, JobOK, RunMirrors, Terminal, Owned, Settled
<1>6. (interrupt # None) <=> status = "waiting_human"
  BY QueueAssumption DEF Outcome, Terminal
<1>7. JobOK(new, lse, rn, answers, failed)
  <2> HIDE DEF new, lse, rn
  <2> QED
    BY <1>1, <1>2, <1>3, <1>4, <1>5, <1>6 DEF JobOK, LeaseMatches, AnswerFits,
       BudgetKept, AnswersCounted, UncountedAnswers, RunMirrors, HistoryFits,
       Given, ResumePending, Queued, Owned, Settled, Terminal, JobRow
<1> QED BY <1>7

\* An execution failed and may be tried again: the attempt is charged and the
\* answer it carried stays pending.
LEMMA RequeueOK ==
    ASSUME NEW row, NEW lease, NEW run, NEW answers, NEW failed,
           JobOK(row, lease, run, answers, failed),
           row.status \in Owned, CanRetry(row),
           NEW delay \in Nat, NEW state \in {"released", "expired"}
    PROVE  JobOK(Requeued(row, delay), Closed(lease, state),
                 [run EXCEPT !.status = "queued"], answers, failed + 1)
<1> DEFINE s   == IF ResumePending(row) THEN "resume_queued" ELSE "queued"
           n   == EffectiveAttempts(row)
           a   == [row EXCEPT !.status = s]
           b   == [a EXCEPT !.worker = None]
           c   == [b EXCEPT !.attempts = n]
           d   == [c EXCEPT !.due = -delay]
           new == Requeued(row, delay)
           lse == Closed(lease, state)
           rn  == [run EXCEPT !.status = "queued"]
<1>1. /\ row \in JobRow /\ run \in RunRow /\ lease \in LeaseRow
      /\ s \in JobStatus /\ n \in Nat /\ -delay \in Int
  BY DEF JobOK, JobRow, JobStatus, Queued, EffectiveAttempts
<1>2. new \in JobRow
  <2>1. a \in JobRow
    <3> HIDE DEF s
    <3> QED BY <1>1, ColumnUpdates
  <2>2. b \in JobRow
    <3> HIDE DEF a
    <3> QED BY <2>1, ColumnUpdates
  <2>3. c \in JobRow
    <3> HIDE DEF b, n
    <3> QED BY <1>1, <2>2, ColumnUpdates
  <2>4. d \in JobRow
    <3> HIDE DEF c
    <3> QED BY <1>1, <2>3, ColumnUpdates
  <2> QED BY <2>4 DEF Requeued
<1>3. /\ new.status = s /\ new.worker = None
      /\ new.attempts = n /\ new.max = row.max
      /\ new.resumes = row.resumes /\ new.interrupt = row.interrupt
      /\ new.resume = row.resume
  BY <1>1 DEF Requeued, JobRow
<1>4. lse \in LeaseRow /\ lse.status = state
  BY <1>1 DEF Closed, LeaseRow
<1>5. rn \in RunRow /\ rn.status = "queued" /\ rn.finished = run.finished
  BY <1>1 DEF RunRow
<1>6. JobOK(new, lse, rn, answers, failed + 1)
  <2> HIDE DEF new, lse, rn
  <2> QED
    BY <1>1, <1>2, <1>3, <1>4, <1>5 DEF JobOK, LeaseMatches, AnswerFits,
       BudgetKept, AnswersCounted, UncountedAnswers, RunMirrors, HistoryFits,
       Given, ResumePending, EffectiveAttempts, CanRetry, Queued, Owned, Settled,
       Terminal, JobRow
<1> QED BY <1>6

\* An execution failed and the budget is spent: the answer it carried fails
\* with the job.
LEMMA FailOK ==
    ASSUME NEW row, NEW lease, NEW run, NEW answers, NEW failed,
           JobOK(row, lease, run, answers, failed),
           row.status \in Owned, ~CanRetry(row),
           NEW state \in {"released", "expired"}
    PROVE  JobOK(FailedForGood(row), Closed(lease, state),
                 [run EXCEPT !.status = "failed", !.finished = TRUE],
                 answers, failed + 1)
<1> DEFINE p   == ResumePending(row)
           s   == IF p THEN "failed" ELSE row.resume.status
           n   == IF p /\ row.attempts < row.max THEN row.attempts + 1
                                                 ELSE row.attempts
           a   == [row EXCEPT !.status = "failed"]
           b   == [a EXCEPT !.worker = None]
           c   == [b EXCEPT !.interrupt = None]
           d   == [c EXCEPT !.attempts = n]
           e   == [d EXCEPT !.resume.status = s]
           new == FailedForGood(row)
           lse == Closed(lease, state)
           rn  == [run EXCEPT !.status = "failed", !.finished = TRUE]
<1>1. /\ row \in JobRow /\ run \in RunRow /\ lease \in LeaseRow
      /\ s \in ResumeStatus /\ n \in Nat
  BY DEF JobOK, JobRow, ResumeStatus
<1>2. new \in JobRow
  <2>1. a \in JobRow
    BY <1>1, ColumnUpdates DEF JobStatus, Settled, Terminal
  <2>2. b \in JobRow
    <3> HIDE DEF a
    <3> QED BY <2>1, ColumnUpdates
  <2>3. c \in JobRow
    <3> HIDE DEF b
    <3> QED BY <2>2, ColumnUpdates
  <2>4. d \in JobRow
    <3> HIDE DEF c, n
    <3> QED BY <1>1, <2>3, ColumnUpdates
  <2>5. e \in JobRow
    <3> HIDE DEF d, s
    <3> QED BY <1>1, <2>4, ColumnUpdates
  <2>6. new = e
    BY <1>1 DEF FailedForGood, JobRow
  <2> QED BY <2>5, <2>6
<1>3. /\ new.status = "failed" /\ new.worker = None
      /\ new.attempts = n /\ new.max = row.max
      /\ new.resumes = row.resumes /\ new.interrupt = None
      /\ new.resume.status = s /\ new.resume.interrupt = row.resume.interrupt
      /\ new.resume.request = row.resume.request
      /\ new.resume.value = row.resume.value
  BY <1>1 DEF FailedForGood, JobRow
<1>4. lse \in LeaseRow /\ lse.status = state
  BY <1>1 DEF Closed, LeaseRow
<1>5. rn \in RunRow /\ rn.status = "failed" /\ rn.finished = TRUE
  BY <1>1 DEF RunRow, Settled, Terminal
<1>6. \A a1 \in answers : a1.interrupt # None
  BY QueueAssumption DEF JobOK, Answer
<1>7. JobOK(new, lse, rn, answers, failed + 1)
  <2> HIDE DEF new, lse, rn
  <2> QED
    BY <1>1, <1>2, <1>3, <1>4, <1>5, <1>6 DEF JobOK, LeaseMatches, AnswerFits,
       BudgetKept, AnswersCounted, UncountedAnswers, RunMirrors, HistoryFits,
       Given, ResumePending, EffectiveAttempts, CanRetry, Queued, Owned, Settled,
       Terminal, JobRow
<1> QED BY <1>7

\* A failed or expired execution, whichever way it is decided.
LEMMA AfterFailureOK ==
    ASSUME NEW row, NEW lease, NEW run, NEW answers, NEW failed,
           JobOK(row, lease, run, answers, failed),
           row.status \in Owned,
           NEW delay \in Nat, NEW state \in {"released", "expired"}
    PROVE  JobOK(AfterFailure(row, delay), Closed(lease, state),
                 RunAfterFailure(row, run), answers, failed + 1)
<1>1. CASE CanRetry(row)
  BY <1>1, RequeueOK DEF AfterFailure, RunAfterFailure
<1>2. CASE ~CanRetry(row)
  BY <1>2, FailOK DEF AfterFailure, RunAfterFailure
<1> QED BY <1>1, <1>2

\* An accepted answer: the interrupt it names waits for its first answer, so
\* the answer is new to the history.
LEMMA QueueResumeOK ==
    ASSUME NEW row, NEW lease, NEW run, NEW answers, NEW failed,
           JobOK(row, lease, run, answers, failed),
           NEW x \in Answer,
           row.status = "waiting_human", row.interrupt = x.interrupt
    PROVE  JobOK(Answered(row, x), lease, [run EXCEPT !.status = "queued"],
                 answers \cup {x}, failed)
<1> DEFINE r   == [request |-> x.request, interrupt |-> x.interrupt,
                   value |-> x.value, status |-> "pending"]
           a   == [row EXCEPT !.status = "resume_queued"]
           b   == [a EXCEPT !.resume = r]
           c   == [b EXCEPT !.due = 0]
           rn  == [run EXCEPT !.status = "queued"]
<1>1. /\ row \in JobRow /\ run \in RunRow
      /\ x.interrupt # None /\ x.interrupt \in Interrupts
  BY QueueAssumption DEF JobOK, Answer
<1>2. c \in JobRow
  <2>1. a \in JobRow
    BY <1>1, ColumnUpdates DEF JobStatus, Queued
  <2>2. b \in JobRow
    <3>1. r \in [request: Requests \cup {None},
                 interrupt: Interrupts \cup {None},
                 value: Values \cup {None}, status: ResumeStatus]
      BY DEF Answer, ResumeStatus
    <3> HIDE DEF a, r
    <3> QED BY <2>1, <3>1 DEF JobRow
  <2> HIDE DEF b
  <2> QED BY <2>2, ColumnUpdates
<1>3. /\ c.status = "resume_queued" /\ c.worker = row.worker
      /\ c.attempts = row.attempts /\ c.max = row.max
      /\ c.resumes = row.resumes /\ c.interrupt = row.interrupt
      /\ c.resume = r
  BY <1>1 DEF JobRow
<1>4. r.status = "pending" /\ r.interrupt = x.interrupt
  OBVIOUS
<1>5. rn \in RunRow /\ rn.status = "queued" /\ rn.finished = run.finished
  BY <1>1 DEF RunRow
<1>6. /\ IsFiniteSet(answers \cup {x})
      /\ Cardinality(answers \cup {x}) = Cardinality(answers) + 1
  <2>1. IsFiniteSet(answers) /\ x \notin answers
    BY DEF JobOK, HistoryFits, Settled
  <2> QED BY <2>1, FS_AddElement
<1>7. JobOK(c, lease, rn, answers \cup {x}, failed)
  <2>1. Given(r) = x
    BY DEF Given, Answer
  <2> HIDE DEF c, r, rn
  <2> QED
    BY <2>1, <1>1, <1>2, <1>3, <1>4, <1>5, <1>6 DEF JobOK, LeaseMatches, AnswerFits,
       BudgetKept, AnswersCounted, UncountedAnswers, RunMirrors, HistoryFits,
       Given, ResumePending, Queued, Owned, Settled, Terminal, JobRow
<1> QED BY <1>7 DEF Answered

\* How long a job has been waiting does not matter.
LEMMA AgeingOK ==
    ASSUME NEW row, NEW lease, NEW run, NEW answers, NEW failed,
           JobOK(row, lease, run, answers, failed),
           row.status \in Queued
    PROVE  JobOK([row EXCEPT !.due = @ + 1], lease, run, answers, failed)
<1> DEFINE new == [row EXCEPT !.due = row.due + 1]
<1>1. row \in JobRow
  BY DEF JobOK
<1>2. new \in JobRow
  <2>1. row.due + 1 \in Int
    BY <1>1 DEF JobRow
  <2> QED BY <1>1, <2>1, ColumnUpdates
<1>3. /\ new.status = row.status /\ new.worker = row.worker
      /\ new.attempts = row.attempts /\ new.max = row.max
      /\ new.resumes = row.resumes /\ new.interrupt = row.interrupt
      /\ new.resume = row.resume
  BY <1>1 DEF JobRow
<1>4. JobOK(new, lease, run, answers, failed)
  <2> HIDE DEF new
  <2> QED
    BY <1>2, <1>3 DEF JobOK, LeaseMatches, AnswerFits, BudgetKept,
       AnswersCounted, UncountedAnswers, RunMirrors, HistoryFits, Given,
       ResumePending, Queued
<1> QED BY <1>4

\* What remains of a lease does not matter either.
LEMMA LeaseTimeOK ==
    ASSUME NEW row, NEW lease, NEW run, NEW answers, NEW failed,
           JobOK(row, lease, run, answers, failed),
           NEW x \in Nat
    PROVE  JobOK(row, [lease EXCEPT !.left = x], run, answers, failed)
<1> DEFINE new == [lease EXCEPT !.left = x]
<1>1. lease \in LeaseRow
  BY DEF JobOK
<1>2. /\ new \in LeaseRow /\ new.status = lease.status
      /\ new.worker = lease.worker
  BY <1>1 DEF LeaseRow
<1>3. JobOK(row, new, run, answers, failed)
  <2> HIDE DEF new
  <2> QED BY <1>2 DEF JobOK, LeaseMatches
<1> QED BY <1>3

-----------------------------------------------------------------------------
(***************************************************************************)
(* Every step keeps every job in order.                                    *)
(***************************************************************************)
\* No job but j is touched.
OthersKept(j) ==
    \A k \in Jobs \ {j} :
        /\ jobs'[k] = jobs[k] /\ leases'[k] = leases[k] /\ runs'[k] = runs[k]
        /\ accepted'[k] = accepted[k] /\ failures'[k] = failures[k]

AllOK == Shape /\ \A j \in Jobs : OK(j)

LEMMA EnqueueStep ==
    ASSUME AllOK, NEW j \in Jobs, NEW limit \in AttemptLimits,
           Enqueue(j, limit)
    PROVE  AllOK'
<1>1. OK(j) /\ jobs[j].status = "none"
  BY DEF AllOK, Enqueue
<1>2. jobs[j] = NoJob /\ accepted[j] = {} /\ failures[j] = 0
  BY <1>1 DEF OK, JobOK, HistoryFits
<1>3. /\ jobs'[j] = NewJob(limit) /\ leases'[j] = leases[j]
      /\ runs'[j] = [runs[j] EXCEPT !.status = "queued"]
      /\ accepted'[j] = {} /\ failures'[j] = 0
  BY <1>2 DEF AllOK, Shape, Enqueue
<1>4. OK(j)'
  <2> DEFINE row == NewJob(limit)
             rn  == [runs[j] EXCEPT !.status = "queued"]
  <2>1. /\ JobOK(row, NoLease, [NoRun EXCEPT !.status = "queued"], {}, 0)
        /\ row.status = "queued" /\ row.worker = None
    BY NewJobOK DEF NewJob, NoJob
  <2>2. /\ rn \in RunRow /\ rn.status = "queued"
        /\ rn.finished <=> FALSE
    BY <1>1, <1>2 DEF OK, JobOK, RunMirrors, RunRow, NoJob, Terminal
  <2>3. leases[j] \in LeaseRow /\ leases[j].status # "active"
    BY <1>1, <1>2 DEF OK, JobOK, LeaseMatches, NoJob, Owned
  <2>4. JobOK(row, leases[j], rn, {}, 0)
    <3> HIDE DEF row, rn
    <3> QED BY <2>1, <2>2, <2>3
        DEF JobOK, LeaseMatches, RunMirrors, Owned, Queued, Terminal
  <2> QED BY <1>3, <2>4 DEF OK
<1>5. OthersKept(j) /\ Shape'
  BY DEF AllOK, Shape, Enqueue, OthersKept
<1> QED BY <1>4, <1>5 DEF AllOK, OK, OthersKept

LEMMA EnqueueResumeStep ==
    ASSUME AllOK, NEW j \in Jobs, NEW a \in Answer, EnqueueResume(j, a)
    PROVE  AllOK'
<1> DEFINE new == Answered(jobs[j], a)
<1>1. OK(j)
  BY DEF AllOK
<1>2. OthersKept(j) /\ Shape'
  BY DEF AllOK, Shape, EnqueueResume, OthersKept
<1>3. CASE SameRequest(jobs[j].resume, a)
  <2>1. accepted[j] \cup {a} = accepted[j]
    <3>1. Given(jobs[j].resume) \in accepted[j]
      BY <1>1, <1>3 DEF OK, JobOK, HistoryFits, SameRequest
    <3>2. Given(jobs[j].resume) = a
      BY <1>3 DEF Given, SameRequest, Answer
    <3> QED BY <3>1, <3>2
  <2>2. /\ jobs'[j] = jobs[j] /\ leases'[j] = leases[j]
        /\ accepted'[j] = accepted[j] /\ failures'[j] = failures[j]
    BY <1>3, <2>1 DEF AllOK, Shape, EnqueueResume
  <2>3. runs'[j] = runs[j]
    <3>1. CASE jobs[j].status = "resume_queued"
      <4>1. runs[j].status = "queued" /\ runs[j] \in RunRow
        BY <1>1, <3>1 DEF OK, JobOK, RunMirrors, Queued
      <4>2. runs'[j] = [runs[j] EXCEPT !.status = "queued"]
        BY <2>2, <3>1 DEF AllOK, Shape, EnqueueResume
      <4> QED BY <4>1, <4>2 DEF RunRow
    <3>2. CASE jobs[j].status # "resume_queued"
      BY <2>2, <3>2 DEF EnqueueResume
    <3> QED BY <3>1, <3>2
  <2>4. OK(j)'
    BY <1>1, <2>2, <2>3 DEF OK
  <2> QED BY <1>2, <2>4 DEF AllOK, OK, OthersKept
<1>4. CASE ~SameRequest(jobs[j].resume, a)
  <2>1. jobs[j].status = "waiting_human" /\ jobs[j].interrupt = a.interrupt
    BY <1>4 DEF EnqueueResume, ResumeReply, Awaits
  <2>2. /\ jobs'[j] = new /\ leases'[j] = leases[j]
        /\ accepted'[j] = accepted[j] \cup {a} /\ failures'[j] = failures[j]
    BY <1>4 DEF AllOK, Shape, EnqueueResume
  <2>3. new.status = "resume_queued"
    BY <1>1 DEF OK, JobOK, JobRow, Answered
  <2>4. runs'[j] = [runs[j] EXCEPT !.status = "queued"]
    <3> HIDE DEF new
    <3> QED BY <2>2, <2>3 DEF AllOK, Shape, EnqueueResume
  <2>5. JobOK(new, leases[j], [runs[j] EXCEPT !.status = "queued"],
              accepted[j] \cup {a}, failures[j])
    BY <1>1, <2>1, QueueResumeOK DEF OK
  <2>6. OK(j)'
    <3> HIDE DEF new
    <3> QED BY <2>2, <2>4, <2>5 DEF OK
  <2> QED BY <1>2, <2>6 DEF AllOK, OK, OthersKept
<1> QED BY <1>3, <1>4

LEMMA ClaimStep ==
    ASSUME AllOK, NEW w \in Workers, NEW j \in Jobs, Claim(w, j)
    PROVE  AllOK'
<1>1. OK(j) /\ jobs[j].status \in Queued
  BY DEF AllOK, Claim, NextInLine, Claimable
<1>2. /\ jobs'[j] = ClaimedBy(jobs[j], w) /\ leases'[j] = Activated(w)
      /\ runs'[j] = [runs[j] EXCEPT !.status = "queued"]
      /\ accepted'[j] = accepted[j] /\ failures'[j] = failures[j]
  BY DEF AllOK, Shape, Claim
<1>3. OK(j)'
  BY <1>1, <1>2, ClaimOK DEF OK
<1>4. OthersKept(j) /\ Shape'
  BY DEF AllOK, Shape, Claim, OthersKept
<1> QED BY <1>3, <1>4 DEF AllOK, OK, OthersKept

LEMMA MarkRunningStep ==
    ASSUME AllOK, NEW w \in Workers, NEW j \in Jobs, MarkRunning(w, j)
    PROVE  AllOK'
<1>1. OK(j) /\ jobs[j].status = "leased"
  BY DEF AllOK, MarkRunning, CanMarkRunning
<1>2. /\ jobs'[j] = [jobs[j] EXCEPT !.status = "running"]
      /\ leases'[j] = leases[j]
      /\ runs'[j] = [runs[j] EXCEPT !.status = "running"]
      /\ accepted'[j] = accepted[j] /\ failures'[j] = failures[j]
  BY DEF AllOK, Shape, MarkRunning
<1>3. OK(j)'
  BY <1>1, <1>2, MarkRunningOK DEF OK
<1>4. OthersKept(j) /\ Shape'
  BY DEF AllOK, Shape, MarkRunning, OthersKept
<1> QED BY <1>3, <1>4 DEF AllOK, OK, OthersKept

LEMMA HeartbeatStep ==
    ASSUME AllOK, NEW w \in Workers, NEW j \in Jobs, Heartbeat(w, j)
    PROVE  AllOK'
<1>1. OK(j) /\ LeaseTerm \in Nat
  BY QueueAssumption DEF AllOK
<1>2. /\ jobs'[j] = jobs[j]
      /\ leases'[j] = [leases[j] EXCEPT !.left = LeaseTerm]
      /\ runs'[j] = runs[j]
      /\ accepted'[j] = accepted[j] /\ failures'[j] = failures[j]
  BY DEF AllOK, Shape, Heartbeat
<1>3. OK(j)'
  BY <1>1, <1>2, LeaseTimeOK DEF OK
<1>4. OthersKept(j) /\ Shape'
  BY DEF AllOK, Shape, Heartbeat, OthersKept
<1> QED BY <1>3, <1>4 DEF AllOK, OK, OthersKept

LEMMA FinishStep ==
    ASSUME AllOK, NEW w \in Workers, NEW j \in Jobs,
           NEW status, NEW interrupt, Finish(w, j, status, interrupt),
           interrupt = None \/ FreshInterrupt(j, interrupt)
    PROVE  AllOK'
<1>1. OK(j) /\ jobs[j].status \in Owned /\ Outcome(status, interrupt)
  BY DEF AllOK, Finish, CanFinish
<1>2. \A a \in accepted[j] : a.interrupt # interrupt
  <2>1. \A a \in accepted[j] : a.interrupt \in Interrupts
    BY <1>1 DEF OK, JobOK, Answer
  <2>2. CASE interrupt = None
    BY <2>1, <2>2, QueueAssumption
  <2>3. CASE FreshInterrupt(j, interrupt)
    BY <2>3 DEF FreshInterrupt
  <2> QED BY <2>2, <2>3
<1>3. /\ jobs'[j] = FinishedAs(jobs[j], status, interrupt)
      /\ leases'[j] = Closed(leases[j], "released")
      /\ runs'[j] = [status   |-> status,
                     finished |-> runs[j].finished \/ status \in Terminal]
      /\ accepted'[j] = accepted[j] /\ failures'[j] = failures[j]
  BY DEF AllOK, Shape, Finish
<1>4. OK(j)'
  BY <1>1, <1>2, <1>3, FinishOK DEF OK
<1>5. OthersKept(j) /\ Shape'
  BY DEF AllOK, Shape, Finish, OthersKept
<1> QED BY <1>4, <1>5 DEF AllOK, OK, OthersKept

\* fail_or_requeue does not look at the job's status: that its caller still
\* owns the job is enough, because no settled row names a worker.
LEMMA FailOrRequeueStep ==
    ASSUME AllOK, NEW w \in Workers, NEW j \in Jobs, FailOrRequeue(w, j)
    PROVE  AllOK'
<1>1. OK(j) /\ jobs[j].worker = w /\ w # None /\ RetryDelay \in Nat
  BY QueueAssumption DEF AllOK, FailOrRequeue, CanFail
<1>2. jobs[j].status \in Owned
  BY <1>1 DEF OK, JobOK, LeaseMatches
<1>3. /\ jobs'[j] = AfterFailure(jobs[j], RetryDelay)
      /\ leases'[j] = Closed(leases[j], "released")
      /\ runs'[j] = RunAfterFailure(jobs[j], runs[j])
      /\ accepted'[j] = accepted[j] /\ failures'[j] = failures[j] + 1
  BY DEF AllOK, Shape, FailOrRequeue
<1>4. OK(j)'
  BY <1>1, <1>2, <1>3, AfterFailureOK DEF OK
<1>5. OthersKept(j) /\ Shape'
  BY DEF AllOK, Shape, FailOrRequeue, OthersKept
<1> QED BY <1>4, <1>5 DEF AllOK, OK, OthersKept

\* The sweep never meets a settled job: its lease would not be active.
LEMMA RequeueExpiredStep ==
    ASSUME AllOK, RequeueExpired
    PROVE  AllOK'
<1>1. Shape'
  BY DEF AllOK, Shape, RequeueExpired
<1>2. ASSUME NEW j \in Jobs PROVE OK(j)'
  <2>1. OK(j)
    BY DEF AllOK
  <2>2. CASE j \in Expired
    <3>1. jobs[j].status \in Owned
      BY <2>1, <2>2 DEF OK, JobOK, LeaseMatches, Expired
    <3>2. j \in Abandoned
      BY <2>2, <3>1 DEF Abandoned, Owned, Settled, Terminal
    <3>3. /\ jobs'[j] = AfterFailure(jobs[j], 0)
          /\ leases'[j] = Closed(leases[j], "expired")
          /\ runs'[j] = RunAfterFailure(jobs[j], runs[j])
          /\ accepted'[j] = accepted[j] /\ failures'[j] = failures[j] + 1
      BY <2>2, <3>2 DEF RequeueExpired
    <3> QED BY <2>1, <3>1, <3>3, AfterFailureOK DEF OK
  <2>3. CASE j \notin Expired
    <3>1. j \notin Abandoned
      BY <2>3 DEF Abandoned
    <3>2. /\ jobs'[j] = jobs[j] /\ leases'[j] = leases[j]
          /\ runs'[j] = runs[j]
          /\ accepted'[j] = accepted[j] /\ failures'[j] = failures[j]
      BY <2>3, <3>1 DEF RequeueExpired
    <3> QED BY <2>1, <3>2 DEF OK
  <2> QED BY <2>2, <2>3
<1> QED BY <1>1, <1>2 DEF AllOK

LEMMA TickStep ==
    ASSUME AllOK, Tick
    PROVE  AllOK'
<1>1. Shape'
  BY DEF AllOK, Shape, Tick
<1>2. ASSUME NEW j \in Jobs PROVE OK(j)'
  <2> DEFINE row   == IF Ageing(j) THEN [jobs[j] EXCEPT !.due = @ + 1]
                                   ELSE jobs[j]
             lease == IF Running(j) THEN [leases[j] EXCEPT !.left = @ - 1]
                                    ELSE leases[j]
  <2>1. OK(j)
    BY DEF AllOK
  <2>2. JobOK(row, leases[j], runs[j], accepted[j], failures[j])
    BY <2>1, AgeingOK DEF OK, Ageing
  <2>3. JobOK(row, lease, runs[j], accepted[j], failures[j])
    <3>1. CASE Running(j)
      <4>1. leases[j].left - 1 \in Nat
        BY <2>1, <3>1 DEF Running, OK, JobOK, LeaseRow
      <4> HIDE DEF row
      <4> QED BY <2>2, <3>1, <4>1, LeaseTimeOK
    <3>2. CASE ~Running(j)
      BY <2>2, <3>2
    <3> QED BY <3>1, <3>2
  <2>4. /\ jobs'[j] = row /\ leases'[j] = lease /\ runs'[j] = runs[j]
        /\ accepted'[j] = accepted[j] /\ failures'[j] = failures[j]
    BY DEF Tick
  <2> HIDE DEF row, lease
  <2> QED BY <2>3, <2>4 DEF OK
<1> QED BY <1>1, <1>2 DEF AllOK

\* Every step of the queue preserves the invariant.
LEMMA InvariantKept ==
    QueueInvariant /\ [Next]_queueVars => QueueInvariant'
<1>1. QueueInvariant <=> AllOK
  BY InvariantIsPerJob DEF AllOK
<1>2. (QueueInvariant <=> AllOK)'
  BY <1>1, PTL
<1>3. ASSUME AllOK, [Next]_queueVars PROVE AllOK'
  <2>1. CASE ClientNext
    BY <1>3, <2>1, EnqueueStep, EnqueueResumeStep DEF ClientNext
  <2>2. CASE WorkerNext
    <3> SUFFICES ASSUME NEW w \in Workers, NEW j \in Jobs,
                        \/ Claim(w, j)
                        \/ MarkRunning(w, j)
                        \/ Heartbeat(w, j)
                        \/ \E status \in Terminal : Finish(w, j, status, None)
                        \/ \E i \in Interrupts :
                               FreshInterrupt(j, i)
                               /\ Finish(w, j, "waiting_human", i)
                        \/ FailOrRequeue(w, j)
                 PROVE  AllOK'
      BY <2>2 DEF WorkerNext
    <3> QED
      BY <1>3, ClaimStep, MarkRunningStep, HeartbeatStep, FinishStep,
         FailOrRequeueStep
  <2>3. CASE RequeueExpired
    BY <1>3, <2>3, RequeueExpiredStep
  <2>4. CASE Tick
    BY <1>3, <2>4, TickStep
  <2>5. CASE UNCHANGED queueVars
    BY <1>3, <2>5 DEF AllOK, Shape, OK, queueVars
  <2> QED BY <1>3, <2>1, <2>2, <2>3, <2>4, <2>5 DEF Next
<1> QED BY <1>1, <1>2, <1>3

LEMMA InvariantHoldsFirst == Init => QueueInvariant
<1> SUFFICES ASSUME Init PROVE AllOK
  BY InvariantIsPerJob DEF AllOK
<1>1. Shape
  BY DEF Init, Shape
<1>2. ASSUME NEW j \in Jobs PROVE OK(j)
  BY NoJobOK DEF Init, OK
<1> QED BY <1>1, <1>2 DEF AllOK

-----------------------------------------------------------------------------
(***************************************************************************)
(* The theorems.                                                           *)
(***************************************************************************)
\* Every reachable state of the queue satisfies the invariant, whatever the
\* numbers of jobs, workers and interrupts, the retry limits, the lease term
\* and the retry delay.
THEOREM QueueIsInvariant == Spec => []QueueInvariant
  BY InvariantHoldsFirst, InvariantKept, PTL DEF Spec

\* A lease is active exactly while its job is leased or running, and names the
\* same worker.
THEOREM LeasesMatchJobs == Spec => []LeaseMatchesJob
<1>1. QueueInvariant => LeaseMatchesJob
  BY DEF QueueInvariant
<1> QED BY <1>1, QueueIsInvariant, PTL

\* The retry budget is spent by failures alone.
THEOREM BudgetIsSpentByFailures == Spec => []AttemptsCountFailures
<1>1. QueueInvariant => AttemptsCountFailures
  BY DEF QueueInvariant
<1> QED BY <1>1, QueueIsInvariant, PTL

\* Every row has the columns and the values its table allows.
THEOREM TypesAreKept == Spec => []TypeOK
<1>1. QueueInvariant => TypeOK
  BY DEF QueueInvariant
<1> QED BY <1>1, QueueIsInvariant, PTL

\* An accepted answer is pending until its execution is over, and only the
\* interrupt a job shows can be answered.
THEOREM AnswersStayInOrder == Spec => []AnswerInOrder
<1>1. QueueInvariant => AnswerInOrder
  BY DEF QueueInvariant
<1> QED BY <1>1, QueueIsInvariant, PTL

\* Every accepted answer is counted once, however often it was submitted and
\* however many executions were needed to apply it.
THEOREM AnswersAreCountedOnce == Spec => []EachAnswerCountedOnce
<1>1. QueueInvariant => EachAnswerCountedOnce
  BY DEF QueueInvariant
<1> QED BY <1>1, QueueIsInvariant, PTL

\* The run a client reads and the job a worker reads agree.
THEOREM RunsMirrorJobs == Spec => []RunMirrorsJob
<1>1. QueueInvariant => RunMirrorsJob
  BY DEF QueueInvariant
<1> QED BY <1>1, QueueIsInvariant, PTL

\* What no step may do to a job that is over.
Spared(j) ==
    jobs[j].status \in Terminal =>
        /\ jobs'[j] = jobs[j]
        /\ runs'[j] = runs[j]
        /\ leases'[j].status = leases[j].status

LEMMA StepSparesTerminal ==
    ASSUME AllOK, Next, NEW j \in Jobs
    PROVE  Spared(j)
<1> SUFFICES ASSUME jobs[j].status \in Terminal
             PROVE  /\ jobs'[j] = jobs[j]
                    /\ runs'[j] = runs[j]
                    /\ leases'[j].status = leases[j].status
  BY DEF Spared
<1>1. OK(j) /\ j \notin Expired /\ jobs[j].worker = None /\ ~Ageing(j)
  BY DEF AllOK, OK, JobOK, LeaseMatches, Expired, Ageing, Owned, Queued,
     Terminal
<1>2. CASE ClientNext
  <2>1. ASSUME NEW k \in Jobs, NEW limit \in AttemptLimits, Enqueue(k, limit)
        PROVE  Spared(j)
    BY <2>1 DEF Enqueue, AllOK, Shape, Spared, Terminal
  <2>2. ASSUME NEW k \in Jobs, NEW a \in Answer, EnqueueResume(k, a)
        PROVE  Spared(j)
    <3>1. CASE SameRequest(jobs[k].resume, a)
      <4>1. jobs' = jobs /\ leases' = leases
        BY <2>2, <3>1 DEF EnqueueResume
      <4>2. runs'[j] = runs[j]
        BY <2>2, <4>1 DEF EnqueueResume, AllOK, Shape, Terminal
      <4> QED BY <4>1, <4>2 DEF Spared
    <3>2. CASE ~SameRequest(jobs[k].resume, a)
      <4>1. jobs[k].status = "waiting_human"
        BY <2>2, <3>2 DEF EnqueueResume, ResumeReply, Awaits
      <4>2. k # j
        BY <4>1 DEF Terminal
      <4> QED BY <2>2, <4>2 DEF EnqueueResume, AllOK, Shape, Spared
    <3> QED BY <3>1, <3>2
  <2> QED BY <1>2, <2>1, <2>2 DEF ClientNext, Spared
<1>3. CASE WorkerNext
  <2>1. PICK w \in Workers, k \in Jobs :
            \/ Claim(w, k)
            \/ MarkRunning(w, k)
            \/ Heartbeat(w, k)
            \/ \E status, i : Finish(w, k, status, i)
            \/ FailOrRequeue(w, k)
    BY <1>3 DEF WorkerNext
  <2>2. w # None
    BY QueueAssumption
  <2>3. CASE Claim(w, k)
    BY <2>3 DEF Claim, NextInLine, Claimable, Queued, Terminal, AllOK, Shape
  <2>4. CASE MarkRunning(w, k)
    BY <2>4 DEF MarkRunning, CanMarkRunning, Terminal, AllOK, Shape
  <2>5. CASE Heartbeat(w, k)
    BY <1>1, <2>5 DEF Heartbeat, AllOK, Shape, OK, JobOK, LeaseRow
  <2>6. CASE \E status, i : Finish(w, k, status, i)
    BY <2>6 DEF Finish, CanFinish, Owned, Terminal, AllOK, Shape
  <2>7. CASE FailOrRequeue(w, k)
    BY <1>1, <2>2, <2>7 DEF FailOrRequeue, CanFail, AllOK, Shape
  <2> QED BY <2>1, <2>3, <2>4, <2>5, <2>6, <2>7
<1>4. CASE RequeueExpired
  BY <1>1, <1>4 DEF RequeueExpired, Abandoned
<1>5. CASE Tick
  BY <1>1, <1>5 DEF Tick, OK, JobOK, LeaseRow
<1> QED BY <1>2, <1>3, <1>4, <1>5 DEF Next

\* A job that is over is never touched again, late calls of workers that lost
\* it included.
THEOREM TerminalJobsAreFinal == Spec => TerminalIsFinal
<1>1. QueueInvariant /\ [Next]_queueVars =>
          [\A j \in Jobs : jobs[j].status \in Terminal =>
               /\ jobs'[j] = jobs[j]
               /\ runs'[j] = runs[j]
               /\ leases'[j].status = leases[j].status]_queueVars
  BY InvariantIsPerJob, StepSparesTerminal DEF AllOK, Spared
<1> QED BY <1>1, QueueIsInvariant, PTL DEF Spec, TerminalIsFinal

\* What a step that takes a job out of waiting_human must have done.
Woken(j) ==
    /\ jobs'[j].status = "resume_queued"
    /\ jobs'[j].attempts = jobs[j].attempts
    /\ jobs'[j].resumes = jobs[j].resumes
    /\ \E a \in accepted'[j] \ accepted[j] :
          /\ a.interrupt = jobs[j].interrupt
          /\ a.value \in Acceptable[a.interrupt]

LEMMA StepWakesWithAnswer ==
    ASSUME AllOK, Next, NEW j \in Jobs,
           jobs[j].status = "waiting_human",
           jobs'[j].status # "waiting_human"
    PROVE  Woken(j)
<1>1. OK(j) /\ j \notin Expired /\ jobs[j].worker = None /\ ~Ageing(j)
  BY DEF AllOK, OK, JobOK, LeaseMatches, Expired, Ageing, Owned, Queued
<1>2. ASSUME NEW k \in Jobs, NEW limit \in AttemptLimits, Enqueue(k, limit)
      PROVE  FALSE
  BY <1>2 DEF Enqueue, AllOK, Shape
<1>3. ASSUME NEW k \in Jobs, NEW a \in Answer, EnqueueResume(k, a)
      PROVE  Woken(j)
  <2> DEFINE new == Answered(jobs[j], a)
  <2>1. k = j /\ ~SameRequest(jobs[k].resume, a)
    BY <1>3 DEF EnqueueResume, AllOK, Shape
  <2>2. /\ jobs[j].interrupt = a.interrupt
        /\ a.value \in Acceptable[a.interrupt]
    BY <1>3, <2>1 DEF EnqueueResume, ResumeReply, Awaits
  <2>3. jobs'[j] = new /\ accepted'[j] = accepted[j] \cup {a}
    BY <1>3, <2>1 DEF EnqueueResume, AllOK, Shape
  <2>4. /\ new.status = "resume_queued" /\ new.attempts = jobs[j].attempts
        /\ new.resumes = jobs[j].resumes
    BY <1>1 DEF OK, JobOK, JobRow, Answered
  <2>5. a \notin accepted[j]
    BY <1>1, <2>2 DEF OK, JobOK, HistoryFits, Settled
  <2> HIDE DEF new
  <2> QED BY <2>2, <2>3, <2>4, <2>5 DEF Woken
<1>4. ASSUME WorkerNext PROVE FALSE
  <2>1. PICK w \in Workers, k \in Jobs :
            \/ Claim(w, k)
            \/ MarkRunning(w, k)
            \/ Heartbeat(w, k)
            \/ \E status, i : Finish(w, k, status, i)
            \/ FailOrRequeue(w, k)
    BY <1>4 DEF WorkerNext
  <2>2. w # None
    BY QueueAssumption
  <2>3. CASE Claim(w, k)
    BY <2>3 DEF Claim, NextInLine, Claimable, Queued, AllOK, Shape
  <2>4. CASE MarkRunning(w, k)
    BY <2>4 DEF MarkRunning, CanMarkRunning, AllOK, Shape
  <2>5. CASE Heartbeat(w, k)
    BY <2>5 DEF Heartbeat
  <2>6. CASE \E status, i : Finish(w, k, status, i)
    BY <2>6 DEF Finish, CanFinish, Owned, AllOK, Shape
  <2>7. CASE FailOrRequeue(w, k)
    BY <1>1, <2>2, <2>7 DEF FailOrRequeue, CanFail, AllOK, Shape
  <2> QED BY <2>1, <2>3, <2>4, <2>5, <2>6, <2>7
<1>5. ASSUME RequeueExpired PROVE FALSE
  BY <1>1, <1>5 DEF RequeueExpired, Abandoned
<1>6. ASSUME Tick PROVE FALSE
  BY <1>1, <1>6 DEF Tick
<1> QED BY <1>2, <1>3, <1>4, <1>5, <1>6 DEF Next, ClientNext

\* Nothing but a matching, valid answer takes a job out of waiting_human, and
\* waiting costs no attempt.
THEOREM AnswersWakeJobs == Spec => OnlyAnswersWake
<1>1. QueueInvariant /\ [Next]_queueVars =>
          [\A j \in Jobs :
               jobs[j].status = "waiting_human"
               /\ jobs'[j].status # "waiting_human"
               => /\ jobs'[j].status = "resume_queued"
                  /\ jobs'[j].attempts = jobs[j].attempts
                  /\ jobs'[j].resumes = jobs[j].resumes
                  /\ \E a \in accepted'[j] \ accepted[j] :
                        /\ a.interrupt = jobs[j].interrupt
                        /\ a.value \in Acceptable[a.interrupt]]_queueVars
  BY InvariantIsPerJob, StepWakesWithAnswer DEF AllOK, Woken
<1> QED BY <1>1, QueueIsInvariant, PTL DEF Spec, OnlyAnswersWake

(***************************************************************************)
(* The queue implements the lifecycle a client is promised.  RowsInOrder   *)
(* says what a step starts from; each transaction is then one step of the  *)
(* lifecycle, or none.  The governance run plays no part in it, so the     *)
(* same lemmas serve BackgroundWorkerProofs, where finalize_run writes it. *)
(***************************************************************************)

RowInOrder(j) ==
    /\ jobs[j] \in JobRow /\ failures[j] \in Nat
    /\ LeaseMatches(jobs[j], leases[j])
    /\ BudgetKept(jobs[j], failures[j])
    /\ HistoryFits(jobs[j], accepted[j], failures[j])

RowsInOrder ==
    /\ jobs = [j \in Jobs |-> jobs[j]]
    /\ failures = [j \in Jobs |-> failures[j]]
    /\ \A j \in Jobs : RowInOrder(j)

\* Neither the row nor the count of failures of another job is touched.
OthersStay(j) ==
    \A k \in Jobs \ {j} : jobs'[k] = jobs[k] /\ failures'[k] = failures[k]

\* Any call of the queue, whoever makes it and with whatever argument, and
\* any step that touches neither a job nor its count of failures.
QueueCall ==
    \/ ClientNext
    \/ \E w \in Workers, j \in Jobs :
          \/ Claim(w, j)
          \/ MarkRunning(w, j)
          \/ FailOrRequeue(w, j)
          \/ \E status, i : Finish(w, j, status, i)
    \/ RequeueExpired
    \/ Tick
    \/ UNCHANGED <<jobs, failures>>

\* The phase of a job, status by status.
LEMMA PhasesOfRows ==
    ASSUME NEW row
    PROVE  /\ row.status = "none" => PhaseOf(row) = "absent"
           /\ row.status \in Queued => PhaseOf(row) = "ready"
           /\ row.status \in Owned => PhaseOf(row) = "executing"
           /\ row.status = "waiting_human" => PhaseOf(row) = "asking"
           /\ row.status \in Terminal => PhaseOf(row) = "done"
  BY DEF PhaseOf, Queued, Owned, Terminal

\* A step that leaves the phase, the limit, the failures and the pending
\* answer of every job alone is invisible.
LEMMA Invisible ==
    ASSUME \A j \in Jobs : /\ PhaseOf(jobs[j])' = PhaseOf(jobs[j])
                           /\ jobs'[j].max = jobs[j].max
                           /\ failures'[j] = failures[j]
                           /\ ResumePending(jobs[j])' = ResumePending(jobs[j])
    PROVE  UNCHANGED Lifecycle!lifeVars
<1>1. LifePhase' = LifePhase
  BY DEF LifePhase
<1>2. LifeLeft' = LifeLeft
  BY DEF LifeLeft
<1>3. LifeAnswered' = LifeAnswered
  BY DEF LifeAnswered
<1> QED BY <1>1, <1>2, <1>3 DEF Lifecycle!lifeVars

\* A step of one job changes the phase, the budget and the pending answer of
\* that job only.
LEMMA OneJobMoves ==
    ASSUME NEW j \in Jobs, OthersStay(j)
    PROVE  /\ LifePhase' = [LifePhase EXCEPT ![j] = PhaseOf(jobs'[j])]
           /\ LifeLeft' = [LifeLeft EXCEPT ![j] =
                               jobs'[j].max - failures'[j]]
           /\ LifeAnswered' = [LifeAnswered EXCEPT ![j] =
                                   ResumePending(jobs'[j])]
<1>1. \A k \in Jobs \ {j} : /\ PhaseOf(jobs'[k]) = PhaseOf(jobs[k])
                             /\ jobs'[k].max = jobs[k].max
                             /\ failures'[k] = failures[k]
                             /\ ResumePending(jobs'[k]) = ResumePending(jobs[k])
  BY DEF OthersStay
<1>2. LifePhase' = [LifePhase EXCEPT ![j] = PhaseOf(jobs'[j])]
  BY <1>1 DEF LifePhase
<1>3. LifeLeft' = [LifeLeft EXCEPT ![j] = jobs'[j].max - failures'[j]]
  BY <1>1 DEF LifeLeft
<1>4. LifeAnswered' = [LifeAnswered EXCEPT ![j] = ResumePending(jobs'[j])]
  BY <1>1, Zenon DEF LifeAnswered
<1> QED BY <1>2, <1>3, <1>4

\* A step of one job that keeps its pending answer pending.
LEMMA AnswerKept ==
    ASSUME NEW j \in Jobs, OthersStay(j),
           ResumePending(jobs'[j]) <=> ResumePending(jobs[j])
    PROVE  LifeAnswered' = LifeAnswered
<1>1. \A k \in Jobs : ResumePending(jobs'[k]) = ResumePending(jobs[k])
  <2> TAKE k \in Jobs
  <2>1. CASE k = j
    BY <2>1 DEF ResumePending
  <2>2. CASE k # j
    BY <2>2 DEF OthersStay
  <2> QED BY <2>1, <2>2
<1> QED BY <1>1, Zenon DEF LifeAnswered

LEMMA EnqueueSubmits ==
    ASSUME RowsInOrder, NEW j \in Jobs, NEW limit \in AttemptLimits,
           Enqueue(j, limit)
    PROVE  Lifecycle!Submit(j, limit)
<1>1. jobs[j] = NoJob /\ failures[j] = 0
  BY DEF RowsInOrder, RowInOrder, HistoryFits, Enqueue
<1>2. jobs'[j] = NewJob(limit) /\ failures'[j] = failures[j]
  BY DEF RowsInOrder, Enqueue
<1>3. OthersStay(j)
  BY DEF RowsInOrder, Enqueue, OthersStay
<1>4. /\ NewJob(limit).status = "queued" /\ NewJob(limit).max = limit
      /\ NewJob(limit).resume = NoResume /\ NoJob.resume = NoResume
      /\ NoJob.status = "none"
  BY DEF NewJob, NoJob
<1>5. ~ResumePending(NewJob(limit)) /\ ~ResumePending(NoJob)
  BY <1>4 DEF ResumePending, NoResume
<1>6. LifePhase[j] = "absent" /\ PhaseOf(jobs'[j]) = "ready"
  BY <1>1, <1>2, <1>4, PhasesOfRows DEF LifePhase, Queued
<1>7. limit - 0 = limit
  BY QueueAssumption
<1>8. LifeLeft' = [LifeLeft EXCEPT ![j] = limit]
  BY <1>1, <1>2, <1>3, <1>4, <1>7, OneJobMoves
<1>9. LifeAnswered' = LifeAnswered
  BY <1>1, <1>2, <1>3, <1>5, AnswerKept
<1> QED BY <1>3, <1>6, <1>8, <1>9, OneJobMoves DEF Lifecycle!Submit

LEMMA EnqueueResumeAnswers ==
    ASSUME RowsInOrder, NEW j \in Jobs, NEW a \in Answer, EnqueueResume(j, a)
    PROVE  Lifecycle!AnswerQuestion(j) \/ UNCHANGED Lifecycle!lifeVars
<1>1. CASE SameRequest(jobs[j].resume, a)
  BY <1>1, Invisible DEF EnqueueResume
<1>2. CASE ~SameRequest(jobs[j].resume, a)
  <2> DEFINE new == Answered(jobs[j], a)
  <2>1. jobs[j].status = "waiting_human"
    BY <1>2 DEF EnqueueResume, ResumeReply, Awaits
  <2>2. jobs'[j] = new /\ failures'[j] = failures[j] /\ OthersStay(j)
    BY <1>2 DEF RowsInOrder, EnqueueResume, OthersStay
  <2>3. /\ new.status = "resume_queued" /\ new.max = jobs[j].max
        /\ ResumePending(new)
    BY DEF RowsInOrder, RowInOrder, JobRow, ResumePending, Answered
  <2> HIDE DEF new
  <2>4. LifePhase[j] = "asking" /\ PhaseOf(jobs'[j]) = "ready"
    BY <2>1, <2>2, <2>3, PhasesOfRows DEF LifePhase, Queued
  <2>5. LifeLeft' = LifeLeft
    BY <2>2, <2>3 DEF LifeLeft, OthersStay
  <2>6. LifeAnswered' = [LifeAnswered EXCEPT ![j] = TRUE]
    <3>1. ResumePending(jobs'[j]) = TRUE
      BY <2>2, <2>3 DEF ResumePending
    <3> QED BY <2>2, <3>1, OneJobMoves
  <2> QED BY <2>2, <2>4, <2>5, <2>6, OneJobMoves DEF Lifecycle!AnswerQuestion
<1> QED BY <1>1, <1>2

LEMMA ClaimStarts ==
    ASSUME RowsInOrder, NEW w \in Workers, NEW j \in Jobs, Claim(w, j)
    PROVE  Lifecycle!Start(j)
<1>1. jobs[j].status \in Queued
  BY DEF Claim, NextInLine, Claimable
<1>2. /\ jobs'[j] = ClaimedBy(jobs[j], w) /\ failures'[j] = failures[j]
      /\ OthersStay(j)
  BY DEF RowsInOrder, Claim, OthersStay
<1>3. /\ jobs'[j].status = "leased" /\ jobs'[j].max = jobs[j].max
      /\ jobs'[j].resume = jobs[j].resume
  BY <1>2 DEF ClaimedBy, RowsInOrder, RowInOrder, JobRow
<1>4. LifePhase[j] = "ready" /\ PhaseOf(jobs'[j]) = "executing"
  BY <1>1, <1>3, PhasesOfRows DEF LifePhase, Owned
<1>5. LifeLeft' = LifeLeft
  BY <1>2, <1>3 DEF LifeLeft, OthersStay
<1>6. LifeAnswered' = LifeAnswered
  BY <1>2, <1>3, AnswerKept DEF ResumePending
<1> QED BY <1>2, <1>4, <1>5, <1>6, OneJobMoves DEF Lifecycle!Start

LEMMA MarkRunningIsInvisible ==
    ASSUME RowsInOrder, NEW w \in Workers, NEW j \in Jobs, MarkRunning(w, j)
    PROVE  UNCHANGED Lifecycle!lifeVars
<1>1. /\ jobs'[j] = [jobs[j] EXCEPT !.status = "running"]
      /\ failures'[j] = failures[j] /\ OthersStay(j)
      /\ jobs[j].status = "leased"
  BY DEF RowsInOrder, MarkRunning, CanMarkRunning, OthersStay
<1>2. /\ jobs'[j].status = "running" /\ jobs'[j].max = jobs[j].max
      /\ jobs'[j].resume = jobs[j].resume
  BY <1>1 DEF RowsInOrder, RowInOrder, JobRow
<1>3. PhaseOf(jobs'[j]) = PhaseOf(jobs[j])
  BY <1>1, <1>2, PhasesOfRows DEF Owned
<1>4. LifePhase' = LifePhase
  BY <1>1, <1>3 DEF LifePhase, OthersStay
<1>5. LifeLeft' = LifeLeft
  BY <1>1, <1>2 DEF LifeLeft, OthersStay
<1>6. LifeAnswered' = LifeAnswered
  BY <1>1, <1>2, AnswerKept DEF ResumePending
<1> QED BY <1>4, <1>5, <1>6 DEF Lifecycle!lifeVars

LEMMA FinishStops ==
    ASSUME RowsInOrder, NEW w \in Workers, NEW j \in Jobs,
           NEW status, NEW interrupt, Finish(w, j, status, interrupt)
    PROVE  Lifecycle!Stop(j, "asking") \/ Lifecycle!Stop(j, "done")
<1>1. /\ jobs[j].status \in Owned /\ Outcome(status, interrupt)
      /\ jobs'[j] = FinishedAs(jobs[j], status, interrupt)
      /\ failures'[j] = failures[j] /\ OthersStay(j)
  BY DEF RowsInOrder, Finish, CanFinish, OthersStay
<1>2. /\ jobs'[j].status = status /\ jobs'[j].max = jobs[j].max
      /\ jobs'[j].resume.status # "pending"
  BY <1>1 DEF FinishedAs, ResumePending, RowsInOrder, RowInOrder, JobRow
<1>3. LifePhase[j] = "executing"
  BY <1>1, PhasesOfRows DEF LifePhase
<1>4. LifeLeft' = LifeLeft
  BY <1>1, <1>2 DEF LifeLeft, OthersStay
<1>5. LifeAnswered' = [LifeAnswered EXCEPT ![j] = FALSE]
  <2>1. ResumePending(jobs'[j]) = FALSE
    BY <1>2 DEF ResumePending
  <2> QED BY <1>1, <2>1, OneJobMoves
<1>6. PhaseOf(jobs'[j]) \in {"asking", "done"}
  BY <1>1, <1>2, PhasesOfRows DEF Outcome
<1> QED BY <1>1, <1>3, <1>4, <1>5, <1>6, OneJobMoves DEF Lifecycle!Stop

\* What a failed execution leaves of a row, as far as the lifecycle sees it.
LEMMA AfterFailureSeen ==
    ASSUME NEW row, NEW failed, NEW delay,
           row \in JobRow, row.status \in Owned, failed \in Nat,
           BudgetKept(row, failed)
    PROVE  LET new   == AfterFailure(row, delay)
               again == (row.max - failed) >
                            (IF ResumePending(row) THEN 2 ELSE 1)
           IN  /\ PhaseOf(new) = (IF again THEN "ready" ELSE "done")
               /\ new.max = row.max
               /\ ResumePending(new) <=> ResumePending(row) /\ again
<1> DEFINE new   == AfterFailure(row, delay)
           again == (row.max - failed) > (IF ResumePending(row) THEN 2 ELSE 1)
<1>1. CanRetry(row) <=> again
  BY DEF CanRetry, EffectiveAttempts, BudgetKept, JobRow
<1>2. CASE CanRetry(row)
  <2>1. /\ new.status \in Queued /\ new.max = row.max
        /\ new.resume = row.resume
    BY <1>2 DEF AfterFailure, Requeued, JobRow, Queued
  <2>2. PhaseOf(new) = "ready"
    BY <2>1, PhasesOfRows
  <2> HIDE DEF new, again
  <2> QED BY <1>1, <1>2, <2>1, <2>2 DEF ResumePending, new, again
<1>3. CASE ~CanRetry(row)
  <2>1. /\ new.status \in Terminal /\ new.max = row.max
        /\ new.resume.status # "pending"
    BY <1>3 DEF AfterFailure, FailedForGood, ResumePending, JobRow, Terminal
  <2>2. PhaseOf(new) = "done"
    BY <2>1, PhasesOfRows
  <2> QED BY <1>1, <1>3, <2>1, <2>2 DEF ResumePending
<1> QED BY <1>2, <1>3

\* Executions that fail together are lost together.
LEMMA FailuresAreLost ==
    ASSUME RowsInOrder, NEW S \in SUBSET Jobs, S # {},
           \A k \in S : /\ jobs[k].status \in Owned
                        /\ \E delay : jobs'[k] = AfterFailure(jobs[k], delay)
                        /\ failures'[k] = failures[k] + 1,
           \A k \in Jobs \ S : jobs'[k] = jobs[k] /\ failures'[k] = failures[k]
    PROVE  Lifecycle!Lose(S)
<1>1. \A k \in S : LifePhase[k] = "executing"
  BY PhasesOfRows DEF LifePhase
<1>2. \A k \in S : Lifecycle!Retried(k) <=>
          (jobs[k].max - failures[k]) >
              (IF ResumePending(jobs[k]) THEN 2 ELSE 1)
  BY DEF Lifecycle!Retried, LifeLeft, LifeAnswered
<1>3. \A k \in S :
          /\ PhaseOf(jobs'[k]) =
                 (IF Lifecycle!Retried(k) THEN "ready" ELSE "done")
          /\ jobs'[k].max = jobs[k].max
          /\ ResumePending(jobs'[k]) <=>
                 ResumePending(jobs[k]) /\ Lifecycle!Retried(k)
  <2> TAKE k \in S
  <2>1. PICK delay : jobs'[k] = AfterFailure(jobs[k], delay)
    OBVIOUS
  <2>2. /\ jobs[k] \in JobRow /\ failures[k] \in Nat
        /\ BudgetKept(jobs[k], failures[k]) /\ jobs[k].status \in Owned
    BY DEF RowsInOrder, RowInOrder
  <2> QED BY <1>2, <2>1, <2>2, AfterFailureSeen
<1>4. LifePhase' = [k \in Jobs |->
          IF k \notin S THEN LifePhase[k]
          ELSE IF Lifecycle!Retried(k) THEN "ready" ELSE "done"]
  BY <1>3 DEF LifePhase
<1>5. LifeLeft' = [k \in Jobs |-> IF k \in S THEN LifeLeft[k] - 1
                                             ELSE LifeLeft[k]]
  <2>1. \A k \in S : jobs'[k].max - failures'[k]
                         = (jobs[k].max - failures[k]) - 1
    <3> TAKE k \in S
    <3>1. jobs[k].max \in Nat /\ failures[k] \in Nat
      BY DEF RowsInOrder, RowInOrder, JobRow
    <3>2. jobs'[k].max = jobs[k].max /\ failures'[k] = failures[k] + 1
      BY <1>3
    <3> QED BY <3>1, <3>2
  <2> QED BY <2>1 DEF LifeLeft
<1>6. LifeAnswered' = [k \in Jobs |->
          LifeAnswered[k] /\ (k \in S => Lifecycle!Retried(k))]
  <2>1. \A k \in Jobs : ResumePending(jobs'[k]) =
            (ResumePending(jobs[k]) /\ (k \in S => Lifecycle!Retried(k)))
    <3> TAKE k \in Jobs
    <3>1. CASE k \in S
      BY <1>3, <3>1 DEF ResumePending
    <3>2. CASE k \notin S
      BY <3>2 DEF ResumePending
    <3> QED BY <3>1, <3>2
  <2>2. \A k \in Jobs : LifeAnswered[k] = ResumePending(jobs[k])
    BY DEF LifeAnswered
  <2> QED BY <2>1, <2>2, Zenon DEF LifeAnswered
<1> QED BY <1>1, <1>4, <1>5, <1>6 DEF Lifecycle!Lose

LEMMA FailOrRequeueLoses ==
    ASSUME RowsInOrder, NEW w \in Workers, NEW j \in Jobs, FailOrRequeue(w, j)
    PROVE  Lifecycle!Lose({j})
<1>1. jobs[j].worker = w /\ w # None
  BY QueueAssumption DEF FailOrRequeue, CanFail
<1>2. jobs[j].status \in Owned
  BY <1>1 DEF RowsInOrder, RowInOrder, LeaseMatches
<1>3. /\ jobs'[j] = AfterFailure(jobs[j], RetryDelay)
      /\ failures'[j] = failures[j] + 1
  BY DEF RowsInOrder, FailOrRequeue
<1>4. \A k \in Jobs \ {j} : jobs'[k] = jobs[k] /\ failures'[k] = failures[k]
  BY DEF RowsInOrder, FailOrRequeue
<1> QED BY <1>2, <1>3, <1>4, FailuresAreLost

LEMMA RequeueExpiredLoses ==
    ASSUME RowsInOrder, RequeueExpired
    PROVE  Lifecycle!Lose(Abandoned)
<1>1. ASSUME NEW k \in Expired PROVE k \in Jobs /\ jobs[k].status \in Owned
  BY <1>1 DEF RowsInOrder, RowInOrder, LeaseMatches, Expired
<1>2. Abandoned = Expired /\ Expired # {} /\ Abandoned \in SUBSET Jobs
  BY <1>1 DEF Abandoned, Owned, Settled, Terminal, RequeueExpired
<1>3. \A k \in Abandoned : /\ jobs'[k] = AfterFailure(jobs[k], 0)
                           /\ failures'[k] = failures[k] + 1
  BY <1>2 DEF RequeueExpired
<1>4. \A k \in Jobs \ Abandoned :
          jobs'[k] = jobs[k] /\ failures'[k] = failures[k]
  BY DEF RequeueExpired
<1> QED BY <1>1, <1>2, <1>3, <1>4, FailuresAreLost

LEMMA TickIsInvisible ==
    ASSUME RowsInOrder, Tick
    PROVE  UNCHANGED Lifecycle!lifeVars
<1>1. \A j \in Jobs : /\ jobs'[j].status = jobs[j].status
                      /\ jobs'[j].max = jobs[j].max
                      /\ jobs'[j].resume = jobs[j].resume
                      /\ failures'[j] = failures[j]
  BY DEF Tick, RowsInOrder, RowInOrder, JobRow
<1>2. \A j \in Jobs : PhaseOf(jobs'[j]) = PhaseOf(jobs[j])
  BY <1>1 DEF PhaseOf
<1>3. \A j \in Jobs : ResumePending(jobs'[j]) = ResumePending(jobs[j])
  BY <1>1 DEF ResumePending
<1> QED BY <1>1, <1>2, <1>3, Invisible

LEMMA StepImplements ==
    ASSUME RowsInOrder, QueueCall
    PROVE  [Lifecycle!Next]_(Lifecycle!lifeVars)
<1>1. CASE ClientNext
  BY <1>1, EnqueueSubmits, EnqueueResumeAnswers
  DEF ClientNext, Lifecycle!Next
<1>2. ASSUME NEW w \in Workers, NEW j \in Jobs,
             \/ Claim(w, j)
             \/ MarkRunning(w, j)
             \/ FailOrRequeue(w, j)
             \/ \E status, i : Finish(w, j, status, i)
      PROVE  [Lifecycle!Next]_(Lifecycle!lifeVars)
  <2>1. CASE Claim(w, j)
    BY <2>1, ClaimStarts DEF Lifecycle!Next
  <2>2. CASE MarkRunning(w, j)
    BY <2>2, MarkRunningIsInvisible
  <2>3. CASE FailOrRequeue(w, j)
    <3>1. Lifecycle!Lose({j}) /\ {j} \in SUBSET Jobs
      BY <2>3, FailOrRequeueLoses
    <3> QED BY <3>1 DEF Lifecycle!Next
  <2>4. CASE \E status, i : Finish(w, j, status, i)
    BY <2>4, FinishStops DEF Lifecycle!Next
  <2> QED BY <1>2, <2>1, <2>2, <2>3, <2>4
<1>3. CASE RequeueExpired
  <2>1. Lifecycle!Lose(Abandoned) /\ Abandoned \in SUBSET Jobs
    BY <1>3, RequeueExpiredLoses DEF Abandoned, Expired
  <2> QED BY <2>1 DEF Lifecycle!Next
<1>4. CASE Tick
  BY <1>4, TickIsInvisible
<1>5. CASE UNCHANGED <<jobs, failures>>
  BY <1>5, Invisible
<1> QED BY <1>1, <1>2, <1>3, <1>4, <1>5 DEF QueueCall

LEMMA InitImplements == Init => Lifecycle!Init
<1> SUFFICES ASSUME Init PROVE Lifecycle!Init
  OBVIOUS
<1>1. \A j \in Jobs : jobs[j] = NoJob /\ failures[j] = 0
  BY DEF Init
<1>2. /\ NoJob.status = "none" /\ NoJob.max = 0 /\ NoJob.resume = NoResume
      /\ NoResume.status = "none"
  BY DEF NoJob, NoResume
<1>3. LifePhase = [j \in Jobs |-> "absent"]
  BY <1>1, <1>2, PhasesOfRows DEF LifePhase
<1>4. LifeLeft = [j \in Jobs |-> 0]
  BY <1>1, <1>2 DEF LifeLeft
<1>5. LifeAnswered = [j \in Jobs |-> FALSE]
  <2>1. \A j \in Jobs : ResumePending(jobs[j]) = FALSE
    BY <1>1, <1>2 DEF ResumePending
  <2> QED BY <2>1 DEF LifeAnswered
<1> QED BY <1>3, <1>4, <1>5 DEF Lifecycle!Init

\* Whatever workers, leases, delays and repeated requests do, a client sees
\* the lifecycle it was promised.
THEOREM QueueImplementsLifecycle == Spec => ImplementsLifecycle
<1>1. Init => Lifecycle!Init
  BY InitImplements
<1>2. QueueInvariant /\ [Next]_queueVars =>
          [Lifecycle!Next]_(Lifecycle!lifeVars)
  <2>1. QueueInvariant => RowsInOrder
    BY InvariantIsPerJob DEF Shape, OK, JobOK, RowsInOrder, RowInOrder
  <2>2. [Next]_queueVars => QueueCall
    BY DEF Next, WorkerNext, Heartbeat, queueVars, QueueCall
  <2> QED BY <2>1, <2>2, StepImplements
<1> QED BY <1>1, <1>2, QueueIsInvariant, PTL
        DEF Spec, ImplementsLifecycle, Lifecycle!Spec
=============================================================================
