----------------------- MODULE BackgroundWorkerProofs -----------------------
(***************************************************************************)
(* BackgroundWorker for any numbers of jobs, workers, interrupts and       *)
(* crashes: who may write a result, how often a job is executed, and which *)
(* interrupt a job shows while it waits for a human.                       *)
(*                                                                         *)
(* finalize_run writes the governance run behind the queue's back, so the  *)
(* queue's own invariant does not survive here.  What does is the part     *)
(* that leaves the run out, and the lemmas of JobQueueProofs, which are    *)
(* stated for the rows of one job, still say what each method does to it.  *)
(***************************************************************************)
EXTENDS BackgroundWorker, JobQueueProofs

\* How often a job was claimed: once for each failed execution and each
\* accepted answer, and once more while it is in an execution or has ended in
\* a question.
Counted(row, answers, failed, n) ==
    /\ row.status = "none" => n = 0
    /\ row.status \in Queued => n = failed + Cardinality(answers)
    /\ row.status \in Owned \cup {"waiting_human"} => n = failed + Cardinality(answers) + 1
    /\ row.status \in Terminal => n <= row.max + Cardinality(answers)

\* The rows of a job are in order, whatever finalize_run made of its run.
RowsFit(row, lease, answers, failed) ==
    \E run : JobOK(row, lease, run, answers, failed)

JobFits(row, lease, answers, failed, n) ==
    /\ n \in Nat
    /\ RowsFit(row, lease, answers, failed)
    /\ Counted(row, answers, failed, n)

LEMMA FitsFacts ==
    ASSUME NEW row, NEW lease, NEW answers, NEW failed, NEW n,
           JobFits(row, lease, answers, failed, n)
    PROVE  /\ row \in JobRow /\ lease \in LeaseRow /\ n \in Nat /\ failed \in Nat
           /\ answers \in SUBSET Answer /\ IsFiniteSet(answers) /\ Cardinality(answers) \in Nat
           /\ LeaseMatches(row, lease) /\ AnswerFits(row) /\ BudgetKept(row, failed)
           /\ HistoryFits(row, answers, failed)
           /\ Counted(row, answers, failed, n)
           /\ row.attempts \in Nat /\ row.max \in Nat /\ row.attempts <= row.max
<1>1. PICK run : JobOK(row, lease, run, answers, failed)
  BY DEF JobFits, RowsFit
<1>2. /\ row \in JobRow /\ lease \in LeaseRow /\ failed \in Nat /\ answers \in SUBSET Answer
      /\ LeaseMatches(row, lease) /\ AnswerFits(row) /\ BudgetKept(row, failed)
      /\ HistoryFits(row, answers, failed) /\ row.attempts <= row.max
  BY <1>1 DEF JobOK
<1>3. IsFiniteSet(answers)
  BY <1>2 DEF HistoryFits
<1>4. row.attempts \in Nat /\ row.max \in Nat
  BY <1>2 DEF JobRow
<1>. QED  BY <1>2, <1>3, <1>4, FS_CardinalityType DEF JobFits

(***************************************************************************)
(* What the queue's methods make of the rows of one job.                   *)
(***************************************************************************)
LEMMA NewJobFits ==
    ASSUME NEW row, NEW lease, NEW answers, NEW failed, NEW n,
           JobFits(row, lease, answers, failed, n), row.status = "none",
           NEW limit \in AttemptLimits
    PROVE  /\ JobFits(NewJob(limit), lease, answers, failed, n)
           /\ NewJob(limit).worker = None /\ NewJob(limit).interrupt = None
<1>. DEFINE new == NewJob(limit)
            run == [NoRun EXCEPT !.status = "queued"]
<1>1. new.status = "queued" /\ new.worker = None /\ new.interrupt = None
  BY DEF NewJob, NoJob
<1>2. answers = {} /\ failed = 0 /\ n = 0 /\ lease \in LeaseRow /\ lease.status # "active"
  <2>1. row = NoJob
    BY FitsFacts DEF HistoryFits
  <2>. QED  BY <2>1, FitsFacts DEF HistoryFits, Counted, LeaseMatches, Owned
<1>3. JobOK(new, NoLease, run, {}, 0)
  BY NewJobOK
<1>. HIDE DEF new, run
<1>4. JobOK(new, lease, run, answers, failed)
  BY <1>1, <1>2, <1>3 DEF JobOK, LeaseMatches, Owned
<1>5. Counted(new, answers, failed, n)
  <2>1. Cardinality({}) = 0
    BY FS_EmptySet
  <2>. QED  BY <1>1, <1>2, <2>1 DEF Counted, Queued, Owned, Terminal
<1>6. JobFits(new, lease, answers, failed, n) /\ new.worker = None /\ new.interrupt = None
  BY <1>1, <1>2, <1>4, <1>5 DEF JobFits, RowsFit
<1>. QED  BY <1>6 DEF new

LEMMA AnsweredFits ==
    ASSUME NEW row, NEW lease, NEW answers, NEW failed, NEW n,
           JobFits(row, lease, answers, failed, n), NEW x \in Answer,
           row.status = "waiting_human", row.interrupt = x.interrupt
    PROVE  /\ JobFits(Answered(row, x), lease, answers \cup {x}, failed, n)
           /\ Answered(row, x).worker = row.worker /\ Answered(row, x).interrupt = row.interrupt
<1>. DEFINE new == Answered(row, x)
<1>1. PICK run : JobOK(row, lease, run, answers, failed)
  BY DEF JobFits, RowsFit
<1>2. JobOK(new, lease, [run EXCEPT !.status = "queued"], answers \cup {x}, failed)
  BY <1>1, QueueResumeOK
<1>3. row \in JobRow /\ IsFiniteSet(answers) /\ x \notin answers /\ n = failed + Cardinality(answers) + 1
  BY FitsFacts DEF HistoryFits, Counted, Settled
<1>4. new.status = "resume_queued" /\ new.worker = row.worker /\ new.interrupt = row.interrupt
  BY <1>3 DEF Answered, JobRow
<1>. HIDE DEF new
<1>5. Cardinality(answers \cup {x}) = Cardinality(answers) + 1
  BY <1>3, FS_AddElement
<1>6. Counted(new, answers \cup {x}, failed, n)
  <2>1. failed \in Nat /\ Cardinality(answers) \in Nat
    BY FitsFacts
  <2>. QED  BY <1>3, <1>4, <1>5, <2>1 DEF Counted, Queued, Owned, Terminal
<1>7. n \in Nat
  BY FitsFacts
<1>8. JobFits(new, lease, answers \cup {x}, failed, n)
  BY <1>2, <1>6, <1>7 DEF JobFits, RowsFit
<1>. QED  BY <1>4, <1>8 DEF new

LEMMA ClaimedFits ==
    ASSUME NEW row, NEW lease, NEW answers, NEW failed, NEW n,
           JobFits(row, lease, answers, failed, n),
           NEW w \in Workers, row.status \in Queued
    PROVE  /\ JobFits(ClaimedBy(row, w), Activated(w), answers, failed, n + 1)
           /\ ClaimedBy(row, w).worker = w /\ ClaimedBy(row, w).interrupt = row.interrupt
<1>. DEFINE new == ClaimedBy(row, w)
<1>1. PICK run : JobOK(row, lease, run, answers, failed)
  BY DEF JobFits, RowsFit
<1>2. JobOK(new, Activated(w), [run EXCEPT !.status = "queued"], answers, failed)
  BY <1>1, ClaimOK
<1>3. row \in JobRow /\ n \in Nat /\ n = failed + Cardinality(answers)
      /\ failed \in Nat /\ Cardinality(answers) \in Nat
  BY FitsFacts DEF Counted
<1>4. new.status = "leased" /\ new.worker = w /\ new.interrupt = row.interrupt
  BY <1>3 DEF ClaimedBy, JobRow
<1>. HIDE DEF new
<1>5. Counted(new, answers, failed, n + 1)
  BY <1>3, <1>4 DEF Counted, Queued, Owned, Terminal
<1>6. JobFits(new, Activated(w), answers, failed, n + 1)
  BY <1>2, <1>3, <1>5 DEF JobFits, RowsFit
<1>. QED  BY <1>4, <1>6 DEF new

LEMMA StartedFits ==
    ASSUME NEW row, NEW lease, NEW answers, NEW failed, NEW n,
           JobFits(row, lease, answers, failed, n), row.status = "leased"
    PROVE  LET new == [row EXCEPT !.status = "running"] IN
           /\ JobFits(new, lease, answers, failed, n)
           /\ new.worker = row.worker /\ new.interrupt = row.interrupt
<1>. DEFINE new == [row EXCEPT !.status = "running"]
<1>1. PICK run : JobOK(row, lease, run, answers, failed)
  BY DEF JobFits, RowsFit
<1>2. JobOK(new, lease, [run EXCEPT !.status = "running"], answers, failed)
  BY <1>1, MarkRunningOK
<1>3. row \in JobRow /\ n \in Nat /\ Counted(row, answers, failed, n)
  BY FitsFacts
<1>4. new.status = "running" /\ new.worker = row.worker /\ new.interrupt = row.interrupt
  BY <1>3 DEF JobRow
<1>. HIDE DEF new
<1>5. Counted(new, answers, failed, n)
  BY <1>3, <1>4 DEF Counted, Queued, Owned, Terminal
<1>6. JobFits(new, lease, answers, failed, n)
  BY <1>2, <1>3, <1>5 DEF JobFits, RowsFit
<1>. QED  BY <1>4, <1>6 DEF new

\* A claim that ends with a result was not paid for by a failure: the budget
\* has room for it.
LEMMA FinishedFits ==
    ASSUME NEW row, NEW lease, NEW answers, NEW failed, NEW n,
           JobFits(row, lease, answers, failed, n), row.status \in Owned,
           NEW status, NEW interrupt, Outcome(status, interrupt),
           \A a \in answers : a.interrupt # interrupt
    PROVE  LET new == FinishedAs(row, status, interrupt) IN
           /\ JobFits(new, Closed(lease, "released"), answers, failed, n)
           /\ new.worker = None /\ new.interrupt = interrupt
<1>. DEFINE new == FinishedAs(row, status, interrupt)
<1>1. PICK run : JobOK(row, lease, run, answers, failed)
  BY DEF JobFits, RowsFit
<1>2. JobOK(new, Closed(lease, "released"),
            [status |-> status, finished |-> run.finished \/ status \in Terminal], answers, failed)
  BY <1>1, FinishOK
<1>3. /\ row \in JobRow /\ n \in Nat /\ Counted(row, answers, failed, n) /\ BudgetKept(row, failed)
      /\ failed \in Nat /\ Cardinality(answers) \in Nat /\ row.attempts <= row.max
      /\ row.attempts \in Nat /\ row.max \in Nat
  BY FitsFacts
<1>4. /\ new.status = status /\ new.worker = None /\ new.interrupt = interrupt /\ new.max = row.max
  BY <1>3 DEF FinishedAs, JobRow
<1>. HIDE DEF new
<1>5. n = failed + Cardinality(answers) + 1 /\ failed + 1 <= row.max
  BY <1>3 DEF Counted, BudgetKept
<1>6. Counted(new, answers, failed, n)
  BY <1>3, <1>4, <1>5 DEF Counted, Queued, Owned, Terminal, Outcome
<1>7. JobFits(new, Closed(lease, "released"), answers, failed, n)
  BY <1>2, <1>3, <1>6 DEF JobFits, RowsFit
<1>. QED  BY <1>4, <1>7 DEF new

LEMMA FailedFits ==
    ASSUME NEW row, NEW lease, NEW answers, NEW failed, NEW n,
           JobFits(row, lease, answers, failed, n), row.status \in Owned,
           NEW delay \in Nat, NEW state \in {"released", "expired"}
    PROVE  LET new == AfterFailure(row, delay) IN
           /\ JobFits(new, Closed(lease, state), answers, failed + 1, n)
           /\ new.worker = None /\ new.interrupt \in {None, row.interrupt}
<1>. DEFINE new == AfterFailure(row, delay)
<1>1. PICK run : JobOK(row, lease, run, answers, failed)
  BY DEF JobFits, RowsFit
<1>2. JobOK(new, Closed(lease, state), RunAfterFailure(row, run), answers, failed + 1)
  BY <1>1, AfterFailureOK
<1>3. /\ row \in JobRow /\ n \in Nat /\ Counted(row, answers, failed, n)
      /\ failed \in Nat /\ Cardinality(answers) \in Nat
  BY FitsFacts
<1>4. /\ new.status \in Queued \cup {"failed"} /\ new.worker = None
      /\ new.interrupt \in {None, row.interrupt} /\ new.max = row.max
  <2>1. CASE CanRetry(row)
    <3>1. new = Requeued(row, delay)
      BY <2>1 DEF AfterFailure
    <3>. HIDE DEF new
    <3>. QED  BY <1>3, <3>1 DEF Requeued, JobRow, Queued
  <2>2. CASE ~CanRetry(row)
    <3>1. new = FailedForGood(row)
      BY <2>2 DEF AfterFailure
    <3>. HIDE DEF new
    <3>. QED  BY <1>3, <3>1 DEF FailedForGood, JobRow
  <2>. QED  BY <2>1, <2>2
<1>. HIDE DEF new
<1>5. n = failed + Cardinality(answers) + 1
  BY <1>3 DEF Counted
<1>6. failed + 1 <= new.max /\ new.max \in Nat
  BY <1>2 DEF JobOK, BudgetKept, JobRow
<1>7. Counted(new, answers, failed + 1, n)
  BY <1>3, <1>4, <1>5, <1>6 DEF Counted, Queued, Owned, Terminal
<1>8. JobFits(new, Closed(lease, state), answers, failed + 1, n)
  BY <1>2, <1>3, <1>7 DEF JobFits, RowsFit
<1>. QED  BY <1>4, <1>8 DEF new

LEMMA AgedFits ==
    ASSUME NEW row, NEW lease, NEW answers, NEW failed, NEW n,
           JobFits(row, lease, answers, failed, n), row.status \in Queued
    PROVE  LET new == [row EXCEPT !.due = @ + 1] IN
           /\ JobFits(new, lease, answers, failed, n)
           /\ new.worker = row.worker /\ new.interrupt = row.interrupt
<1>. DEFINE new == [row EXCEPT !.due = row.due + 1]
<1>1. PICK run : JobOK(row, lease, run, answers, failed)
  BY DEF JobFits, RowsFit
<1>2. JobOK(new, lease, run, answers, failed)
  BY <1>1, AgeingOK
<1>3. row \in JobRow /\ n \in Nat /\ Counted(row, answers, failed, n)
  BY FitsFacts
<1>4. /\ new.status = row.status /\ new.worker = row.worker /\ new.interrupt = row.interrupt
      /\ new.max = row.max
  BY <1>3 DEF JobRow
<1>. HIDE DEF new
<1>5. Counted(new, answers, failed, n)
  BY <1>3, <1>4 DEF Counted
<1>6. JobFits(new, lease, answers, failed, n)
  BY <1>2, <1>3, <1>5 DEF JobFits, RowsFit
<1>. QED  BY <1>4, <1>6 DEF new

LEMMA LeaseTimeFits ==
    ASSUME NEW row, NEW lease, NEW answers, NEW failed, NEW n,
           JobFits(row, lease, answers, failed, n), NEW x \in Nat
    PROVE  JobFits(row, [lease EXCEPT !.left = x], answers, failed, n)
<1>1. PICK run : JobOK(row, lease, run, answers, failed)
  BY DEF JobFits, RowsFit
<1>2. JobOK(row, [lease EXCEPT !.left = x], run, answers, failed)
  BY <1>1, LeaseTimeOK
<1>. QED  BY <1>2 DEF JobFits, RowsFit

(***************************************************************************)
(* What a step of the queue makes of every job.                            *)
(***************************************************************************)
QueueShape ==
    /\ jobs = [j \in Jobs |-> jobs[j]]
    /\ leases = [j \in Jobs |-> leases[j]]
    /\ accepted = [j \in Jobs |-> accepted[j]]
    /\ failures = [j \in Jobs |-> failures[j]]

SystemJob(j) == JobFits(jobs[j], leases[j], accepted[j], failures[j], claims[j])

Orderly == QueueShape /\ \A j \in Jobs : SystemJob(j)

\* A step that is no claim leaves a job's owner or drops it, and gives it no
\* interrupt but x, which is None unless an execution ends in a question.
Moved(j, x) ==
    /\ JobFits(jobs'[j], leases'[j], accepted'[j], failures'[j], claims[j])
    /\ jobs'[j].worker \in {None, jobs[j].worker}
    /\ jobs'[j].interrupt \in {None, jobs[j].interrupt, x}
    /\ \A a \in accepted'[j] : a \in accepted[j] \/ a.interrupt = jobs[j].interrupt

Untouched(j) ==
    /\ jobs'[j] = jobs[j] /\ leases'[j] = leases[j]
    /\ accepted'[j] = accepted[j] /\ failures'[j] = failures[j]

LEMMA UntouchedMoves ==
    ASSUME Orderly, NEW j \in Jobs, Untouched(j), NEW x
    PROVE  Moved(j, x)
BY DEF Orderly, SystemJob, Untouched, Moved

LEMMA EnqueueMoves ==
    ASSUME Orderly, NEW j \in Jobs, NEW limit \in AttemptLimits, Enqueue(j, limit)
    PROVE  QueueShape' /\ \A k \in Jobs : Moved(k, None)
<1>1. QueueShape' /\ \A k \in Jobs \ {j} : Untouched(k)
  BY DEF Orderly, QueueShape, Enqueue, Untouched
<1>2. /\ jobs[j].status = "none" /\ jobs'[j] = NewJob(limit) /\ leases'[j] = leases[j]
      /\ accepted'[j] = accepted[j] /\ failures'[j] = failures[j]
  BY DEF Orderly, QueueShape, Enqueue
<1>3. Moved(j, None)
  BY <1>2, NewJobFits DEF Orderly, SystemJob, Moved
<1>. QED  BY <1>1, <1>3, UntouchedMoves

LEMMA ResumeMoves ==
    ASSUME Orderly, NEW j \in Jobs, NEW a \in Answer, EnqueueResume(j, a)
    PROVE  QueueShape' /\ \A k \in Jobs : Moved(k, None)
<1>1. QueueShape' /\ \A k \in Jobs \ {j} : Untouched(k)
  BY DEF Orderly, QueueShape, EnqueueResume, Untouched
<1>2. SystemJob(j)
  BY DEF Orderly
<1>3. CASE SameRequest(jobs[j].resume, a)
  <2>1. accepted[j] \cup {a} = accepted[j]
    <3>1. Given(jobs[j].resume) \in accepted[j]
      BY <1>2, <1>3, FitsFacts DEF SystemJob, HistoryFits, SameRequest
    <3>2. Given(jobs[j].resume) = a
      BY <1>3 DEF Given, SameRequest, Answer
    <3>. QED  BY <3>1, <3>2
  <2>2. Untouched(j)
    BY <1>3, <2>1 DEF Orderly, QueueShape, EnqueueResume, Untouched
  <2>. QED  BY <1>1, <2>2, UntouchedMoves
<1>4. CASE ~SameRequest(jobs[j].resume, a)
  <2>1. jobs[j].status = "waiting_human" /\ jobs[j].interrupt = a.interrupt
    BY <1>4 DEF EnqueueResume, ResumeReply, Awaits
  <2>2. /\ jobs'[j] = Answered(jobs[j], a) /\ leases'[j] = leases[j]
        /\ accepted'[j] = accepted[j] \cup {a} /\ failures'[j] = failures[j]
    BY <1>4 DEF Orderly, QueueShape, EnqueueResume
  <2>3. Moved(j, None)
    BY <1>2, <2>1, <2>2, AnsweredFits DEF SystemJob, Moved
  <2>. QED  BY <1>1, <2>3, UntouchedMoves
<1>. QED  BY <1>3, <1>4

LEMMA StartMoves ==
    ASSUME Orderly, NEW w \in Workers, NEW j \in Jobs, MarkRunning(w, j)
    PROVE  QueueShape' /\ \A k \in Jobs : Moved(k, None)
<1>1. QueueShape' /\ \A k \in Jobs \ {j} : Untouched(k)
  BY DEF Orderly, QueueShape, MarkRunning, Untouched
<1>2. /\ jobs[j].status = "leased" /\ jobs'[j] = [jobs[j] EXCEPT !.status = "running"]
      /\ leases'[j] = leases[j] /\ accepted'[j] = accepted[j] /\ failures'[j] = failures[j]
  BY DEF Orderly, QueueShape, MarkRunning, CanMarkRunning
<1>3. Moved(j, None)
  <2>. DEFINE new == [jobs[j] EXCEPT !.status = "running"]
  <2>1. JobFits(new, leases[j], accepted[j], failures[j], claims[j])
        /\ new.worker = jobs[j].worker /\ new.interrupt = jobs[j].interrupt
    BY <1>2, StartedFits DEF Orderly, SystemJob
  <2>. HIDE DEF new
  <2>2. jobs'[j] = new
    BY <1>2 DEF new
  <2>. QED  BY <1>2, <2>1, <2>2 DEF Moved
<1>. QED  BY <1>1, <1>3, UntouchedMoves

LEMMA HeartbeatMoves ==
    ASSUME Orderly, NEW w \in Workers, NEW j \in Jobs, Heartbeat(w, j)
    PROVE  QueueShape' /\ \A k \in Jobs : Moved(k, None)
<1>1. QueueShape' /\ \A k \in Jobs \ {j} : Untouched(k)
  BY DEF Orderly, QueueShape, Heartbeat, Untouched
<1>2. /\ jobs'[j] = jobs[j] /\ leases'[j] = [leases[j] EXCEPT !.left = LeaseTerm]
      /\ accepted'[j] = accepted[j] /\ failures'[j] = failures[j] /\ LeaseTerm \in Nat
  BY QueueAssumption DEF Orderly, QueueShape, Heartbeat
<1>3. Moved(j, None)
  BY <1>2, LeaseTimeFits DEF Orderly, SystemJob, Moved
<1>. QED  BY <1>1, <1>3, UntouchedMoves

LEMMA FinishMoves ==
    ASSUME Orderly, NEW w \in Workers, NEW j \in Jobs, NEW status, NEW interrupt,
           Finish(w, j, status, interrupt), \A a \in accepted[j] : a.interrupt # interrupt
    PROVE  QueueShape' /\ Moved(j, interrupt) /\ \A k \in Jobs \ {j} : Moved(k, None)
<1>1. QueueShape' /\ \A k \in Jobs \ {j} : Untouched(k)
  BY DEF Orderly, QueueShape, Finish, Untouched
<1>2. /\ jobs[j].status \in Owned /\ Outcome(status, interrupt)
      /\ jobs'[j] = FinishedAs(jobs[j], status, interrupt)
      /\ leases'[j] = Closed(leases[j], "released")
      /\ accepted'[j] = accepted[j] /\ failures'[j] = failures[j]
  BY DEF Orderly, QueueShape, Finish, CanFinish
<1>3. Moved(j, interrupt)
  BY <1>2, FinishedFits DEF Orderly, SystemJob, Moved
<1>. QED  BY <1>1, <1>3, UntouchedMoves

LEMMA FailMoves ==
    ASSUME Orderly, NEW w \in Workers, NEW j \in Jobs, FailOrRequeue(w, j)
    PROVE  QueueShape' /\ \A k \in Jobs : Moved(k, None)
<1>1. QueueShape' /\ \A k \in Jobs \ {j} : Untouched(k)
  BY DEF Orderly, QueueShape, FailOrRequeue, Untouched
<1>2. /\ jobs[j].worker = w /\ jobs'[j] = AfterFailure(jobs[j], RetryDelay)
      /\ leases'[j] = Closed(leases[j], "released")
      /\ accepted'[j] = accepted[j] /\ failures'[j] = failures[j] + 1
      /\ RetryDelay \in Nat /\ w # None
  BY QueueAssumption DEF Orderly, QueueShape, FailOrRequeue, CanFail
<1>3. jobs[j].status \in Owned
  BY <1>2, FitsFacts DEF Orderly, SystemJob, LeaseMatches
<1>4. Moved(j, None)
  BY <1>2, <1>3, FailedFits DEF Orderly, SystemJob, Moved
<1>. QED  BY <1>1, <1>4, UntouchedMoves

LEMMA SweepMoves ==
    ASSUME Orderly, RequeueExpired
    PROVE  QueueShape' /\ \A k \in Jobs : Moved(k, None)
<1>1. QueueShape'
  BY DEF Orderly, QueueShape, RequeueExpired
<1>2. ASSUME NEW j \in Jobs PROVE Moved(j, None)
  <2>1. SystemJob(j)
    BY DEF Orderly
  <2>2. CASE j \in Expired
    <3>1. jobs[j].status \in Owned
      BY <2>1, <2>2, FitsFacts DEF SystemJob, LeaseMatches, Expired
    <3>2. j \in Abandoned
      BY <2>2, <3>1 DEF Abandoned, Owned, Settled, Terminal
    <3>3. /\ jobs'[j] = AfterFailure(jobs[j], 0) /\ leases'[j] = Closed(leases[j], "expired")
          /\ accepted'[j] = accepted[j] /\ failures'[j] = failures[j] + 1
      BY <2>2, <3>2 DEF RequeueExpired
    <3>. QED  BY <2>1, <3>1, <3>3, FailedFits DEF SystemJob, Moved
  <2>3. CASE j \notin Expired
    <3>1. j \notin Abandoned
      BY <2>3 DEF Abandoned
    <3>2. Untouched(j)
      BY <2>3, <3>1 DEF RequeueExpired, Untouched
    <3>. QED  BY <3>2, UntouchedMoves
  <2>. QED  BY <2>2, <2>3
<1>. QED  BY <1>1, <1>2

LEMMA TickMoves ==
    ASSUME Orderly, Tick
    PROVE  QueueShape' /\ \A k \in Jobs : Moved(k, None)
<1>1. QueueShape'
  BY DEF Orderly, QueueShape, Tick
<1>2. ASSUME NEW j \in Jobs PROVE Moved(j, None)
  <2>. DEFINE row   == IF Ageing(j) THEN [jobs[j] EXCEPT !.due = @ + 1] ELSE jobs[j]
              lease == IF Running(j) THEN [leases[j] EXCEPT !.left = @ - 1] ELSE leases[j]
  <2>1. SystemJob(j)
    BY DEF Orderly
  <2>2. /\ JobFits(row, leases[j], accepted[j], failures[j], claims[j])
        /\ row.worker = jobs[j].worker /\ row.interrupt = jobs[j].interrupt
    <3>1. CASE Ageing(j)
      <4>. DEFINE new == [jobs[j] EXCEPT !.due = @ + 1]
      <4>1. /\ JobFits(new, leases[j], accepted[j], failures[j], claims[j])
            /\ new.worker = jobs[j].worker /\ new.interrupt = jobs[j].interrupt
        BY <2>1, <3>1, AgedFits DEF SystemJob, Ageing
      <4>2. row = new
        BY <3>1
      <4>. HIDE DEF new, row
      <4>. QED  BY <4>1, <4>2
    <3>2. CASE ~Ageing(j)
      BY <2>1, <3>2 DEF SystemJob
    <3>. QED  BY <3>1, <3>2
  <2>3. JobFits(row, lease, accepted[j], failures[j], claims[j])
    <3>1. CASE Running(j)
      <4>1. leases[j].left - 1 \in Nat
        BY <2>1, <3>1, FitsFacts DEF Running, SystemJob, LeaseRow
      <4>. HIDE DEF row
      <4>. QED  BY <2>2, <3>1, <4>1, LeaseTimeFits
    <3>2. CASE ~Running(j)
      BY <2>2, <3>2
    <3>. QED  BY <3>1, <3>2
  <2>4. /\ jobs'[j] = row /\ leases'[j] = lease
        /\ accepted'[j] = accepted[j] /\ failures'[j] = failures[j]
    BY DEF Tick
  <2>. HIDE DEF row, lease
  <2>. QED  BY <2>2, <2>3, <2>4 DEF Moved
<1>. QED  BY <1>1, <1>2

(***************************************************************************)
(* The system's invariant.                                                 *)
(***************************************************************************)
Executing(p) == p.pc \notin {"idle", "swept", "down"}
Asking(p)    == p.pc \in {"returned", "stopped"} /\ p.outcome.interrupt # None

\* Process p is about to report that its execution of job j stopped at
\* interrupt i.
Asks(p, j, i) == Asking(p) /\ p.job = j /\ p.outcome.interrupt = i

\* Its execution raised the interrupt itself, so nobody has seen it yet.
QuestionIsNew(w, j, i) ==
    /\ i \in raised[j]
    /\ jobs[j].interrupt # i
    /\ \A a \in accepted[j] : a.interrupt # i
    /\ \A v \in Workers \ {w} : ~Asks(me[v], j, i)

QuestionsAreNew ==
    \A w \in Workers, j \in Jobs, i \in Interrupts : Asks(me[w], j, i) => QuestionIsNew(w, j, i)

\* What rows and answers name was raised.
InterruptsKnown ==
    \A j \in Jobs : /\ jobs[j].interrupt \in raised[j] \cup {None}
                    /\ \A a \in accepted[j] : a.interrupt \in raised[j]

\* A worker that still owns its job was the last to claim it.
OwnersAreLatest ==
    \A w \in Workers :
        Executing(me[w]) => /\ Held(w) \in Jobs
                            /\ jobs[Held(w)].worker = w => me[w].claim = claims[Held(w)]

FinalHasNoQuestion ==
    \A w \in Workers : me[w].pc = "finalized" => me[w].outcome.interrupt = None

SystemInvariant ==
    /\ WorkerTypeOK
    /\ Orderly
    /\ InterruptsKnown
    /\ QuestionsAreNew
    /\ OwnersAreLatest
    /\ FinalHasNoQuestion

(***************************************************************************)
(* Steps of a worker process.                                              *)
(***************************************************************************)
\* A process goes on with the job it holds, or lets go of it, and learns of no
\* new interrupt.
GoesOn(p, q) ==
    /\ Executing(q) => Executing(p) /\ q.job = p.job /\ q.claim = p.claim
    /\ Asking(q) => Asking(p) /\ q.outcome = p.outcome
    /\ q.pc = "finalized" => q.outcome.interrupt = None

LEMMA ProcessUpdates ==
    ASSUME NEW p \in Process
    PROVE  /\ \A x \in Pcs : [p EXCEPT !.pc = x] \in Process
           /\ \A x \in BOOLEAN : [p EXCEPT !.beating = x] \in Process
           /\ \A x \in BOOLEAN : [p EXCEPT !.broken = x] \in Process
           /\ \A x \in [status: Settled \cup {"none"}, interrupt: Interrupts \cup {None}] :
                  [p EXCEPT !.outcome = x] \in Process
BY DEF Process

LEMMA IdleProcess ==
    /\ Idle \in Process /\ [Idle EXCEPT !.pc = "down"] \in Process
    /\ ~Executing(Idle) /\ ~Executing([Idle EXCEPT !.pc = "down"])
    /\ \A p : GoesOn(p, Idle) /\ GoesOn(p, [Idle EXCEPT !.pc = "down"])
<1>1. Idle \in Process /\ Idle.pc = "idle"
  BY DEF Idle, Process, Pcs, NoResume, NoOutcome, ResumeStatus
<1>. DEFINE down == [Idle EXCEPT !.pc = "down"]
<1>2. "down" \in Pcs
  BY DEF Pcs
<1>3. down \in Process /\ down.pc = "down"
  BY <1>1, <1>2, ProcessUpdates DEF Process
<1>. HIDE DEF down
<1>4. ~Executing(Idle) /\ ~Executing(down) /\ \A p : GoesOn(p, Idle) /\ GoesOn(p, down)
  BY <1>1, <1>3 DEF Executing, GoesOn, Asking
<1>. QED  BY <1>1, <1>3, <1>4 DEF down

LEMMA OneProcess ==
    ASSUME WorkerTypeOK, NEW w \in Workers, NEW q \in Process, me' = [me EXCEPT ![w] = q]
    PROVE  /\ me' \in [Workers -> Process] /\ me'[w] = q
           /\ \A v \in Workers \ {w} : me'[v] = me[v]
BY DEF WorkerTypeOK

RestTyped ==
    /\ late' \in [Workers -> SUBSET Jobs]
    /\ checkpoint' \in [Jobs -> [state: {"none", "live", "over", "parked"},
                                 interrupt: Interrupts \cup {None}]]
    /\ crashes' \in 0..MaxCrashes

LEMMA RestKeepsType ==
    ASSUME WorkerTypeOK, UNCHANGED <<late, checkpoint, crashes>>
    PROVE  RestTyped
BY DEF WorkerTypeOK, RestTyped

\* A job gets an interrupt only from the worker whose execution raised it.
JobMoves(k) ==
    \/ Moved(k, None)
    \/ \E x \in raised[k] : Moved(k, x) /\ \A v \in Workers : ~Asks(me'[v], k, x)

\* A step that claims nothing and raises nothing.
LEMMA StepKeepsInvariant ==
    ASSUME SystemInvariant, me' \in [Workers -> Process], RestTyped,
           QueueShape', \A k \in Jobs : JobMoves(k), UNCHANGED <<claims, raised>>,
           \A v \in Workers : me'[v] = me[v] \/ GoesOn(me[v], me'[v])
    PROVE  SystemInvariant'
<1>1. WorkerTypeOK'
  BY DEF SystemInvariant, WorkerTypeOK, RestTyped
<1>2. \A k \in Jobs : raised[k] \in SUBSET Interrupts /\ None \notin Interrupts
  BY QueueAssumption DEF SystemInvariant, WorkerTypeOK
<1>3. ASSUME NEW k \in Jobs
      PROVE  /\ JobFits(jobs'[k], leases'[k], accepted'[k], failures'[k], claims[k])
             /\ jobs'[k].worker \in {None, jobs[k].worker}
             /\ jobs'[k].interrupt \in {None, jobs[k].interrupt} \cup raised[k]
             /\ \A a \in accepted'[k] : a \in accepted[k] \/ a.interrupt = jobs[k].interrupt
             /\ \A a \in accepted'[k] : a.interrupt \in Interrupts
             /\ \A v \in Workers : Asks(me'[v], k, jobs'[k].interrupt)
                    => jobs'[k].interrupt = jobs[k].interrupt
  <2>1. JobMoves(k)
    OBVIOUS
  <2>2. \A v \in Workers : ~Asks(me'[v], k, None)
    BY DEF Asks, Asking
  <2>3. CASE Moved(k, None)
    <3>1. jobs'[k].interrupt \in {None, jobs[k].interrupt}
      BY <2>3 DEF Moved
    <3>2. \A v \in Workers : Asks(me'[v], k, jobs'[k].interrupt) => jobs'[k].interrupt = jobs[k].interrupt
      BY <2>2, <3>1
    <3>3. accepted'[k] \in SUBSET Answer
      BY <2>3, FitsFacts DEF Moved
    <3>4. \A a \in accepted'[k] : a.interrupt \in Interrupts
      BY <3>3 DEF Answer
    <3>. QED  BY <2>3, <3>1, <3>2, <3>4 DEF Moved
  <2>4. ASSUME NEW x \in raised[k], Moved(k, x), \A v \in Workers : ~Asks(me'[v], k, x)
        PROVE  /\ JobFits(jobs'[k], leases'[k], accepted'[k], failures'[k], claims[k])
               /\ jobs'[k].worker \in {None, jobs[k].worker}
               /\ jobs'[k].interrupt \in {None, jobs[k].interrupt} \cup raised[k]
               /\ \A a \in accepted'[k] : a \in accepted[k] \/ a.interrupt = jobs[k].interrupt
               /\ \A a \in accepted'[k] : a.interrupt \in Interrupts
               /\ \A v \in Workers : Asks(me'[v], k, jobs'[k].interrupt)
                      => jobs'[k].interrupt = jobs[k].interrupt
    <3>1. jobs'[k].interrupt \in {None, jobs[k].interrupt, x}
      BY <2>4 DEF Moved
    <3>2. \A v \in Workers : Asks(me'[v], k, jobs'[k].interrupt) => jobs'[k].interrupt = jobs[k].interrupt
      BY <2>2, <2>4, <3>1
    <3>3. accepted'[k] \in SUBSET Answer
      BY <2>4, FitsFacts DEF Moved
    <3>4. \A a \in accepted'[k] : a.interrupt \in Interrupts
      BY <3>3 DEF Answer
    <3>. QED  BY <2>4, <3>1, <3>2, <3>4 DEF Moved
  <2>. QED  BY <2>1, <2>3, <2>4 DEF JobMoves
<1>4. Orderly'
  BY <1>3 DEF Orderly, SystemJob
<1>5. InterruptsKnown'
  <2>. SUFFICES ASSUME NEW k \in Jobs
                PROVE  /\ jobs'[k].interrupt \in raised[k] \cup {None}
                       /\ \A a \in accepted'[k] : a.interrupt \in raised[k]
    BY DEF InterruptsKnown
  <2>. QED  BY <1>2, <1>3 DEF SystemInvariant, InterruptsKnown
<1>6. ASSUME NEW v \in Workers, NEW k, NEW i, Asks(me'[v], k, i) PROVE Asks(me[v], k, i)
  BY <1>6 DEF Asks, GoesOn, Asking, Executing
<1>7. QuestionsAreNew'
  <2>. SUFFICES ASSUME NEW w \in Workers, NEW k \in Jobs, NEW i \in Interrupts, Asks(me'[w], k, i)
                PROVE  QuestionIsNew(w, k, i)'
    BY DEF QuestionsAreNew
  <2>1. Asks(me[w], k, i) /\ QuestionIsNew(w, k, i)
    BY <1>6 DEF SystemInvariant, QuestionsAreNew
  <2>5. i \in raised'[k]
    BY <2>1 DEF QuestionIsNew
  <2>6. \A v \in Workers \ {w} : ~Asks(me[v], k, i)
    BY <2>1 DEF QuestionIsNew
  <2>2. \A v \in Workers \ {w} : ~Asks(me'[v], k, i)
    BY <2>6, <1>6
  <2>3. jobs'[k].interrupt # i
    BY <2>1, <1>3 DEF QuestionIsNew
  <2>4. \A a \in accepted'[k] : a.interrupt # i
    BY <2>1, <1>3 DEF QuestionIsNew
  <2>. QED  BY <2>5, <2>2, <2>3, <2>4 DEF QuestionIsNew
<1>8. OwnersAreLatest'
  <2>. SUFFICES ASSUME NEW w \in Workers, Executing(me'[w])
                PROVE  /\ me'[w].job \in Jobs
                       /\ jobs'[me'[w].job].worker = w => me'[w].claim = claims[me'[w].job]
    BY DEF OwnersAreLatest, Held
  <2>1. Executing(me[w]) /\ me'[w].job = me[w].job /\ me'[w].claim = me[w].claim
    BY DEF GoesOn
  <2>2. w # None
    BY QueueAssumption
  <2>. QED  BY <2>1, <2>2, <1>3 DEF SystemInvariant, OwnersAreLatest, Held
<1>9. FinalHasNoQuestion'
  BY DEF SystemInvariant, FinalHasNoQuestion, GoesOn
<1>. QED  BY <1>1, <1>4, <1>5, <1>7, <1>8, <1>9 DEF SystemInvariant

\* The same for a step that leaves the queue alone, but perhaps for the run.
LEMMA QueueAtRest ==
    ASSUME Orderly, UNCHANGED <<jobs, leases, accepted, failures>>
    PROVE  QueueShape' /\ \A k \in Jobs : JobMoves(k)
<1>1. QueueShape' /\ \A k \in Jobs : Untouched(k)
  BY DEF Orderly, QueueShape, Untouched
<1>. QED  BY <1>1, UntouchedMoves DEF JobMoves

\* One column of one process.
WithPc(all, w, x)      == [all EXCEPT ![w].pc = x]
WithOutcome(all, w, x) == [all EXCEPT ![w].outcome = x]
WithBeating(all, w, x) == [all EXCEPT ![w].beating = x]
WithBroken(all, w, x)  == [all EXCEPT ![w].broken = x]

\* It is a step of process w: the others stay, and it keeps its job.
KeepsJob(w, old, new) ==
    /\ new \in [Workers -> Process]
    /\ \A v \in Workers \ {w} : new[v] = old[v]
    /\ new[w].job = old[w].job /\ new[w].claim = old[w].claim

LEMMA PcUpdate ==
    ASSUME NEW all \in [Workers -> Process], NEW w \in Workers, NEW x \in Pcs
    PROVE  /\ KeepsJob(w, all, WithPc(all, w, x))
           /\ WithPc(all, w, x)[w].pc = x
           /\ WithPc(all, w, x)[w].outcome = all[w].outcome
<1>. DEFINE q == [all[w] EXCEPT !.pc = x]
<1>1. q \in Process /\ q.pc = x /\ q.job = all[w].job /\ q.claim = all[w].claim
      /\ q.outcome = all[w].outcome
  BY DEF Process
<1>2. WithPc(all, w, x) = [all EXCEPT ![w] = q]
  BY DEF WithPc
<1>. HIDE DEF q
<1>. QED  BY <1>1, <1>2 DEF KeepsJob

LEMMA OutcomeUpdate ==
    ASSUME NEW all \in [Workers -> Process], NEW w \in Workers,
           NEW x \in [status: Settled \cup {"none"}, interrupt: Interrupts \cup {None}]
    PROVE  /\ KeepsJob(w, all, WithOutcome(all, w, x))
           /\ WithOutcome(all, w, x)[w].pc = all[w].pc
           /\ WithOutcome(all, w, x)[w].outcome = x
<1>. DEFINE q == [all[w] EXCEPT !.outcome = x]
<1>1. q \in Process /\ q.pc = all[w].pc /\ q.job = all[w].job /\ q.claim = all[w].claim
      /\ q.outcome = x
  BY DEF Process
<1>2. WithOutcome(all, w, x) = [all EXCEPT ![w] = q]
  BY DEF WithOutcome
<1>. HIDE DEF q
<1>. QED  BY <1>1, <1>2 DEF KeepsJob

LEMMA BeatingUpdate ==
    ASSUME NEW all \in [Workers -> Process], NEW w \in Workers, NEW x \in BOOLEAN
    PROVE  /\ KeepsJob(w, all, WithBeating(all, w, x))
           /\ WithBeating(all, w, x)[w].pc = all[w].pc
           /\ WithBeating(all, w, x)[w].outcome = all[w].outcome
<1>. DEFINE q == [all[w] EXCEPT !.beating = x]
<1>1. q \in Process /\ q.pc = all[w].pc /\ q.job = all[w].job /\ q.claim = all[w].claim
      /\ q.outcome = all[w].outcome
  BY DEF Process
<1>2. WithBeating(all, w, x) = [all EXCEPT ![w] = q]
  BY DEF WithBeating
<1>. HIDE DEF q
<1>. QED  BY <1>1, <1>2 DEF KeepsJob

LEMMA BrokenUpdate ==
    ASSUME NEW all \in [Workers -> Process], NEW w \in Workers, NEW x \in BOOLEAN
    PROVE  /\ KeepsJob(w, all, WithBroken(all, w, x))
           /\ WithBroken(all, w, x)[w].pc = all[w].pc
           /\ WithBroken(all, w, x)[w].outcome = all[w].outcome
<1>. DEFINE q == [all[w] EXCEPT !.broken = x]
<1>1. q \in Process /\ q.pc = all[w].pc /\ q.job = all[w].job /\ q.claim = all[w].claim
      /\ q.outcome = all[w].outcome
  BY DEF Process
<1>2. WithBroken(all, w, x) = [all EXCEPT ![w] = q]
  BY DEF WithBroken
<1>. HIDE DEF q
<1>. QED  BY <1>1, <1>2 DEF KeepsJob

\* The step of one process that keeps its job, and of one that lets go of it.
QuietStep == /\ RestTyped /\ QueueShape' /\ (\A k \in Jobs : JobMoves(k))
             /\ UNCHANGED <<claims, raised>>

LEMMA WorkerStep ==
    ASSUME SystemInvariant, NEW w \in Workers, KeepsJob(w, me, me'), QuietStep,
           me'[w].pc \in {"idle", "swept", "down"} \/ Executing(me[w]),
           me'[w].pc \in {"returned", "stopped"} =>
               \/ me'[w].outcome.interrupt = None
               \/ Asking(me[w]) /\ me'[w].outcome = me[w].outcome,
           me'[w].pc = "finalized" => me'[w].outcome.interrupt = None
    PROVE  SystemInvariant'
<1>1. GoesOn(me[w], me'[w])
  BY DEF KeepsJob, GoesOn, Executing, Asking
<1>. QED  BY <1>1, StepKeepsInvariant DEF KeepsJob, QuietStep

LEMMA WorkerStops ==
    ASSUME SystemInvariant, NEW w \in Workers, QuietStep,
           NEW q \in {Idle, [Idle EXCEPT !.pc = "down"]}, me' = [me EXCEPT ![w] = q]
    PROVE  SystemInvariant'
<1>1. q \in Process /\ GoesOn(me[w], q)
  BY IdleProcess
<1>2. me' \in [Workers -> Process] /\ me'[w] = q /\ \A v \in Workers \ {w} : me'[v] = me[v]
  BY <1>1, OneProcess DEF SystemInvariant
<1>. QED  BY <1>1, <1>2, StepKeepsInvariant DEF QuietStep

LEMMA QuietQueue ==
    ASSUME SystemInvariant, RestTyped, UNCHANGED <<jobs, leases, accepted, failures, claims, raised>>
    PROVE  QuietStep
BY QueueAtRest DEF SystemInvariant, QuietStep

LEMMA MovingQueue ==
    ASSUME RestTyped, UNCHANGED <<claims, raised>>, QueueShape', \A k \in Jobs : Moved(k, None)
    PROVE  QuietStep
BY DEF QuietStep, JobMoves

(***************************************************************************)
(* The actions of a worker, one lemma each.                                *)
(***************************************************************************)
LEMMA SweepStep ==
    ASSUME SystemInvariant, NEW w \in Workers, Sweep(w)
    PROVE  SystemInvariant'
<1>1. me' = WithPc(me, w, "swept") /\ me \in [Workers -> Process] /\ "swept" \in Pcs
  BY DEF Sweep, Goto, WithPc, SystemInvariant, WorkerTypeOK, Pcs
<1>2. KeepsJob(w, me, me') /\ me'[w].pc = "swept"
  BY <1>1, PcUpdate
<1>3. RestTyped /\ UNCHANGED <<claims, raised>>
  BY RestKeepsType DEF Sweep, SystemInvariant
<1>4. QuietStep
  <2>1. CASE RequeueExpired
    BY <1>3, <2>1, SweepMoves, MovingQueue DEF SystemInvariant
  <2>2. CASE UNCHANGED queueVars
    BY <1>3, <2>2, QuietQueue DEF queueVars
  <2>. QED  BY <2>1, <2>2 DEF Sweep
<1>. QED  BY <1>2, <1>4, WorkerStep

LEMMA NothingToClaimStep ==
    ASSUME SystemInvariant, NEW w \in Workers, NothingToClaim(w)
    PROVE  SystemInvariant'
<1>1. me' = WithPc(me, w, "idle") /\ me \in [Workers -> Process] /\ "idle" \in Pcs
  BY DEF NothingToClaim, Goto, WithPc, SystemInvariant, WorkerTypeOK, Pcs
<1>2. KeepsJob(w, me, me') /\ me'[w].pc = "idle"
  BY <1>1, PcUpdate
<1>3. RestTyped /\ UNCHANGED <<jobs, leases, accepted, failures, claims, raised>>
  BY RestKeepsType DEF NothingToClaim, SystemInvariant, queueVars
<1>4. QuietStep
  BY <1>3, QuietQueue
<1>. QED  BY <1>2, <1>4, WorkerStep

LEMMA StartStep ==
    ASSUME SystemInvariant, NEW w \in Workers, Start(w)
    PROVE  SystemInvariant'
<1>1. me \in [Workers -> Process] /\ Executing(me[w]) /\ {"started", "down"} \subseteq Pcs
  BY DEF Start, At, Executing, SystemInvariant, WorkerTypeOK, Pcs
<1>2. RestTyped /\ UNCHANGED <<claims, raised>>
  BY RestKeepsType DEF Start, SystemInvariant
<1>3. CASE CanMarkRunning(w, Held(w))
  <2>. DEFINE a == WithPc(me, w, "started")
              b == WithBeating(a, w, TRUE)
  <2>1. me' = WithBroken(b, w, FALSE)
    BY <1>3 DEF Start, WithPc, WithBeating, WithBroken
  <2>2. KeepsJob(w, me, a) /\ a[w].pc = "started"
    BY <1>1, PcUpdate
  <2>. HIDE DEF a
  <2>3. KeepsJob(w, a, b) /\ b[w].pc = "started"
    BY <2>2, BeatingUpdate DEF KeepsJob
  <2>. HIDE DEF b
  <2>4. KeepsJob(w, b, me') /\ me'[w].pc = "started"
    BY <2>1, <2>3, BrokenUpdate DEF KeepsJob
  <2>5. KeepsJob(w, me, me')
    BY <2>2, <2>3, <2>4 DEF KeepsJob
  <2>6. Held(w) \in Jobs
    BY <1>1 DEF SystemInvariant, OwnersAreLatest
  <2>7. MarkRunning(w, Held(w))
    BY <1>3 DEF Start
  <2>8. QuietStep
    BY <1>2, <2>6, <2>7, StartMoves, MovingQueue DEF SystemInvariant
  <2>. QED  BY <1>1, <2>4, <2>5, <2>8, WorkerStep
<1>4. CASE ~CanMarkRunning(w, Held(w))
  <2>1. me' = WithPc(me, w, "down") /\ UNCHANGED <<jobs, leases, accepted, failures>>
    BY <1>4 DEF Start, Goto, WithPc, queueVars
  <2>2. KeepsJob(w, me, me') /\ me'[w].pc = "down"
    BY <1>1, <2>1, PcUpdate
  <2>3. QuietStep
    BY <1>2, <2>1, QuietQueue
  <2>. QED  BY <2>2, <2>3, WorkerStep
<1>. QED  BY <1>3, <1>4

LEMMA FlagStep ==
    ASSUME SystemInvariant, NEW w \in Workers, KeepsJob(w, me, me'), QuietStep,
           me'[w].pc = me[w].pc, me'[w].outcome = me[w].outcome
    PROVE  SystemInvariant'
<1>1. GoesOn(me[w], me'[w])
  BY DEF KeepsJob, GoesOn, Executing, Asking, SystemInvariant, FinalHasNoQuestion
<1>. QED  BY <1>1, StepKeepsInvariant DEF KeepsJob, QuietStep

LEMMA BeatStep ==
    ASSUME SystemInvariant, NEW w \in Workers, Beat(w)
    PROVE  SystemInvariant'
<1>1. RestTyped /\ UNCHANGED <<claims, raised>> /\ me \in [Workers -> Process]
  BY RestKeepsType DEF Beat, SystemInvariant, WorkerTypeOK
<1>2. CASE CanHeartbeat(w, Held(w))
  <2>1. Heartbeat(w, Held(w)) /\ me' = me
    BY <1>2 DEF Beat
  <2>2. CASE Held(w) \in Jobs
    <3>1. QuietStep
      BY <1>1, <2>1, <2>2, HeartbeatMoves, MovingQueue DEF SystemInvariant
    <3>. QED  BY <1>1, <2>1, <3>1, StepKeepsInvariant DEF QuietStep
  <2>3. CASE Held(w) \notin Jobs
    <3>1. leases' = leases
      BY <2>1, <2>3 DEF Heartbeat, SystemInvariant, Orderly, QueueShape
    <3>2. QuietStep
      BY <1>1, <2>1, <3>1, QuietQueue DEF Heartbeat
    <3>. QED  BY <1>1, <2>1, <3>2, StepKeepsInvariant DEF QuietStep
  <2>. QED  BY <2>2, <2>3
<1>3. CASE ~CanHeartbeat(w, Held(w))
  <2>. DEFINE a == WithBeating(me, w, FALSE)
  <2>1. me' = WithBroken(a, w, TRUE) /\ UNCHANGED <<jobs, leases, accepted, failures>>
    BY <1>3 DEF Beat, WithBeating, WithBroken, queueVars
  <2>2. KeepsJob(w, me, a) /\ a[w].pc = me[w].pc /\ a[w].outcome = me[w].outcome
    BY <1>1, BeatingUpdate
  <2>. HIDE DEF a
  <2>3. KeepsJob(w, a, me') /\ me'[w].pc = a[w].pc /\ me'[w].outcome = a[w].outcome
    BY <2>1, <2>2, BrokenUpdate DEF KeepsJob
  <2>4. KeepsJob(w, me, me')
    BY <2>2, <2>3 DEF KeepsJob
  <2>5. QuietStep
    BY <1>1, <2>1, QuietQueue
  <2>. QED  BY <2>2, <2>3, <2>4, <2>5, FlagStep
<1>. QED  BY <1>2, <1>3

LEMMA LateBeatStep ==
    ASSUME SystemInvariant, NEW w \in Workers, NEW j \in Jobs, LateBeat(w, j)
    PROVE  SystemInvariant'
<1>1. RestTyped /\ UNCHANGED <<claims, raised>> /\ me \in [Workers -> Process]
  BY DEF LateBeat, SystemInvariant, WorkerTypeOK, RestTyped
<1>2. CASE CanHeartbeat(w, j)
  <2>1. Heartbeat(w, j) /\ me' = me
    BY <1>2 DEF LateBeat
  <2>2. QuietStep
    BY <1>1, <2>1, HeartbeatMoves, MovingQueue DEF SystemInvariant
  <2>. QED  BY <1>1, <2>1, <2>2, StepKeepsInvariant DEF QuietStep
<1>3. CASE ~CanHeartbeat(w, j)
  <2>1. me' = WithBroken(me, w, TRUE) /\ UNCHANGED <<jobs, leases, accepted, failures>>
    BY <1>3 DEF LateBeat, WithBroken, queueVars
  <2>2. KeepsJob(w, me, me') /\ me'[w].pc = me[w].pc /\ me'[w].outcome = me[w].outcome
    BY <1>1, <2>1, BrokenUpdate
  <2>3. QuietStep
    BY <1>1, <2>1, QuietQueue
  <2>. QED  BY <2>2, <2>3, FlagStep
<1>. QED  BY <1>2, <1>3

LEMMA CheckpointTyped ==
    ASSUME WorkerTypeOK, NEW j \in Jobs,
           NEW x \in {Live, Over} \cup {ParkedAt(i) : i \in Interrupts},
           checkpoint' = [checkpoint EXCEPT ![j] = x], UNCHANGED <<late, crashes>>
    PROVE  RestTyped
<1>1. x \in [state: {"none", "live", "over", "parked"}, interrupt: Interrupts \cup {None}]
  BY DEF Live, Over, ParkedAt
<1>. QED  BY <1>1 DEF WorkerTypeOK, RestTyped

LEMMA InvokeAfreshStep ==
    ASSUME SystemInvariant, NEW w \in Workers, InvokeAfresh(w)
    PROVE  SystemInvariant'
<1>1. me' = WithPc(me, w, "inside") /\ me \in [Workers -> Process] /\ "inside" \in Pcs
  BY DEF InvokeAfresh, Goto, WithPc, SystemInvariant, WorkerTypeOK, Pcs
<1>2. KeepsJob(w, me, me') /\ me'[w].pc = "inside"
  BY <1>1, PcUpdate
<1>3. Executing(me[w])
  BY DEF InvokeAfresh, At, Executing
<1>4. Held(w) \in Jobs
  BY <1>3 DEF SystemInvariant, OwnersAreLatest
<1>5. RestTyped
  BY <1>4, CheckpointTyped DEF InvokeAfresh, SystemInvariant
<1>6. QuietStep
  BY <1>5, QuietQueue DEF InvokeAfresh, queueVars
<1>. QED  BY <1>2, <1>3, <1>6, WorkerStep

LEMMA ResumeInvocationStep ==
    ASSUME SystemInvariant, NEW w \in Workers, Resume(w)
    PROVE  SystemInvariant'
<1>1. me \in [Workers -> Process] /\ {"inside", "raised"} \subseteq Pcs
  BY DEF SystemInvariant, WorkerTypeOK, Pcs
<1>2. Executing(me[w])
  BY DEF Resume, At, Executing
<1>3. Held(w) \in Jobs
  BY <1>2 DEF SystemInvariant, OwnersAreLatest
<1>4. \/ checkpoint' = [checkpoint EXCEPT ![Held(w)] = Live] /\ me' = WithPc(me, w, "inside")
      \/ UNCHANGED checkpoint /\ me' = WithPc(me, w, "raised")
  BY DEF Resume, Goto, WithPc
<1>5. KeepsJob(w, me, me') /\ me'[w].pc \in {"inside", "raised"}
  BY <1>1, <1>4, PcUpdate
<1>6. UNCHANGED <<late, crashes>>
  BY DEF Resume
<1>7. RestTyped
  BY <1>3, <1>4, <1>6, CheckpointTyped, RestKeepsType DEF SystemInvariant
<1>8. QuietStep
  BY <1>7, QuietQueue DEF Resume, queueVars
<1>. QED  BY <1>2, <1>5, <1>8, WorkerStep

\* finalize_run writes the run only, which the system's invariant leaves out.
LEMMA FinalizeStep ==
    ASSUME SystemInvariant, NEW w \in Workers, NEW status \in Terminal, Finalize(w, status)
    PROVE  SystemInvariant'
<1>. DEFINE o == [status |-> status, interrupt |-> None]
            a == WithPc(me, w, "finalized")
<1>1. me \in [Workers -> Process] /\ "finalized" \in Pcs
      /\ o \in [status: Settled \cup {"none"}, interrupt: Interrupts \cup {None}]
  BY DEF SystemInvariant, WorkerTypeOK, Pcs, Settled
<1>2. o.interrupt = None
  OBVIOUS
<1>3. me' = WithOutcome(a, w, o)
  BY DEF Finalize, WithPc, WithOutcome
<1>. HIDE DEF o
<1>4. KeepsJob(w, me, a) /\ a[w].pc = "finalized"
  BY <1>1, PcUpdate
<1>. HIDE DEF a
<1>5. KeepsJob(w, a, me') /\ me'[w].pc = "finalized" /\ me'[w].outcome = o
  BY <1>1, <1>3, <1>4, OutcomeUpdate DEF KeepsJob
<1>6. KeepsJob(w, me, me')
  BY <1>4, <1>5 DEF KeepsJob
<1>7. Executing(me[w])
  BY DEF Finalize, At, Executing
<1>8. RestTyped
  BY RestKeepsType DEF Finalize, SystemInvariant
<1>9. QuietStep
  BY <1>8, QuietQueue DEF Finalize
<1>. QED  BY <1>2, <1>5, <1>6, <1>7, <1>9, WorkerStep

LEMMA EndStep ==
    ASSUME SystemInvariant, NEW w \in Workers, End(w)
    PROVE  SystemInvariant'
<1>1. me' = WithPc(me, w, "returned") /\ me \in [Workers -> Process] /\ "returned" \in Pcs
  BY DEF End, Goto, WithPc, SystemInvariant, WorkerTypeOK, Pcs
<1>2. KeepsJob(w, me, me') /\ me'[w].pc = "returned" /\ me'[w].outcome = me[w].outcome
  BY <1>1, PcUpdate
<1>3. Executing(me[w]) /\ me[w].outcome.interrupt = None
  BY DEF End, At, Executing, SystemInvariant, FinalHasNoQuestion
<1>4. Held(w) \in Jobs
  BY <1>3 DEF SystemInvariant, OwnersAreLatest
<1>5. RestTyped
  BY <1>4, CheckpointTyped DEF End, SystemInvariant
<1>6. QuietStep
  BY <1>5, QuietQueue DEF End, queueVars
<1>. QED  BY <1>2, <1>3, <1>6, WorkerStep

LEMMA RaiseStep ==
    ASSUME SystemInvariant, NEW w \in Workers, Raise(w)
    PROVE  SystemInvariant'
<1>1. me' = WithPc(me, w, "raised") /\ me \in [Workers -> Process] /\ "raised" \in Pcs
  BY DEF Raise, Goto, WithPc, SystemInvariant, WorkerTypeOK, Pcs
<1>2. KeepsJob(w, me, me') /\ me'[w].pc = "raised"
  BY <1>1, PcUpdate
<1>3. Executing(me[w])
  BY DEF Raise, Executing
<1>4. RestTyped
  BY RestKeepsType DEF Raise, SystemInvariant
<1>5. QuietStep
  BY <1>4, QuietQueue DEF Raise, queueVars
<1>. QED  BY <1>2, <1>3, <1>5, WorkerStep

LEMMA StopBeatingStep ==
    ASSUME SystemInvariant, NEW w \in Workers, StopBeating(w)
    PROVE  SystemInvariant'
<1>. DEFINE pc == IF me[w].pc = "returned" THEN "stopped" ELSE "failed"
            a  == WithPc(me, w, pc)
<1>1. me \in [Workers -> Process] /\ pc \in Pcs
  BY DEF SystemInvariant, WorkerTypeOK, Pcs
<1>2. (pc = "stopped" /\ me[w].pc = "returned") \/ pc = "failed"
  OBVIOUS
<1>3. me' = WithBeating(a, w, FALSE)
  BY DEF StopBeating, WithPc, WithBeating
<1>. HIDE DEF pc
<1>4. KeepsJob(w, me, a) /\ a[w].pc = pc /\ a[w].outcome = me[w].outcome
  BY <1>1, PcUpdate
<1>. HIDE DEF a
<1>5. KeepsJob(w, a, me') /\ me'[w].pc = pc /\ me'[w].outcome = me[w].outcome
  BY <1>3, <1>4, BeatingUpdate DEF KeepsJob
<1>6. KeepsJob(w, me, me')
  BY <1>4, <1>5 DEF KeepsJob
<1>7. Executing(me[w])
  BY DEF StopBeating, Executing
<1>8. Held(w) \in Jobs
  BY <1>7 DEF SystemInvariant, OwnersAreLatest
<1>9. RestTyped
  BY <1>8 DEF StopBeating, SystemInvariant, WorkerTypeOK, RestTyped
<1>10. QuietStep
  BY <1>9, QuietQueue DEF StopBeating, queueVars
<1>11. me'[w].pc \in {"returned", "stopped"} =>
           \/ me'[w].outcome.interrupt = None
           \/ Asking(me[w]) /\ me'[w].outcome = me[w].outcome
  BY <1>2, <1>5 DEF Asking
<1>12. me'[w].pc # "finalized"
  BY <1>2, <1>5
<1>. QED  BY <1>6, <1>7, <1>10, <1>11, <1>12, WorkerStep

\* The one step that gives a job an interrupt: nobody has answered it, because
\* the execution that reports it raised it.
LEMMA ConcludeStep ==
    ASSUME SystemInvariant, NEW w \in Workers, Conclude(w)
    PROVE  SystemInvariant'
<1>. DEFINE o == me[w].outcome
            j == Held(w)
<1>1. me \in [Workers -> Process] /\ "failed" \in Pcs /\ w # None
  BY QueueAssumption DEF SystemInvariant, WorkerTypeOK, Pcs
<1>2. Executing(me[w]) /\ me[w].pc = "stopped"
  BY DEF Conclude, At, Executing
<1>3. j \in Jobs
  BY <1>2 DEF SystemInvariant, OwnersAreLatest
<1>4. RestTyped /\ UNCHANGED <<claims, raised>>
  BY RestKeepsType DEF Conclude, SystemInvariant
<1>5. CASE ~me[w].broken /\ CanFinish(w, j)
  <2>1. Finish(w, j, o.status, o.interrupt) /\ me' = [me EXCEPT ![w] = Idle]
    BY <1>5 DEF Conclude
  <2>2. me'[w] = Idle /\ \A v \in Workers \ {w} : me'[v] = me[v]
    BY <1>1, <2>1, IdleProcess, OneProcess DEF SystemInvariant
  <2>3. CASE o.interrupt = None
    <3>1. SystemJob(j)
      BY <1>3 DEF SystemInvariant, Orderly
    <3>2. accepted[j] \in SUBSET Answer
      BY <3>1, FitsFacts DEF SystemJob
    <3>3. \A a \in accepted[j] : a.interrupt # o.interrupt
      BY <2>3, <3>2, QueueAssumption DEF Answer
    <3>. HIDE DEF o, j
    <3>4. QueueShape' /\ Moved(j, o.interrupt) /\ \A k \in Jobs \ {j} : Moved(k, None)
      BY <1>3, <2>1, <3>3, FinishMoves DEF SystemInvariant
    <3>5. QueueShape' /\ \A k \in Jobs : Moved(k, None)
      BY <2>3, <3>4
    <3>6. QuietStep
      BY <1>4, <3>5, MovingQueue
    <3>. QED  BY <2>1, <3>6, WorkerStops
  <2>4. CASE o.interrupt # None
    <3>1. o.interrupt \in Interrupts
      BY <2>1, <2>4 DEF Finish, Outcome
    <3>2. Asks(me[w], j, o.interrupt)
      BY <1>2, <2>4 DEF Asks, Asking, Held
    <3>3. QuestionIsNew(w, j, o.interrupt)
      BY <1>3, <3>1, <3>2 DEF SystemInvariant, QuestionsAreNew
    <3>4. \A v \in Workers \ {w} : ~Asks(me[v], j, o.interrupt)
      BY <3>3 DEF QuestionIsNew
    <3>5. ~Asks(Idle, j, o.interrupt)
      BY DEF Asks, Asking, Idle
    <3>. HIDE DEF o, j
    <3>6. o.interrupt \in raised[j] /\ \A a \in accepted[j] : a.interrupt # o.interrupt
      BY <3>3 DEF QuestionIsNew
    <3>7. QueueShape' /\ Moved(j, o.interrupt) /\ \A k \in Jobs \ {j} : Moved(k, None)
      BY <1>3, <2>1, <3>6, FinishMoves DEF SystemInvariant
    <3>8. \A v \in Workers : ~Asks(me'[v], j, o.interrupt)
      BY <2>2, <3>4, <3>5
    <3>9. \A k \in Jobs : JobMoves(k)
      BY <3>6, <3>7, <3>8 DEF JobMoves
    <3>10. QuietStep
      BY <1>4, <3>7, <3>9 DEF QuietStep
    <3>. QED  BY <2>1, <3>10, WorkerStops
  <2>. QED  BY <2>3, <2>4
<1>6. CASE ~(~me[w].broken /\ CanFinish(w, j))
  <2>1. me' = WithPc(me, w, "failed") /\ UNCHANGED <<jobs, leases, accepted, failures>>
    BY <1>6 DEF Conclude, Goto, WithPc, queueVars
  <2>2. KeepsJob(w, me, me') /\ me'[w].pc = "failed"
    BY <1>1, <2>1, PcUpdate
  <2>3. QuietStep
    BY <1>4, <2>1, QuietQueue
  <2>. QED  BY <1>2, <2>2, <2>3, WorkerStep
<1>. QED  BY <1>5, <1>6

LEMMA GiveUpStep ==
    ASSUME SystemInvariant, NEW w \in Workers, GiveUp(w)
    PROVE  SystemInvariant'
<1>1. me \in [Workers -> Process] /\ "down" \in Pcs
  BY DEF SystemInvariant, WorkerTypeOK, Pcs
<1>2. Executing(me[w])
  BY DEF GiveUp, At, Executing
<1>3. Held(w) \in Jobs
  BY <1>2 DEF SystemInvariant, OwnersAreLatest
<1>4. RestTyped /\ UNCHANGED <<claims, raised>>
  BY RestKeepsType DEF GiveUp, SystemInvariant
<1>5. CASE CanFail(w, Held(w))
  <2>1. FailOrRequeue(w, Held(w)) /\ me' = [me EXCEPT ![w] = Idle]
    BY <1>5 DEF GiveUp
  <2>2. QuietStep
    BY <1>3, <1>4, <2>1, FailMoves, MovingQueue DEF SystemInvariant
  <2>. QED  BY <2>1, <2>2, WorkerStops
<1>6. CASE ~CanFail(w, Held(w))
  <2>1. me' = WithPc(me, w, "down") /\ UNCHANGED <<jobs, leases, accepted, failures>>
    BY <1>6 DEF GiveUp, Goto, WithPc, queueVars
  <2>2. KeepsJob(w, me, me') /\ me'[w].pc = "down"
    BY <1>1, <2>1, PcUpdate
  <2>3. QuietStep
    BY <1>4, <2>1, QuietQueue
  <2>. QED  BY <2>2, <2>3, WorkerStep
<1>. QED  BY <1>5, <1>6

LEMMA DeathAndRestartStep ==
    ASSUME SystemInvariant, NEW w \in Workers, Crash(w) \/ Restart(w)
    PROVE  SystemInvariant'
<1>1. RestTyped
  <2>1. crashes' \in 0..MaxCrashes
    BY CrashAssumption DEF Crash, Restart, SystemInvariant, WorkerTypeOK
  <2>2. late' \in [Workers -> SUBSET Jobs] /\ checkpoint' = checkpoint
    BY DEF Crash, Restart, SystemInvariant, WorkerTypeOK
  <2>. QED  BY <2>1, <2>2 DEF SystemInvariant, WorkerTypeOK, RestTyped
<1>2. QuietStep
  BY <1>1, QuietQueue DEF Crash, Restart, queueVars
<1>3. PICK q \in {Idle, [Idle EXCEPT !.pc = "down"]} : me' = [me EXCEPT ![w] = q]
  BY DEF Crash, Restart
<1>. QED  BY <1>2, <1>3, WorkerStops

(***************************************************************************)
(* The two steps that add to what was raised and to what was claimed.      *)
(***************************************************************************)
LEMMA ParkStep ==
    ASSUME SystemInvariant, NEW w \in Workers, NEW i \in Interrupts, Park(w, i)
    PROVE  SystemInvariant'
<1>. DEFINE o == [status |-> "waiting_human", interrupt |-> i]
            a == WithPc(me, w, "returned")
            j == Held(w)
<1>1. me \in [Workers -> Process] /\ "returned" \in Pcs
      /\ o \in [status: Settled \cup {"none"}, interrupt: Interrupts \cup {None}]
  BY DEF SystemInvariant, WorkerTypeOK, Pcs, Settled
<1>2. o.interrupt = i /\ i # None
  BY QueueAssumption
<1>3. me' = WithOutcome(a, w, o)
  BY DEF Park, WithPc, WithOutcome
<1>. HIDE DEF o
<1>4. KeepsJob(w, me, a) /\ a[w].pc = "returned"
  BY <1>1, PcUpdate
<1>. HIDE DEF a
<1>5. KeepsJob(w, a, me') /\ me'[w].pc = "returned" /\ me'[w].outcome = o
  BY <1>1, <1>3, <1>4, OutcomeUpdate DEF KeepsJob
<1>6. KeepsJob(w, me, me')
  BY <1>4, <1>5 DEF KeepsJob
<1>7. Executing(me[w])
  BY DEF Park, At, Executing
<1>8. j \in Jobs /\ me[w].job = j
  BY <1>7 DEF SystemInvariant, OwnersAreLatest, Held
<1>9. /\ i \notin raised[j] /\ raised' = [raised EXCEPT ![j] = @ \cup {i}]
      /\ UNCHANGED <<jobs, leases, accepted, failures, claims>>
  BY DEF Park, queueVars
<1>10. RestTyped
  BY <1>8, CheckpointTyped DEF Park, SystemInvariant
<1>. HIDE DEF j
<1>11. raised' \in [Jobs -> SUBSET Interrupts] /\ i \in raised'[j]
       /\ \A k \in Jobs : raised[k] \subseteq raised'[k]
  BY <1>8, <1>9 DEF SystemInvariant, WorkerTypeOK
<1>12. WorkerTypeOK'
  BY <1>6, <1>9, <1>10, <1>11 DEF KeepsJob, SystemInvariant, WorkerTypeOK, RestTyped
<1>13. Orderly'
  BY <1>9 DEF SystemInvariant, Orderly, QueueShape, SystemJob
<1>14. InterruptsKnown'
  BY <1>9, <1>11 DEF SystemInvariant, InterruptsKnown
<1>15. ASSUME NEW k, NEW x, Asks(me'[w], k, x) PROVE k = j /\ x = i
  BY <1>2, <1>5, <1>6, <1>8, <1>15 DEF Asks, KeepsJob
<1>16. \A v \in Workers \ {w} : me'[v] = me[v]
  BY <1>6 DEF KeepsJob
<1>17. QuestionsAreNew'
  <2>. SUFFICES ASSUME NEW v \in Workers, NEW k \in Jobs, NEW x \in Interrupts, Asks(me'[v], k, x)
                PROVE  QuestionIsNew(v, k, x)'
    BY DEF QuestionsAreNew
  <2>1. CASE v = w
    <3>1. k = j /\ x = i
      BY <1>15, <2>1
    <3>2. x \in raised'[k]
      BY <3>1, <1>11
    <3>3. jobs'[k].interrupt # x /\ \A b \in accepted'[k] : b.interrupt # x
      BY <1>2, <1>8, <1>9, <3>1 DEF SystemInvariant, InterruptsKnown
    <3>4. \A u \in Workers : ~Asks(me[u], j, i)
      BY <1>8, <1>9 DEF SystemInvariant, QuestionsAreNew, QuestionIsNew
    <3>5. \A u \in Workers \ {v} : ~Asks(me'[u], k, x)
      BY <1>16, <2>1, <3>1, <3>4
    <3>. QED  BY <3>2, <3>3, <3>5 DEF QuestionIsNew
  <2>2. CASE v # w
    <3>1. Asks(me[v], k, x)
      BY <1>16, <2>2
    <3>2. QuestionIsNew(v, k, x)
      BY <3>1 DEF SystemInvariant, QuestionsAreNew
    <3>3. x \in raised[k] /\ x \in raised'[k]
      BY <1>11, <3>2 DEF QuestionIsNew
    <3>4. jobs'[k].interrupt # x /\ \A b \in accepted'[k] : b.interrupt # x
      BY <1>9, <3>2 DEF QuestionIsNew
    <3>5. ~Asks(me'[w], k, x)
      BY <1>9, <1>15, <3>3
    <3>6. \A u \in Workers \ {v} : ~Asks(me[u], k, x)
      BY <3>2 DEF QuestionIsNew
    <3>7. \A u \in Workers \ {v} : ~Asks(me'[u], k, x)
      BY <1>16, <3>5, <3>6
    <3>. QED  BY <3>3, <3>4, <3>7 DEF QuestionIsNew
  <2>. QED  BY <2>1, <2>2
<1>18. OwnersAreLatest'
  <2>. SUFFICES ASSUME NEW v \in Workers, Executing(me'[v])
                PROVE  /\ me'[v].job \in Jobs
                       /\ jobs'[me'[v].job].worker = v => me'[v].claim = claims'[me'[v].job]
    BY DEF OwnersAreLatest, Held
  <2>1. Executing(me[v]) /\ me'[v].job = me[v].job /\ me'[v].claim = me[v].claim
    BY <1>6, <1>7 DEF KeepsJob
  <2>. QED  BY <1>9, <2>1 DEF SystemInvariant, OwnersAreLatest, Held
<1>19. FinalHasNoQuestion'
  BY <1>5, <1>16 DEF SystemInvariant, FinalHasNoQuestion
<1>. QED  BY <1>12, <1>13, <1>14, <1>17, <1>18, <1>19 DEF SystemInvariant

\* The process a successful claim_next leaves behind.
LEMMA ClaimedProcess ==
    ASSUME WorkerTypeOK, Orderly, NEW j \in Jobs
    PROVE  LET q == [Idle EXCEPT !.pc = "claimed", !.job = j, !.claim = claims[j] + 1,
                                 !.resume = jobs[j].resume] IN
           q \in Process /\ q.pc = "claimed" /\ q.job = j /\ q.claim = claims[j] + 1
<1>. DEFINE a == [Idle EXCEPT !.pc = "claimed"]
            b == [a EXCEPT !.job = j]
            c == [b EXCEPT !.claim = claims[j] + 1]
            q == [c EXCEPT !.resume = jobs[j].resume]
<1>1. a \in Process /\ a.pc = "claimed"
  <2>1. Idle \in Process /\ "claimed" \in Pcs
    BY IdleProcess DEF Pcs
  <2>. QED  BY <2>1 DEF Process
<1>. HIDE DEF a
<1>2. b \in Process /\ b.pc = "claimed" /\ b.job = j
  BY <1>1 DEF Process
<1>. HIDE DEF b
<1>3. c \in Process /\ c.pc = "claimed" /\ c.job = j /\ c.claim = claims[j] + 1
  <2>1. claims[j] + 1 \in Nat
    BY DEF WorkerTypeOK
  <2>. QED  BY <1>2, <2>1 DEF Process
<1>. HIDE DEF c
<1>4. jobs[j].resume \in [request: Requests \cup {None}, interrupt: Interrupts \cup {None},
                          value: Values \cup {None}, status: ResumeStatus]
  <2>1. jobs[j] \in JobRow
    BY FitsFacts DEF Orderly, SystemJob
  <2>. QED  BY <2>1 DEF JobRow
<1>5. q \in Process /\ q.pc = "claimed" /\ q.job = j /\ q.claim = claims[j] + 1
  BY <1>3, <1>4 DEF Process
<1>. QED  BY <1>5 DEF a, b, c

LEMMA ClaimJobStep ==
    ASSUME SystemInvariant, NEW w \in Workers, NEW j \in Jobs, ClaimJob(w, j)
    PROVE  SystemInvariant'
<1>. DEFINE q == [Idle EXCEPT !.pc = "claimed", !.job = j, !.claim = claims[j] + 1,
                              !.resume = jobs[j].resume]
<1>1. q \in Process /\ q.pc = "claimed" /\ q.job = j /\ q.claim = claims[j] + 1
  BY ClaimedProcess DEF SystemInvariant
<1>2. me' = [me EXCEPT ![w] = q]
  BY DEF ClaimJob
<1>. HIDE DEF q
<1>3. me' \in [Workers -> Process] /\ me'[w] = q /\ \A v \in Workers \ {w} : me'[v] = me[v]
  BY <1>1, <1>2, OneProcess DEF SystemInvariant
<1>4. RestTyped /\ raised' = raised /\ claims' = [claims EXCEPT ![j] = claims[j] + 1]
  BY RestKeepsType DEF ClaimJob, SystemInvariant
<1>5. /\ claims \in [Jobs -> Nat] /\ claims' \in [Jobs -> Nat] /\ claims'[j] = claims[j] + 1
      /\ \A k \in Jobs \ {j} : claims'[k] = claims[k]
  BY <1>4 DEF SystemInvariant, WorkerTypeOK
<1>6. Claim(w, j)
  BY DEF ClaimJob
<1>7. QueueShape' /\ \A k \in Jobs \ {j} : Untouched(k)
  BY <1>6 DEF SystemInvariant, Orderly, QueueShape, Claim, Untouched
<1>8. /\ jobs[j].status \in Queued /\ jobs'[j] = ClaimedBy(jobs[j], w)
      /\ leases'[j] = Activated(w) /\ accepted'[j] = accepted[j] /\ failures'[j] = failures[j]
  BY <1>6 DEF SystemInvariant, Orderly, QueueShape, Claim, NextInLine, Claimable
<1>9. /\ JobFits(jobs'[j], leases'[j], accepted'[j], failures'[j], claims[j] + 1)
      /\ jobs'[j].worker = w /\ jobs'[j].interrupt = jobs[j].interrupt
  <2>1. SystemJob(j)
    BY DEF SystemInvariant, Orderly
  <2>. QED  BY <1>8, <2>1, ClaimedFits DEF SystemJob
<1>10. \A k \in Jobs : jobs'[k].interrupt = jobs[k].interrupt /\ accepted'[k] = accepted[k]
  BY <1>7, <1>8, <1>9 DEF Untouched
<1>11. WorkerTypeOK'
  BY <1>3, <1>4, <1>5 DEF SystemInvariant, WorkerTypeOK, RestTyped
<1>12. Orderly'
  <2>1. ASSUME NEW k \in Jobs PROVE SystemJob(k)'
    <3>1. CASE k = j
      BY <1>5, <1>9, <3>1 DEF SystemJob
    <3>2. CASE k # j
      BY <1>5, <1>7, <3>2 DEF SystemInvariant, Orderly, SystemJob, Untouched
    <3>. QED  BY <3>1, <3>2
  <2>. QED  BY <1>7, <2>1 DEF Orderly
<1>13. InterruptsKnown'
  BY <1>4, <1>10 DEF SystemInvariant, InterruptsKnown
<1>14. ~Asking(q) /\ \A k, x : ~Asks(q, k, x)
  BY <1>1 DEF Asking, Asks
<1>15. QuestionsAreNew'
  <2>. SUFFICES ASSUME NEW v \in Workers, NEW k \in Jobs, NEW x \in Interrupts, Asks(me'[v], k, x)
                PROVE  QuestionIsNew(v, k, x)'
    BY DEF QuestionsAreNew
  <2>1. v # w /\ Asks(me[v], k, x)
    BY <1>3, <1>14
  <2>2. QuestionIsNew(v, k, x)
    BY <2>1 DEF SystemInvariant, QuestionsAreNew
  <2>3. x \in raised'[k] /\ jobs'[k].interrupt # x /\ \A b \in accepted'[k] : b.interrupt # x
    BY <1>4, <1>10, <2>2 DEF QuestionIsNew
  <2>4. \A u \in Workers \ {v} : ~Asks(me[u], k, x)
    BY <2>2 DEF QuestionIsNew
  <2>5. \A u \in Workers \ {v} : ~Asks(me'[u], k, x)
    BY <1>3, <1>14, <2>4
  <2>. QED  BY <2>3, <2>5 DEF QuestionIsNew
<1>16. OwnersAreLatest'
  <2>. SUFFICES ASSUME NEW v \in Workers, Executing(me'[v])
                PROVE  /\ me'[v].job \in Jobs
                       /\ jobs'[me'[v].job].worker = v => me'[v].claim = claims'[me'[v].job]
    BY DEF OwnersAreLatest, Held
  <2>1. CASE v = w
    BY <1>1, <1>3, <1>5, <2>1
  <2>2. CASE v # w
    <3>1. me'[v] = me[v] /\ me[v].job \in Jobs
          /\ (jobs[me[v].job].worker = v => me[v].claim = claims[me[v].job])
      BY <1>3, <2>2 DEF SystemInvariant, OwnersAreLatest, Held
    <3>2. CASE me[v].job = j
      BY <1>9, <2>2, <3>1, <3>2
    <3>3. CASE me[v].job # j
      BY <1>5, <1>7, <3>1, <3>3 DEF Untouched
    <3>. QED  BY <3>2, <3>3
  <2>. QED  BY <2>1, <2>2
<1>17. FinalHasNoQuestion'
  BY <1>1, <1>3 DEF SystemInvariant, FinalHasNoQuestion
<1>. QED  BY <1>11, <1>12, <1>13, <1>15, <1>16, <1>17 DEF SystemInvariant

LEMMA OutsideStep ==
    ASSUME SystemInvariant, ClientNext \/ Tick, UNCHANGED workVars
    PROVE  SystemInvariant'
<1>1. me' = me /\ me \in [Workers -> Process] /\ RestTyped /\ UNCHANGED <<claims, raised>>
  BY RestKeepsType DEF workVars, SystemInvariant, WorkerTypeOK
<1>2. QueueShape' /\ \A k \in Jobs : Moved(k, None)
  <2>1. CASE ClientNext
    <3>1. PICK j \in Jobs : \/ \E limit \in AttemptLimits : Enqueue(j, limit)
                            \/ \E a \in Answer : EnqueueResume(j, a)
      BY <2>1 DEF ClientNext
    <3>. QED  BY <3>1, EnqueueMoves, ResumeMoves DEF SystemInvariant
  <2>2. CASE Tick
    BY <2>2, TickMoves DEF SystemInvariant
  <2>. QED  BY <2>1, <2>2
<1>3. QuietStep
  BY <1>1, <1>2, MovingQueue
<1>. QED  BY <1>1, <1>3, StepKeepsInvariant DEF QuietStep

LEMMA SystemStep ==
    ASSUME SystemInvariant, [SystemNext]_systemVars
    PROVE  SystemInvariant'
<1>1. CASE Environment
  <2>1. CASE ClientNext /\ UNCHANGED workVars
    BY <2>1, OutsideStep
  <2>2. CASE Tick /\ UNCHANGED workVars
    BY <2>2, OutsideStep
  <2>3. CASE \E w \in Workers : Beat(w) \/ Crash(w)
    BY <2>3, BeatStep, DeathAndRestartStep
  <2>4. CASE \E w \in Workers, j \in Jobs : LateBeat(w, j)
    BY <2>4, LateBeatStep
  <2>. QED  BY <1>1, <2>1, <2>2, <2>3, <2>4 DEF Environment
<1>2. ASSUME NEW w \in Workers, Work(w) PROVE SystemInvariant'
  <2>1. CASE Sweep(w) \/ NothingToClaim(w) \/ Start(w) \/ StopBeating(w)
    BY <2>1, SweepStep, NothingToClaimStep, StartStep, StopBeatingStep
  <2>2. CASE \E j \in Jobs : ClaimJob(w, j)
    BY <2>2, ClaimJobStep
  <2>3. CASE Execute(w)
    BY <2>3, InvokeAfreshStep, ResumeInvocationStep, ParkStep, FinalizeStep, EndStep, RaiseStep
       DEF Execute
  <2>4. CASE Conclude(w) \/ GiveUp(w) \/ Restart(w)
    BY <2>4, ConcludeStep, GiveUpStep, DeathAndRestartStep
  <2>. QED  BY <1>2, <2>1, <2>2, <2>3, <2>4 DEF Work
<1>3. CASE UNCHANGED systemVars
  <2>1. UNCHANGED <<jobs, leases, accepted, failures>> /\ UNCHANGED <<claims, raised>>
        /\ UNCHANGED <<late, checkpoint, crashes>> /\ me' = me
    BY <1>3 DEF systemVars, queueVars, workVars
  <2>2. RestTyped
    BY <2>1, RestKeepsType DEF SystemInvariant
  <2>3. QuietStep
    BY <2>1, <2>2, QuietQueue
  <2>. QED  BY <2>1, <2>3, StepKeepsInvariant DEF QuietStep, SystemInvariant, WorkerTypeOK
<1>. QED  BY <1>1, <1>2, <1>3 DEF SystemNext

LEMMA SystemStart == SystemInit => SystemInvariant
<1>. SUFFICES ASSUME SystemInit PROVE SystemInvariant
  OBVIOUS
<1>1. /\ jobs = [j \in Jobs |-> NoJob] /\ leases = [j \in Jobs |-> NoLease]
      /\ accepted = [j \in Jobs |-> {}] /\ failures = [j \in Jobs |-> 0]
      /\ me = [w \in Workers |-> Idle] /\ late = [w \in Workers |-> {}]
      /\ checkpoint = [j \in Jobs |-> NoCheckpoint] /\ raised = [j \in Jobs |-> {}]
      /\ claims = [j \in Jobs |-> 0] /\ crashes = 0
  BY DEF SystemInit, Init
<1>2. WorkerTypeOK
  BY <1>1, IdleProcess, CrashAssumption DEF WorkerTypeOK, NoCheckpoint
<1>3. NoJob.status = "none" /\ NoJob.interrupt = None
  BY DEF NoJob
<1>4. Orderly
  <2>1. QueueShape
    BY <1>1 DEF QueueShape
  <2>2. Counted(NoJob, {}, 0, 0)
    BY <1>3 DEF Counted, Queued, Owned, Terminal
  <2>3. JobFits(NoJob, NoLease, {}, 0, 0)
    BY <2>2, NoJobOK DEF JobFits, RowsFit
  <2>. QED  BY <1>1, <2>1, <2>3 DEF Orderly, SystemJob
<1>5. InterruptsKnown
  BY <1>1, <1>3 DEF InterruptsKnown
<1>6. \A w \in Workers : me[w] = Idle /\ ~Executing(me[w])
  BY <1>1, IdleProcess
<1>7. Idle.pc = "idle"
  BY DEF Idle
<1>8. QuestionsAreNew /\ OwnersAreLatest /\ FinalHasNoQuestion
  BY <1>6, <1>7 DEF QuestionsAreNew, OwnersAreLatest, FinalHasNoQuestion, Asks, Asking
<1>. QED  BY <1>2, <1>4, <1>5, <1>8 DEF SystemInvariant

-----------------------------------------------------------------------------
(***************************************************************************)
(* The theorems.                                                           *)
(***************************************************************************)
\* The invariant the theorems below rest on: processes and queue agree, and
\* an execution that ends in a question has raised it itself.
THEOREM WorkersKeepInvariant == SystemSpec => []SystemInvariant
<1>1. SystemInit => SystemInvariant
  BY SystemStart
<1>2. SystemInvariant /\ [SystemNext]_systemVars => SystemInvariant'
  BY SystemStep
<1>. QED  BY <1>1, <1>2, PTL DEF SystemSpec

\* Every process, checkpoint and counter stays of its type.  (run_once)
THEOREM WorkerTypesAreKept == SystemSpec => []WorkerTypeOK
<1>1. SystemInvariant => WorkerTypeOK
  BY DEF SystemInvariant
<1>. QED  BY <1>1, WorkersKeepInvariant, PTL

\* Fencing: whatever workers stall, die and come back, the queue accepts a
\* result or a failure of an execution only from the latest claim of its job.
\* (finish, fail_or_requeue, run_once)
THEOREM OnlyTheLatestClaimWrites == SystemSpec => []LatestClaimWrites
<1>1. SystemInvariant => LatestClaimWrites
  BY DEF SystemInvariant, OwnersAreLatest, LatestClaimWrites, Busy, Executing, CanFail
<1>. QED  BY <1>1, WorkersKeepInvariant, PTL

\* Executions are bounded: a job is claimed at most once for each allowed
\* attempt and each accepted answer.  (claim_next, fail_or_requeue)
THEOREM ExecutionsAreBounded == SystemSpec => []ExecutionsBounded
<1>1. SystemInvariant => ExecutionsBounded
  <2>. SUFFICES ASSUME SystemInvariant, NEW j \in Jobs, jobs[j].status # "none"
                PROVE  claims[j] <= jobs[j].max + Cardinality(accepted[j])
    BY DEF ExecutionsBounded
  <2>. DEFINE row == jobs[j]
              n   == Cardinality(accepted[j])
  <2>1. /\ row \in JobRow /\ failures[j] \in Nat /\ n \in Nat /\ claims[j] \in Nat
        /\ row.max \in Nat /\ row.attempts \in Nat /\ row.attempts <= row.max
        /\ BudgetKept(row, failures[j]) /\ Counted(row, accepted[j], failures[j], claims[j])
    BY FitsFacts DEF SystemInvariant, Orderly, SystemJob
  <2>2. row.status # "none"
    OBVIOUS
  <2>. HIDE DEF row
  <2>3. claims[j] <= row.max + n
    BY <2>1, <2>2 DEF Counted, BudgetKept, JobRow, JobStatus, Settled, Owned, Queued
  <2>. QED  BY <2>3 DEF row
<1>. QED  BY <1>1, WorkersKeepInvariant, PTL

\* The question a job waits with was raised by its own thread and has not been
\* answered yet.  (serialize_pending_interrupt, finish, queue_resume)
THEOREM QuestionsAreOpen == SystemSpec => []WaitsForRaisedInterrupt
<1>1. SystemInvariant => WaitsForRaisedInterrupt
  <2>. SUFFICES ASSUME SystemInvariant, NEW j \in Jobs, jobs[j].status = "waiting_human"
                PROVE  /\ jobs[j].interrupt \in raised[j]
                       /\ \A a \in accepted[j] : a.interrupt # jobs[j].interrupt
    BY DEF WaitsForRaisedInterrupt
  <2>1. AnswerFits(jobs[j]) /\ HistoryFits(jobs[j], accepted[j], failures[j])
    BY FitsFacts DEF SystemInvariant, Orderly, SystemJob
  <2>2. jobs[j].interrupt # None
    BY <2>1 DEF AnswerFits
  <2>3. jobs[j].interrupt \in raised[j]
    BY <2>2 DEF SystemInvariant, InterruptsKnown
  <2>. QED  BY <2>1, <2>3 DEF HistoryFits, Settled
<1>. QED  BY <1>1, WorkersKeepInvariant, PTL

-----------------------------------------------------------------------------
(***************************************************************************)
(* The whole system, not the queue alone, implements the lifecycle.        *)
(***************************************************************************)
\* What the invariant says of the rows is enough for the lifecycle.
LEMMA RowsOfTheSystem == SystemInvariant => RowsInOrder
<1>. SUFFICES ASSUME SystemInvariant PROVE RowsInOrder
  OBVIOUS
<1>1. ASSUME NEW j \in Jobs PROVE RowInOrder(j)
  <2>1. SystemJob(j)
    BY DEF SystemInvariant, Orderly
  <2>. QED  BY <2>1, FitsFacts DEF SystemJob, RowInOrder
<1>2. jobs = [j \in Jobs |-> jobs[j]] /\ failures = [j \in Jobs |-> failures[j]]
  BY DEF SystemInvariant, Orderly, QueueShape
<1>. QED  BY <1>1, <1>2 DEF RowsInOrder

\* A worker of the system calls the queue for the job it holds; the graph,
\* finalize_run, a crash and a restart write no job.
LEMMA SystemCallsQueue ==
    ASSUME SystemInvariant, [SystemNext]_systemVars
    PROVE  QueueCall
<1>1. CASE UNCHANGED systemVars
  BY <1>1 DEF systemVars, queueVars, QueueCall
<1>2. CASE Environment
  BY <1>2 DEF Environment, Beat, LateBeat, Crash, Heartbeat, queueVars, QueueCall
<1>3. ASSUME NEW w \in Workers, Work(w) PROVE QueueCall
  <2>1. At(w, "claimed") \/ At(w, "stopped") \/ At(w, "failed") => Held(w) \in Jobs
    BY DEF SystemInvariant, OwnersAreLatest, Executing, At
  <2>2. CASE Sweep(w)
    BY <2>2 DEF Sweep, queueVars, QueueCall
  <2>3. CASE \E j \in Jobs : ClaimJob(w, j)
    BY <2>3 DEF ClaimJob, QueueCall
  <2>4. CASE Start(w)
    BY <2>1, <2>4 DEF Start, queueVars, QueueCall
  <2>5. CASE Conclude(w)
    BY <2>1, <2>5 DEF Conclude, queueVars, QueueCall
  <2>6. CASE GiveUp(w)
    BY <2>1, <2>6 DEF GiveUp, queueVars, QueueCall
  <2>7. CASE Execute(w)
    BY <2>7 DEF Execute, InvokeAfresh, Resume, Park, Finalize, End, Raise, queueVars, QueueCall
  <2>8. CASE NothingToClaim(w) \/ StopBeating(w) \/ Restart(w)
    BY <2>8 DEF NothingToClaim, StopBeating, Restart, queueVars, QueueCall
  <2>. QED  BY <1>3, <2>2, <2>3, <2>4, <2>5, <2>6, <2>7, <2>8 DEF Work
<1>. QED  BY <1>1, <1>2, <1>3 DEF SystemNext

\* The promise made to a client holds of the running system: workers that
\* crash, stall, lose their leases, fail to stop their heartbeats or write
\* the run behind the queue's back never show a client a step outside the
\* lifecycle of its job.  (run_once, run_forever, job_queue.py)
THEOREM WorkersImplementLifecycle == SystemSpec => ImplementsLifecycle
<1>1. SystemInit => Lifecycle!Init
  BY InitImplements DEF SystemInit
<1>2. SystemInvariant /\ [SystemNext]_systemVars => [Lifecycle!Next]_(Lifecycle!lifeVars)
  BY RowsOfTheSystem, SystemCallsQueue, StepImplements
<1>. QED  BY <1>1, <1>2, WorkersKeepInvariant, PTL
          DEF SystemSpec, ImplementsLifecycle, Lifecycle!Spec
=============================================================================
