-------------------------- MODULE BackgroundWorker --------------------------
(***************************************************************************)
(* Workers over the queue: the loop of app/runtime/worker.py, the          *)
(* heartbeat thread beside it and the graph invocation inside it, with the *)
(* process dying anywhere and being started again.  Between two queue      *)
(* calls of one worker everything else may happen: leases run out, sweeps  *)
(* take jobs away, other workers claim them and execute the same thread.   *)
(*                                                                         *)
(* The graph and its checkpoint belong to LangGraph and are modelled from  *)
(* how the worker uses them: an invocation writes checkpoints, parks at an *)
(* interrupt, reaches finalize_run or raises; Command(resume) hands its    *)
(* value to whatever interrupt the latest checkpoint is parked at.         *)
(***************************************************************************)
EXTENDS JobQueue

CONSTANT MaxCrashes   \* bound: how often worker processes may die

ASSUME CrashAssumption == MaxCrashes \in Nat

VARIABLES
    me,          \* me[w]: the state of the worker process w
    late,        \* late[w]: jobs a heartbeat thread that outlived its join
                 \*          still has a heartbeat call under way for
    checkpoint,  \* checkpoint[j]: the latest checkpoint of the job's thread
    raised,      \* history: the interrupts the thread has raised
    claims,      \* history: how often each job was claimed
    crashes      \* how often a worker process has died

workVars == <<me, late, checkpoint, raised, claims, crashes>>

systemVars == <<queueVars, workVars>>

NoOutcome == [status |-> "none", interrupt |-> None]

\* What run_once keeps in local variables: the job it was handed, with the
\* resume state of that moment, and what came of it.
Idle == [pc |-> "idle", job |-> None, claim |-> 0, resume |-> NoResume,
         outcome |-> NoOutcome, beating |-> FALSE, broken |-> FALSE]

NoCheckpoint == [state |-> "none", interrupt |-> None]
Live         == [state |-> "live", interrupt |-> None]
Over         == [state |-> "over", interrupt |-> None]
ParkedAt(i)  == [state |-> "parked", interrupt |-> i]

At(w, pc) == me[w].pc = pc
Held(w)   == me[w].job

Goto(w, pc) == me' = [me EXCEPT ![w].pc = pc]

(***************************************************************************)
(* run_once up to the invocation.                                          *)
(***************************************************************************)
Sweep(w) ==
    /\ At(w, "idle")
    /\ Goto(w, "swept")
    /\ RequeueExpired \/ (Expired = {} /\ UNCHANGED queueVars)
    /\ UNCHANGED <<late, checkpoint, raised, claims, crashes>>

ClaimJob(w, j) ==
    /\ At(w, "swept")
    /\ Claim(w, j)
    /\ claims' = [claims EXCEPT ![j] = @ + 1]
    /\ me' = [me EXCEPT ![w] = [Idle EXCEPT !.pc = "claimed",
                                            !.job = j,
                                            !.claim = claims[j] + 1,
                                            !.resume = jobs[j].resume]]
    /\ UNCHANGED <<late, checkpoint, raised, crashes>>

NothingToClaim(w) ==
    /\ At(w, "swept")
    /\ \A j \in Jobs : ~Claimable(j)
    /\ Goto(w, "idle")
    /\ UNCHANGED <<queueVars, late, checkpoint, raised, claims,
                   crashes>>

\* mark_running, then the heartbeat thread.  A refusal is not caught: it ends
\* run_forever and with it the process.
Start(w) ==
    /\ At(w, "claimed")
    /\ IF CanMarkRunning(w, Held(w))
       THEN /\ MarkRunning(w, Held(w))
            /\ me' = [me EXCEPT ![w].pc = "started", ![w].beating = TRUE,
                                ![w].broken = FALSE]
       ELSE /\ Goto(w, "down")
            /\ UNCHANGED queueVars
    /\ UNCHANGED <<late, checkpoint, raised, claims, crashes>>

(***************************************************************************)
(* The heartbeat thread.                                                   *)
(***************************************************************************)
Beat(w) ==
    /\ me[w].beating
    /\ IF CanHeartbeat(w, Held(w))
       THEN Heartbeat(w, Held(w)) /\ UNCHANGED me
       ELSE /\ me' = [me EXCEPT ![w].beating = FALSE, ![w].broken = TRUE]
            /\ UNCHANGED queueVars
    /\ UNCHANGED <<late, checkpoint, raised, claims, crashes>>

\* The last call of a thread that was not joined in time.  Its error goes to
\* the field the next job is judged by.
LateBeat(w, j) ==
    /\ j \in late[w]
    /\ late' = [late EXCEPT ![w] = @ \ {j}]
    /\ IF CanHeartbeat(w, j)
       THEN Heartbeat(w, j) /\ UNCHANGED me
       ELSE me' = [me EXCEPT ![w].broken = TRUE] /\ UNCHANGED queueVars
    /\ UNCHANGED <<checkpoint, raised, claims, crashes>>

(***************************************************************************)
(* _invoke_graph.                                                          *)
(***************************************************************************)
\* An attempt without an answer starts the graph from the beginning, whatever
\* the thread's checkpoint says.
InvokeAfresh(w) ==
    /\ At(w, "started")
    /\ me[w].resume.status # "pending"
    /\ checkpoint' = [checkpoint EXCEPT ![Held(w)] = Live]
    /\ Goto(w, "inside")
    /\ UNCHANGED <<queueVars, late, raised, claims, crashes>>

\* With an answer, the checkpoint must have a next node.  The value goes to
\* the interrupt the checkpoint is parked at, if it is parked at one, and the
\* node that asked validates it.
Resume(w) ==
    LET j  == Held(w)
        at == checkpoint[j].interrupt
        a  == me[w].resume IN
    /\ At(w, "started")
    /\ a.status = "pending"
    /\ IF \/ checkpoint[j].state = "live"
          \/ checkpoint[j].state = "parked" /\ a.value \in Acceptable[at]
       THEN /\ checkpoint' = [checkpoint EXCEPT ![j] = Live]
            /\ Goto(w, "inside")
       ELSE /\ UNCHANGED checkpoint
            /\ Goto(w, "raised")
    /\ UNCHANGED <<queueVars, late, raised, claims, crashes>>

\* Mutation of Park: the outcome is reported in LangGraph's own word.
ParkUnmapped(w, i) ==
    /\ At(w, "inside")
    /\ i \notin raised[Held(w)]
    /\ raised' = [raised EXCEPT ![Held(w)] = @ \cup {i}]
    /\ checkpoint' = [checkpoint EXCEPT ![Held(w)] = ParkedAt(i)]
    /\ me' = [me EXCEPT ![w].pc = "returned",
                        ![w].outcome = [status |-> "interrupted",
                                        interrupt |-> i]]
    /\ UNCHANGED <<queueVars, late, claims, crashes>>

Park(w, i) ==
    /\ At(w, "inside")
    /\ i \notin raised[Held(w)]
    /\ raised' = [raised EXCEPT ![Held(w)] = @ \cup {i}]
    /\ checkpoint' = [checkpoint EXCEPT ![Held(w)] = ParkedAt(i)]
    /\ me' = [me EXCEPT ![w].pc = "returned",
                        ![w].outcome = [status |-> "waiting_human",
                                        interrupt |-> i]]
    /\ UNCHANGED <<queueVars, late, claims, crashes>>

\* finalize_run closes the governance run in a transaction of its own, whose
\* failure it passes over.
Finalize(w, status) ==
    /\ At(w, "inside")
    /\ \/ runs' = [runs EXCEPT ![Held(w)] = [status |-> status, finished |-> TRUE]]
       \/ UNCHANGED runs
    /\ me' = [me EXCEPT ![w].pc = "finalized",
                        ![w].outcome = [status |-> status, interrupt |-> None]]
    /\ UNCHANGED <<jobs, leases, accepted, failures, late, checkpoint, raised,
                   claims, crashes>>

End(w) ==
    /\ At(w, "finalized")
    /\ checkpoint' = [checkpoint EXCEPT ![Held(w)] = Over]
    /\ Goto(w, "returned")
    /\ UNCHANGED <<queueVars, late, raised, claims, crashes>>

Raise(w) ==
    /\ me[w].pc \in {"inside", "finalized"}
    /\ Goto(w, "raised")
    /\ UNCHANGED <<queueVars, late, checkpoint, raised, claims,
                   crashes>>

(***************************************************************************)
(* run_once after the invocation.                                          *)
(***************************************************************************)
\* stop_heartbeat.set() and a join with a timeout: a call under way may
\* outlive it.
StopBeating(w) ==
    /\ me[w].pc \in {"returned", "raised"}
    /\ me' = [me EXCEPT ![w].pc = IF @ = "returned" THEN "stopped" ELSE "failed",
                        ![w].beating = FALSE]
    /\ \/ UNCHANGED late
       \/ me[w].beating /\ late' = [late EXCEPT ![w] = @ \cup {Held(w)}]
    /\ UNCHANGED <<queueVars, checkpoint, raised, claims, crashes>>

\* A broken heartbeat, or a queue that refuses the result, is an error of the
\* execution like any other.
Conclude(w) ==
    LET o == me[w].outcome IN
    /\ At(w, "stopped")
    /\ IF ~me[w].broken /\ CanFinish(w, Held(w))
       THEN /\ Finish(w, Held(w), o.status, o.interrupt)
            /\ me' = [me EXCEPT ![w] = Idle]
       ELSE Goto(w, "failed") /\ UNCHANGED queueVars
    /\ UNCHANGED <<late, checkpoint, raised, claims, crashes>>

\* A refusal here is not caught either.
GiveUp(w) ==
    /\ At(w, "failed")
    /\ IF CanFail(w, Held(w))
       THEN /\ FailOrRequeue(w, Held(w))
            /\ me' = [me EXCEPT ![w] = Idle]
       ELSE Goto(w, "down") /\ UNCHANGED queueVars
    /\ UNCHANGED <<late, checkpoint, raised, claims, crashes>>

(***************************************************************************)
(* Processes die and are started again; threads die with them.             *)
(***************************************************************************)
Crash(w) ==
    /\ ~At(w, "down")
    /\ crashes < MaxCrashes
    /\ crashes' = crashes + 1
    /\ me' = [me EXCEPT ![w] = [Idle EXCEPT !.pc = "down"]]
    /\ late' = [late EXCEPT ![w] = {}]
    /\ UNCHANGED <<queueVars, checkpoint, raised, claims>>

Restart(w) ==
    /\ At(w, "down")
    /\ me' = [me EXCEPT ![w] = Idle]
    /\ late' = [late EXCEPT ![w] = {}]
    /\ UNCHANGED <<queueVars, checkpoint, raised, claims, crashes>>

-----------------------------------------------------------------------------
Execute(w) ==
    \/ InvokeAfresh(w)
    \/ Resume(w)
    \/ \E i \in Interrupts : Park(w, i)
    \/ \E status \in Terminal : Finalize(w, status)
    \/ End(w)
    \/ Raise(w)

Work(w) ==
    \/ Sweep(w)
    \/ \E j \in Jobs : ClaimJob(w, j)
    \/ NothingToClaim(w)
    \/ Start(w)
    \/ Execute(w)
    \/ StopBeating(w)
    \/ Conclude(w)
    \/ GiveUp(w)
    \/ Restart(w)

Environment ==
    \/ ClientNext /\ UNCHANGED workVars
    \/ Tick /\ UNCHANGED workVars
    \/ \E w \in Workers : Beat(w) \/ Crash(w)
    \/ \E w \in Workers, j \in Jobs : LateBeat(w, j)

SystemInit ==
    /\ Init
    /\ me         = [w \in Workers |-> Idle]
    /\ late       = [w \in Workers |-> {}]
    /\ checkpoint = [j \in Jobs |-> NoCheckpoint]
    /\ raised     = [j \in Jobs |-> {}]
    /\ claims     = [j \in Jobs |-> 0]
    /\ crashes    = 0

SystemNext == Environment \/ \E w \in Workers : Work(w)

SystemSpec == SystemInit /\ [][SystemNext]_systemVars

\* A worker that is up goes on, its container is started again when it dies
\* (restart: unless-stopped), an execution ends, and time passes.
FairSystem ==
    /\ SystemSpec
    /\ \A w \in Workers : WF_systemVars(Work(w))
    /\ WF_systemVars(Tick /\ UNCHANGED workVars)

-----------------------------------------------------------------------------
Pcs == {"idle", "swept", "claimed", "started", "inside", "finalized",
        "returned", "raised", "stopped", "failed", "down"}

Process == [pc: Pcs, job: Jobs \cup {None}, claim: Nat,
            resume: [request: Requests \cup {None},
                     interrupt: Interrupts \cup {None},
                     value: Values \cup {None}, status: ResumeStatus],
            outcome: [status: Settled \cup {"none"},
                      interrupt: Interrupts \cup {None}],
            beating: BOOLEAN, broken: BOOLEAN]

WorkerTypeOK ==
    /\ me \in [Workers -> Process]
    /\ late \in [Workers -> SUBSET Jobs]
    /\ checkpoint \in [Jobs -> [state: {"none", "live", "over", "parked"},
                                interrupt: Interrupts \cup {None}]]
    /\ raised \in [Jobs -> SUBSET Interrupts]
    /\ claims \in [Jobs -> Nat]
    /\ crashes \in 0..MaxCrashes

Busy(w) == me[w].pc \notin {"idle", "swept", "down"}

\* The worker id is the only fencing token there is.  It is enough: whenever
\* the queue would accept a result or a failure of the job a worker holds,
\* the worker's claim is the latest one of that job.  (ownership checks of
\* finish and fail_or_requeue against run_once)
LatestClaimWrites ==
    \A w \in Workers :
        Busy(w) /\ CanFail(w, Held(w)) => me[w].claim = claims[Held(w)]

\* A job is started at most once per allowed attempt and once per accepted
\* answer, however often workers die, stall or lose their leases.
\* (attempt_count against claim_next)
ExecutionsBounded ==
    \A j \in Jobs :
        jobs[j].status # "none" =>
            claims[j] <= jobs[j].max + Cardinality(accepted[j])

\* A job that waits for a human shows an interrupt its thread has raised, and
\* never one that an accepted answer has already been given for.
\* (serialize_pending_interrupt, finish, queue_resume)
WaitsForRaisedInterrupt ==
    \A j \in Jobs :
        jobs[j].status = "waiting_human" =>
            /\ jobs[j].interrupt \in raised[j]
            /\ \A a \in accepted[j] : a.interrupt # jobs[j].interrupt

\* No job is lost: whatever workers do, a job that waits for an execution or
\* is in one reaches a final status or a question.  (requeue_expired, the
\* retry limit, run_forever under a restart policy)
EveryJobSettles ==
    \A j \in Jobs :
        jobs[j].status \in Queued \cup Owned ~> jobs[j].status \in Settled

=============================================================================
