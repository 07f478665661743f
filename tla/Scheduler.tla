------------------------------ MODULE Scheduler ------------------------------
(***************************************************************************)
(* Cron schedules: app/runtime/scheduler.py over ScheduledJobRepository.   *)
(* The API process writes the table scheduled_jobs; the scheduler process  *)
(* copies it into the jobs APScheduler keeps in memory, at its start and   *)
(* then periodically, and a firing of such a job submits a background run. *)
(*                                                                         *)
(* Synchronising and firing run in threads of their own and take several   *)
(* transactions each, so the table may change between any two of them, and *)
(* the process may die.  A due time is not modelled: a registered job may  *)
(* fire whenever no earlier firing of it is under way (max_instances=1).   *)
(***************************************************************************)
EXTENDS Integers, FiniteSets

CONSTANTS
    Schedules,   \* schedule ids
    MaxRuns,     \* bound: background runs submitted for one schedule
    MaxFaults    \* bound: failed transactions and crashes together

ASSUME ScheduleAssumption == MaxRuns \in Nat /\ MaxFaults \in Nat

VARIABLES
    table,       \* scheduled_jobs
    process,     \* the scheduler process
    registered,  \* the schedules APScheduler holds a job for
    sync,        \* sync_schedules, while it runs
    firing,      \* enqueue_schedule of each schedule, while it runs
    submitted,   \* history: background runs submitted for each schedule
    recorded,    \* history: those of them record_trigger has written down
    surplus,     \* history: runs submitted since the schedule was disabled
    faults       \* failed transactions and crashes so far

vars == <<table, process, registered, sync, firing, submitted, recorded,
          surplus, faults>>

NoRow == [exists |-> FALSE, enabled |-> FALSE, next |-> FALSE, last |-> 0,
          error |-> "none"]

\* next says whether next_run_at is set, last is the number of the run
\* last_run_id names.
Row == [exists: BOOLEAN, enabled: BOOLEAN, next: BOOLEAN, last: Nat,
        error: {"none", "registration", "enqueue"}]

NoSync   == [pc |-> "idle", enabled |-> {}, todo |-> {}, current |-> {}]
NoFiring == [pc |-> "idle", run |-> 0]

\* A transaction that fails, for instance because the database is locked.
Fault == faults < MaxFaults /\ faults' = faults + 1

(***************************************************************************)
(* The API process.                                                        *)
(***************************************************************************)
CreateSchedule(s, enabled) ==
    /\ ~table[s].exists
    /\ table' = [table EXCEPT ![s] = [NoRow EXCEPT !.exists = TRUE,
                                                   !.enabled = enabled,
                                                   !.next = enabled]]
    /\ UNCHANGED <<process, registered, sync, firing, submitted, recorded,
                   surplus, faults>>

SetEnabled(s, enabled) ==
    /\ table[s].exists
    /\ table' = [table EXCEPT ![s].enabled = enabled,
                              ![s].next = enabled,
                              ![s].error = "none"]
    /\ surplus' = IF enabled THEN [surplus EXCEPT ![s] = 0] ELSE surplus
    /\ UNCHANGED <<process, registered, sync, firing, submitted, recorded,
                   faults>>

(***************************************************************************)
(* sync_schedules.                                                         *)
(***************************************************************************)
\* run_forever synchronises before it starts firing; later the reconcile job
\* does, one instance at a time.
ListSchedules ==
    /\ process # "down"
    /\ sync.pc = "idle"
    /\ LET enabled == {s \in Schedules : table[s].enabled} IN
       sync' = [NoSync EXCEPT !.pc = "listed", !.enabled = enabled,
                               !.todo = enabled]
    /\ UNCHANGED <<table, process, registered, firing, submitted, recorded,
                   surplus, faults>>

\* Mutation of RemoveOthers: registrations are only ever added.
RemoveNone ==
    /\ sync.pc = "listed"
    /\ sync' = [sync EXCEPT !.pc = "registering"]
    /\ UNCHANGED <<table, process, registered, firing, submitted, recorded,
                   surplus, faults>>

RemoveOthers ==
    /\ sync.pc = "listed"
    /\ registered' = registered \cap sync.enabled
    /\ sync' = [sync EXCEPT !.pc = "registering"]
    /\ UNCHANGED <<table, process, firing, submitted, recorded, surplus,
                   faults>>

\* The schedules are taken in the order of the list, which the model leaves
\* open.
AddJob(s) ==
    /\ sync.pc = "registering"
    /\ sync.current = {}
    /\ s \in sync.todo
    /\ registered' = registered \cup {s}
    /\ sync' = [sync EXCEPT !.current = {s}]
    /\ UNCHANGED <<table, process, firing, submitted, recorded, surplus,
                   faults>>

UpdateRegistration(s) ==
    /\ s \in sync.current
    /\ table' = [table EXCEPT ![s].next = TRUE, ![s].error = "none"]
    /\ sync' = [sync EXCEPT !.current = {}, !.todo = @ \ {s}]
    /\ UNCHANGED <<process, registered, firing, submitted, recorded, surplus,
                   faults>>

\* A trigger that cannot be built is written down and passed over.
RegistrationFails(s) ==
    /\ sync.pc = "registering"
    /\ sync.current = {}
    /\ s \in sync.todo
    /\ Fault
    /\ table' = [table EXCEPT ![s].error = "registration"]
    /\ sync' = [sync EXCEPT !.todo = @ \ {s}]
    /\ UNCHANGED <<process, registered, firing, submitted, recorded, surplus>>

\* Any other error ends the round.  At the start it ends the process; later
\* APScheduler logs it and waits for the next interval.
SyncAborts ==
    /\ sync.pc # "idle"
    /\ Fault
    /\ sync' = NoSync
    /\ IF process = "starting"
       THEN process' = "down" /\ registered' = {}
       ELSE UNCHANGED <<process, registered>>
    /\ UNCHANGED <<table, firing, submitted, recorded, surplus>>

EndSync ==
    /\ sync.pc = "registering"
    /\ sync.todo = {}
    /\ sync' = NoSync
    /\ process' = "started"
    /\ UNCHANGED <<table, registered, firing, submitted, recorded, surplus,
                   faults>>

(***************************************************************************)
(* enqueue_schedule, one firing of a registered job.                       *)
(***************************************************************************)
Fire(s) ==
    /\ process = "started"
    /\ s \in registered
    /\ firing[s].pc = "idle"
    /\ submitted[s] < MaxRuns
    /\ firing' = [firing EXCEPT ![s].pc = "fired"]
    /\ UNCHANGED <<table, process, registered, sync, submitted, recorded,
                   surplus, faults>>

\* Mutation of GetSchedule: a registered job is taken to be enabled.
GetScheduleUnchecked(s) ==
    /\ firing[s].pc = "fired"
    /\ firing' = [firing EXCEPT ![s].pc = "enabled"]
    /\ UNCHANGED <<table, process, registered, sync, submitted, recorded,
                   surplus, faults>>

\* The row read here decides; it is not read again.
GetSchedule(s) ==
    /\ firing[s].pc = "fired"
    /\ firing' = [firing EXCEPT ![s].pc = IF table[s].enabled
                                          THEN "enabled" ELSE "idle"]
    /\ UNCHANGED <<table, process, registered, sync, submitted, recorded,
                   surplus, faults>>

Submit(s) ==
    /\ firing[s].pc = "enabled"
    /\ submitted' = [submitted EXCEPT ![s] = @ + 1]
    /\ firing' = [firing EXCEPT ![s] = [pc  |-> "submitted",
                                        run |-> submitted[s] + 1]]
    /\ surplus' = IF table[s].enabled THEN surplus
                  ELSE [surplus EXCEPT ![s] = @ + 1]
    /\ UNCHANGED <<table, process, registered, sync, recorded, faults>>

\* Mutation of RecordTrigger: a schedule disabled meanwhile is not written.
RecordTriggerIfEnabled(s) ==
    /\ firing[s].pc = "submitted"
    /\ IF table[s].enabled
       THEN /\ table' = [table EXCEPT ![s].last = firing[s].run,
                                      ![s].next = TRUE,
                                      ![s].error = "none"]
            /\ recorded' = [recorded EXCEPT ![s] = @ \cup {firing[s].run}]
       ELSE UNCHANGED <<table, recorded>>
    /\ firing' = [firing EXCEPT ![s] = NoFiring]
    /\ UNCHANGED <<process, registered, sync, submitted, surplus, faults>>

RecordTrigger(s) ==
    /\ firing[s].pc = "submitted"
    /\ table' = [table EXCEPT ![s].last = firing[s].run,
                              ![s].next = TRUE,
                              ![s].error = "none"]
    /\ recorded' = [recorded EXCEPT ![s] = @ \cup {firing[s].run}]
    /\ firing' = [firing EXCEPT ![s] = NoFiring]
    /\ UNCHANGED <<process, registered, sync, submitted, surplus, faults>>

\* The submission failed, or the run is submitted and could not be recorded:
\* one handler serves both.
FiringFails(s) ==
    /\ firing[s].pc \in {"enabled", "submitted"}
    /\ Fault
    /\ firing' = [firing EXCEPT ![s].pc = "failing"]
    /\ UNCHANGED <<table, process, registered, sync, submitted, recorded,
                   surplus>>

\* Mutation of RecordError: the exception's own text is stored.
RecordErrorVerbatim(s) ==
    /\ firing[s].pc = "failing"
    /\ table' = [table EXCEPT ![s].error = "OperationalError"]
    /\ firing' = [firing EXCEPT ![s] = NoFiring]
    /\ UNCHANGED <<process, registered, sync, submitted, recorded, surplus,
                   faults>>

RecordError(s) ==
    /\ firing[s].pc = "failing"
    /\ table' = [table EXCEPT ![s].error = "enqueue"]
    /\ firing' = [firing EXCEPT ![s] = NoFiring]
    /\ UNCHANGED <<process, registered, sync, submitted, recorded, surplus,
                   faults>>

\* The first read or the last write of a firing fails: nothing is recorded.
FiringDies(s) ==
    /\ firing[s].pc \in {"fired", "failing"}
    /\ Fault
    /\ firing' = [firing EXCEPT ![s] = NoFiring]
    /\ UNCHANGED <<table, process, registered, sync, submitted, recorded,
                   surplus>>

(***************************************************************************)
(* The process dies and its container is started again.                    *)
(***************************************************************************)
Crash ==
    /\ process # "down"
    /\ Fault
    /\ process' = "down"
    /\ registered' = {}
    /\ sync' = NoSync
    /\ firing' = [s \in Schedules |-> NoFiring]
    /\ UNCHANGED <<table, submitted, recorded, surplus>>

Restart ==
    /\ process = "down"
    /\ process' = "starting"
    /\ UNCHANGED <<table, registered, sync, firing, submitted, recorded,
                   surplus, faults>>

-----------------------------------------------------------------------------
Init ==
    /\ table      = [s \in Schedules |-> NoRow]
    /\ process    = "starting"
    /\ registered = {}
    /\ sync       = NoSync
    /\ firing     = [s \in Schedules |-> NoFiring]
    /\ submitted  = [s \in Schedules |-> 0]
    /\ recorded   = [s \in Schedules |-> {}]
    /\ surplus    = [s \in Schedules |-> 0]
    /\ faults     = 0

Client ==
    \E s \in Schedules, enabled \in BOOLEAN :
        CreateSchedule(s, enabled) \/ SetEnabled(s, enabled)

Synchronise ==
    \/ ListSchedules
    \/ RemoveOthers
    \/ \E s \in Schedules : AddJob(s) \/ UpdateRegistration(s)
    \/ EndSync

Trigger(s) ==
    \/ GetSchedule(s)
    \/ Submit(s)
    \/ RecordTrigger(s)
    \/ RecordError(s)

Failure ==
    \/ SyncAborts
    \/ Crash
    \/ \E s \in Schedules :
           RegistrationFails(s) \/ FiringFails(s) \/ FiringDies(s)

Next ==
    \/ Client
    \/ Synchronise
    \/ \E s \in Schedules : Fire(s) \/ Trigger(s)
    \/ Failure
    \/ Restart

Spec == Init /\ [][Next]_vars

\* The reconcile interval comes round again and again, a round goes on, and a
\* process that died is started again.  Nothing is assumed of clients or of
\* the times at which schedules fire.
FairSpec == Spec /\ WF_vars(Synchronise) /\ WF_vars(Restart)

-----------------------------------------------------------------------------
TypeOK ==
    /\ table \in [Schedules -> Row]
    /\ process \in {"starting", "started", "down"}
    /\ registered \subseteq Schedules
    /\ sync \in [pc: {"idle", "listed", "registering"},
                 enabled: SUBSET Schedules, todo: SUBSET Schedules,
                 current: SUBSET Schedules]
    /\ firing \in [Schedules ->
                     [pc: {"idle", "fired", "enabled", "submitted", "failing"},
                      run: Nat]]
    /\ submitted \in [Schedules -> 0..MaxRuns]
    /\ recorded \in [Schedules -> SUBSET (1..MaxRuns)]
    /\ surplus \in [Schedules -> Nat]
    /\ faults \in 0..MaxFaults

\* A schedule that is disabled submits at most one more run, the one whose
\* firing had already read the row: however long APScheduler keeps the job, and
\* whatever a synchronisation that listed the schedule before registers again.
\* (enqueue_schedule's own check, max_instances=1)
OneRunAfterDisable == \A s \in Schedules : surplus[s] <= 1

\* last_run_id moves forward, and a run that no schedule row ever named was
\* lost to a failed transaction or a crash between submission and record, or
\* its firing is still under way.  (enqueue_schedule, record_trigger)
UnrecordedRunsAreFaults ==
    \A s \in Schedules :
        /\ \A r \in recorded[s] : r <= table[s].last
        /\ submitted[s] - Cardinality(recorded[s])
             <= faults + (IF firing[s].pc = "submitted" THEN 1 ELSE 0)

\* Whatever happens to synchronisations and processes, a schedule that stays
\* enabled gets its job in APScheduler and keeps it until the process dies
\* again, and one that stays disabled loses it.  (sync_schedules, run_forever)
RegistrationFollowsTable ==
    \A s \in Schedules :
        /\ <>[](table[s].enabled)  => <>[](s \in registered)
        /\ <>[](~table[s].enabled) => <>[](s \notin registered)
=============================================================================
