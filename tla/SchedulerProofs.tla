--------------------------- MODULE SchedulerProofs ---------------------------
(***************************************************************************)
(* Scheduler for any set of schedules and any bounds: the types of its     *)
(* rows, that a disabled schedule submits at most one more run, and that   *)
(* runs no row names were lost to a fault.                                 *)
(***************************************************************************)
EXTENDS Scheduler, FiniteSetTheorems, TLAPS

\* What the lists of a synchronisation, the scheduler and the firings refer to
\* exists.
Existing == {s \in Schedules : table[s].exists}

Listed ==
    /\ registered \subseteq Existing
    /\ sync.enabled \subseteq Existing
    /\ sync.todo \subseteq Existing
    /\ sync.current \subseteq Existing
    /\ \A s \in Schedules : firing[s].pc # "idle" => table[s].exists

\* A schedule that is enabled has submitted nothing too much; one that is not
\* may have a firing under way that has already read the row, but then it has
\* submitted nothing since.
SurplusFits(row, fire, more) ==
    /\ row.enabled => row.exists
    /\ (~row.exists \/ row.enabled \/ fire.pc = "enabled") => more = 0
    /\ more <= 1

\* Runs are numbered as they are submitted, and the one being recorded is the
\* newest.
NumbersFit(row, fire, runs, written) ==
    /\ fire.pc \in {"fired", "enabled"} => runs < MaxRuns
    /\ written \subseteq 1..runs
    /\ fire.pc = "submitted" => (fire.run = runs /\ runs > 0 /\ runs \notin written)
    /\ \A r \in written : r <= row.last
    /\ ~row.exists => row.last = 0

\* What is missing from the table.
LossFits(fire, runs, written, lost) ==
    runs - Cardinality(written) <= lost + (IF fire.pc = "submitted" THEN 1 ELSE 0)

ScheduleOK(s) ==
    /\ SurplusFits(table[s], firing[s], surplus[s])
    /\ NumbersFit(table[s], firing[s], submitted[s], recorded[s])
    /\ LossFits(firing[s], submitted[s], recorded[s], faults)

SchedulerInvariant == TypeOK /\ Listed /\ \A s \in Schedules : ScheduleOK(s)

(***************************************************************************)
(* What the writes leave in the table.                                     *)
(***************************************************************************)
Table == [Schedules -> Row]

ErrorText == {"none", "registration", "enqueue"}

\* The rows of others, and what s is, are as before.
WrittenAt(rows, new, s) ==
    /\ new \in Table
    /\ \A t \in Schedules : new[t].exists = rows[t].exists /\ (t # s => new[t] = rows[t])

WithEnabled(rows, s, x) == [rows EXCEPT ![s].enabled = x]
WithNext(rows, s, x)    == [rows EXCEPT ![s].next = x]
WithError(rows, s, x)   == [rows EXCEPT ![s].error = x]
WithLast(rows, s, n)    == [rows EXCEPT ![s].last = n]

WithRegistration(rows, s, x) == WithError(WithNext(rows, s, x), s, "none")
WithSetting(rows, s, x)      == WithRegistration(WithEnabled(rows, s, x), s, x)
WithTrigger(rows, s, n)      == WithRegistration(WithLast(rows, s, n), s, TRUE)

LEMMA ErrorWritten ==
    ASSUME NEW rows \in Table, NEW s \in Schedules, NEW x \in ErrorText
    PROVE  /\ WrittenAt(rows, WithError(rows, s, x), s)
           /\ WithError(rows, s, x)[s].enabled = rows[s].enabled
           /\ WithError(rows, s, x)[s].last = rows[s].last
BY DEF Table, Row, WrittenAt, ErrorText, WithError

LEMMA NextWritten ==
    ASSUME NEW rows \in Table, NEW s \in Schedules, NEW x \in BOOLEAN
    PROVE  /\ WrittenAt(rows, WithNext(rows, s, x), s)
           /\ WithNext(rows, s, x)[s].enabled = rows[s].enabled
           /\ WithNext(rows, s, x)[s].last = rows[s].last
BY DEF Table, Row, WrittenAt, WithNext

LEMMA EnabledWritten ==
    ASSUME NEW rows \in Table, NEW s \in Schedules, NEW x \in BOOLEAN
    PROVE  /\ WrittenAt(rows, WithEnabled(rows, s, x), s)
           /\ WithEnabled(rows, s, x)[s].enabled = x
           /\ WithEnabled(rows, s, x)[s].last = rows[s].last
BY DEF Table, Row, WrittenAt, WithEnabled

LEMMA LastWritten ==
    ASSUME NEW rows \in Table, NEW s \in Schedules, NEW n \in Nat
    PROVE  /\ WrittenAt(rows, WithLast(rows, s, n), s)
           /\ WithLast(rows, s, n)[s].enabled = rows[s].enabled
           /\ WithLast(rows, s, n)[s].last = n
BY DEF Table, Row, WrittenAt, WithLast

LEMMA WrittenAgain ==
    ASSUME NEW s \in Schedules, NEW a, NEW b, NEW c, WrittenAt(a, b, s), WrittenAt(b, c, s)
    PROVE  WrittenAt(a, c, s)
BY DEF WrittenAt

LEMMA RegistrationWritten ==
    ASSUME NEW rows \in Table, NEW s \in Schedules, NEW x \in BOOLEAN
    PROVE  /\ WrittenAt(rows, WithRegistration(rows, s, x), s)
           /\ WithRegistration(rows, s, x)[s].enabled = rows[s].enabled
           /\ WithRegistration(rows, s, x)[s].last = rows[s].last
<1>. DEFINE a   == WithNext(rows, s, x)
            new == WithRegistration(rows, s, x)
<1>1. new = WithError(a, s, "none")
  BY DEF WithRegistration
<1>2. /\ WrittenAt(rows, a, s)
      /\ a[s].enabled = rows[s].enabled /\ a[s].last = rows[s].last
  BY NextWritten
<1>. HIDE DEF a, new
<1>3. a \in Table /\ "none" \in ErrorText
  BY <1>2 DEF WrittenAt, ErrorText
<1>4. WrittenAt(a, new, s) /\ new[s].enabled = a[s].enabled /\ new[s].last = a[s].last
  BY <1>1, <1>3, ErrorWritten
<1>5. WrittenAt(rows, new, s) /\ new[s].enabled = rows[s].enabled /\ new[s].last = rows[s].last
  BY <1>2, <1>4, WrittenAgain
<1>. QED  BY <1>5 DEF new

LEMMA SettingWritten ==
    ASSUME NEW rows \in Table, NEW s \in Schedules, NEW x \in BOOLEAN
    PROVE  /\ WrittenAt(rows, WithSetting(rows, s, x), s)
           /\ WithSetting(rows, s, x)[s].enabled = x
           /\ WithSetting(rows, s, x)[s].last = rows[s].last
<1>. DEFINE a   == WithEnabled(rows, s, x)
            new == WithSetting(rows, s, x)
<1>1. new = WithRegistration(a, s, x)
  BY DEF WithSetting
<1>2. /\ WrittenAt(rows, a, s)
      /\ a[s].enabled = x /\ a[s].last = rows[s].last
  BY EnabledWritten
<1>. HIDE DEF a, new
<1>3. a \in Table /\ "none" \in ErrorText
  BY <1>2 DEF WrittenAt, ErrorText
<1>4. WrittenAt(a, new, s) /\ new[s].enabled = a[s].enabled /\ new[s].last = a[s].last
  BY <1>1, <1>3, RegistrationWritten
<1>5. WrittenAt(rows, new, s) /\ new[s].enabled = x /\ new[s].last = rows[s].last
  BY <1>2, <1>4, WrittenAgain
<1>. QED  BY <1>5 DEF new

LEMMA TriggerWritten ==
    ASSUME NEW rows \in Table, NEW s \in Schedules, NEW n \in Nat
    PROVE  /\ WrittenAt(rows, WithTrigger(rows, s, n), s)
           /\ WithTrigger(rows, s, n)[s].enabled = rows[s].enabled
           /\ WithTrigger(rows, s, n)[s].last = n
<1>. DEFINE a   == WithLast(rows, s, n)
            new == WithTrigger(rows, s, n)
<1>1. new = WithRegistration(a, s, TRUE)
  BY DEF WithTrigger
<1>2. /\ WrittenAt(rows, a, s)
      /\ a[s].enabled = rows[s].enabled /\ a[s].last = n
  BY LastWritten
<1>. HIDE DEF a, new
<1>3. a \in Table /\ "none" \in ErrorText
  BY <1>2 DEF WrittenAt, ErrorText
<1>4. WrittenAt(a, new, s) /\ new[s].enabled = a[s].enabled /\ new[s].last = a[s].last
  BY <1>1, <1>3, RegistrationWritten
<1>5. WrittenAt(rows, new, s) /\ new[s].enabled = rows[s].enabled /\ new[s].last = n
  BY <1>2, <1>4, WrittenAgain
<1>. QED  BY <1>5 DEF new

(***************************************************************************)
(* What a step leaves of the invariant.                                    *)
(***************************************************************************)
LEMMA RecordedIsFinite ==
    ASSUME TypeOK, NEW t \in Schedules
    PROVE  IsFiniteSet(recorded[t]) /\ Cardinality(recorded[t]) \in Nat
<1>1. IsFiniteSet(1..MaxRuns)
  BY ScheduleAssumption, FS_Interval
<1>2. recorded[t] \in SUBSET (1..MaxRuns)
  BY DEF TypeOK
<1>3. IsFiniteSet(recorded[t])
  BY <1>1, <1>2, FS_Subset
<1>. QED  BY <1>3, FS_CardinalityType

\* A schedule whose row, firing and history are as before, but for what does
\* not matter, stays in order, although more transactions may have failed.
LEMMA KeptInOrder ==
    ASSUME SchedulerInvariant, NEW t \in Schedules, faults' \in Nat, faults' >= faults,
           table'[t].exists = table[t].exists, table'[t].enabled = table[t].enabled,
           table'[t].last = table[t].last,
           firing'[t] = firing[t] \/ firing'[t].pc = "idle" \/ (firing'[t].pc = "fired" /\ submitted[t] < MaxRuns),
           (firing[t].pc = "submitted" /\ firing'[t].pc # "submitted") => faults' > faults,
           submitted'[t] = submitted[t],
           recorded'[t] = recorded[t], surplus'[t] = surplus[t]
    PROVE  ScheduleOK(t)'
<1>1. faults \in Nat /\ submitted[t] \in Nat
  BY ScheduleAssumption DEF SchedulerInvariant, TypeOK
<1>2. Cardinality(recorded[t]) \in Nat
  BY RecordedIsFinite DEF SchedulerInvariant
<1>3. ScheduleOK(t)
  BY DEF SchedulerInvariant
<1>4. SurplusFits(table'[t], firing'[t], surplus'[t])
  BY <1>3 DEF ScheduleOK, SurplusFits
<1>5. NumbersFit(table'[t], firing'[t], submitted'[t], recorded'[t])
  BY <1>3 DEF ScheduleOK, NumbersFit
<1>6. LossFits(firing'[t], submitted'[t], recorded'[t], faults')
  BY <1>1, <1>2, <1>3 DEF ScheduleOK, LossFits
<1>. QED  BY <1>4, <1>5, <1>6 DEF ScheduleOK

LEMMA StaysListed ==
    ASSUME Listed,
           \A t \in Schedules : table[t].exists => table'[t].exists,
           registered' \subseteq registered,
           sync'.enabled \subseteq sync.enabled, sync'.todo \subseteq sync.todo,
           sync'.current \subseteq sync.current,
           \A t \in Schedules : firing'[t].pc # "idle" => firing[t].pc # "idle"
    PROVE  Listed'
BY DEF Listed, Existing

FiringState == [pc: {"idle", "fired", "enabled", "submitted", "failing"}, run: Nat]

\* The step of a firing of s that only moves it on.
MovedTo(s, fires, pc) == [fires EXCEPT ![s].pc = pc]

LEMMA FiringMoved ==
    ASSUME NEW fires \in [Schedules -> FiringState], NEW s \in Schedules,
           NEW pc \in {"idle", "fired", "enabled", "submitted", "failing"}
    PROVE  /\ MovedTo(s, fires, pc) \in [Schedules -> FiringState]
           /\ MovedTo(s, fires, pc)[s].pc = pc
           /\ MovedTo(s, fires, pc)[s].run = fires[s].run
           /\ \A t \in Schedules \ {s} : MovedTo(s, fires, pc)[t] = fires[t]
BY DEF FiringState, MovedTo

FiringEnded(s, fires) == [fires EXCEPT ![s] = NoFiring]

LEMMA FiringReset ==
    ASSUME NEW fires \in [Schedules -> FiringState], NEW s \in Schedules
    PROVE  /\ FiringEnded(s, fires) \in [Schedules -> FiringState]
           /\ FiringEnded(s, fires)[s].pc = "idle"
           /\ \A t \in Schedules \ {s} : FiringEnded(s, fires)[t] = fires[t]
BY DEF FiringState, FiringEnded, NoFiring

\* A transaction that fails is counted.
LEMMA FaultCounted ==
    ASSUME TypeOK, Fault
    PROVE  faults' \in 0..MaxFaults /\ faults' \in Nat /\ faults' > faults
BY ScheduleAssumption DEF TypeOK, Fault

LEMMA FaultsNumber ==
    ASSUME TypeOK
    PROVE  faults \in Nat /\ faults >= faults
BY ScheduleAssumption DEF TypeOK

(***************************************************************************)
(* The API process.                                                        *)
(***************************************************************************)
LEMMA InvariantCreateSchedule ==
    ASSUME SchedulerInvariant, NEW s \in Schedules, NEW x \in BOOLEAN, CreateSchedule(s, x)
    PROVE  SchedulerInvariant'
<1>. DEFINE new == [NoRow EXCEPT !.exists = TRUE, !.enabled = x, !.next = x]
<1>0. new \in Row /\ new.exists /\ new.enabled = x /\ new.last = 0
  BY DEF NoRow, Row
<1>1. table' = [table EXCEPT ![s] = new]
  BY DEF CreateSchedule
<1>. HIDE DEF new
<1>2. table' \in [Schedules -> Row] /\ table'[s] = new /\ \A t \in Schedules \ {s} : table'[t] = table[t]
  BY <1>0, <1>1 DEF SchedulerInvariant, TypeOK
<1>3. TypeOK'
  BY <1>2 DEF SchedulerInvariant, TypeOK, CreateSchedule
<1>4. Listed'
  BY <1>0, <1>2, StaysListed DEF SchedulerInvariant, CreateSchedule
<1>5. ASSUME NEW t \in Schedules PROVE ScheduleOK(t)'
  <2>1. CASE t # s
    <3>1. table'[t] = table[t]
      BY <2>1, <1>2
    <3>2. faults' \in Nat /\ faults' >= faults
      BY FaultsNumber DEF SchedulerInvariant, CreateSchedule
    <3>. QED  BY <3>1, <3>2, KeptInOrder DEF CreateSchedule
  <2>2. CASE t = s
    <3>1. ScheduleOK(s) /\ Listed /\ ~table[s].exists
      BY DEF SchedulerInvariant, CreateSchedule
    <3>2. surplus[s] = 0 /\ firing[s].pc = "idle" /\ table[s].last = 0
      BY <3>1 DEF ScheduleOK, SurplusFits, NumbersFit, Listed
    <3>3. SurplusFits(table'[s], firing'[s], surplus'[s])
      BY <1>0, <1>2, <3>2 DEF SurplusFits, CreateSchedule
    <3>. QED  BY <1>0, <1>2, <2>2, <3>1, <3>2, <3>3 DEF ScheduleOK, NumbersFit, LossFits, CreateSchedule
  <2>. QED  BY <2>1, <2>2
<1>. QED  BY <1>3, <1>4, <1>5 DEF SchedulerInvariant

LEMMA InvariantSetEnabled ==
    ASSUME SchedulerInvariant, NEW s \in Schedules, NEW x \in BOOLEAN, SetEnabled(s, x)
    PROVE  SchedulerInvariant'
<1>1. table' = WithSetting(table, s, x)
  BY DEF SetEnabled, WithSetting, WithRegistration, WithEnabled, WithNext, WithError
<1>2. WrittenAt(table, table', s) /\ table'[s].enabled = x /\ table'[s].last = table[s].last
  BY <1>1, SettingWritten DEF SchedulerInvariant, TypeOK, Table
<1>3. TypeOK'
  BY <1>2 DEF SchedulerInvariant, TypeOK, SetEnabled, WrittenAt, Table
<1>4. Listed'
  BY <1>2, StaysListed DEF SchedulerInvariant, SetEnabled, WrittenAt
<1>5. ASSUME NEW t \in Schedules PROVE ScheduleOK(t)'
  <2>1. CASE t # s
    <3>1. surplus'[t] = surplus[t]
      BY <2>1 DEF SetEnabled, SchedulerInvariant, TypeOK
    <3>2. table'[t] = table[t]
      BY <2>1, <1>2 DEF WrittenAt
    <3>3. faults' \in Nat /\ faults' >= faults
      BY FaultsNumber DEF SchedulerInvariant, SetEnabled
    <3>. QED  BY <3>1, <3>2, <3>3, KeptInOrder DEF SetEnabled
  <2>2. CASE t = s
    <3>1. surplus'[s] = IF x THEN 0 ELSE surplus[s]
      BY DEF SetEnabled, SchedulerInvariant, TypeOK
    <3>2. ScheduleOK(s) /\ table[s].exists /\ table'[s].exists
      BY <1>2 DEF SchedulerInvariant, SetEnabled, WrittenAt
    <3>3. SurplusFits(table'[s], firing'[s], surplus'[s])
      BY <1>2, <3>1, <3>2 DEF ScheduleOK, SurplusFits, SetEnabled
    <3>. QED  BY <1>2, <2>2, <3>2, <3>3 DEF ScheduleOK, NumbersFit, LossFits, SetEnabled
  <2>. QED  BY <2>1, <2>2
<1>. QED  BY <1>3, <1>4, <1>5 DEF SchedulerInvariant

(***************************************************************************)
(* sync_schedules.  A round changes nothing a firing depends on.           *)
(***************************************************************************)
LEMMA SyncKeepsOrder ==
    ASSUME SchedulerInvariant, faults' \in Nat, faults' >= faults,
           NEW s, table' = table \/ (s \in Schedules /\ WrittenAt(table, table', s)
                                     /\ table'[s].enabled = table[s].enabled
                                     /\ table'[s].last = table[s].last),
           UNCHANGED <<firing, submitted, recorded, surplus>>
    PROVE  \A t \in Schedules : ScheduleOK(t)'
<1>. SUFFICES ASSUME NEW t \in Schedules PROVE ScheduleOK(t)'
  OBVIOUS
<1>1. /\ table'[t].exists = table[t].exists /\ table'[t].enabled = table[t].enabled
      /\ table'[t].last = table[t].last
  BY DEF WrittenAt
<1>. QED  BY <1>1, KeptInOrder

LEMMA InvariantListSchedules ==
    ASSUME SchedulerInvariant, ListSchedules
    PROVE  SchedulerInvariant'
<1>. DEFINE listed == {s \in Schedules : table[s].enabled}
<1>1. /\ sync'.pc = "listed" /\ sync'.enabled = listed /\ sync'.todo = listed /\ sync'.current = {}
      /\ sync' \in [pc: {"idle", "listed", "registering"}, enabled: SUBSET Schedules,
                    todo: SUBSET Schedules, current: SUBSET Schedules]
  BY DEF ListSchedules, NoSync
<1>2. listed \subseteq Existing
  BY DEF Existing, SchedulerInvariant, ScheduleOK, SurplusFits
<1>3. TypeOK'
  BY <1>1 DEF TypeOK, ListSchedules, SchedulerInvariant
<1>. HIDE DEF listed
<1>4. Listed'
  BY <1>1, <1>2 DEF Listed, Existing, ListSchedules, SchedulerInvariant
<1>5. \A t \in Schedules : ScheduleOK(t)'
  BY SyncKeepsOrder, FaultsNumber DEF ListSchedules, SchedulerInvariant
<1>. QED  BY <1>3, <1>4, <1>5 DEF SchedulerInvariant

LEMMA InvariantRemoveOthers ==
    ASSUME SchedulerInvariant, RemoveOthers
    PROVE  SchedulerInvariant'
<1>1. TypeOK'
  BY DEF TypeOK, RemoveOthers, SchedulerInvariant
<1>2. Listed'
  BY StaysListed DEF RemoveOthers, SchedulerInvariant, TypeOK
<1>3. \A t \in Schedules : ScheduleOK(t)'
  BY SyncKeepsOrder, FaultsNumber DEF RemoveOthers, SchedulerInvariant
<1>. QED  BY <1>1, <1>2, <1>3 DEF SchedulerInvariant

LEMMA InvariantAddJob ==
    ASSUME SchedulerInvariant, NEW s \in Schedules, AddJob(s)
    PROVE  SchedulerInvariant'
<1>1. TypeOK'
  BY DEF TypeOK, AddJob, SchedulerInvariant
<1>2. Listed'
  BY DEF Listed, Existing, AddJob, SchedulerInvariant, TypeOK
<1>3. \A t \in Schedules : ScheduleOK(t)'
  BY SyncKeepsOrder, FaultsNumber DEF AddJob, SchedulerInvariant
<1>. QED  BY <1>1, <1>2, <1>3 DEF SchedulerInvariant

LEMMA InvariantUpdateRegistration ==
    ASSUME SchedulerInvariant, NEW s \in Schedules, UpdateRegistration(s)
    PROVE  SchedulerInvariant'
<1>1. table' = WithRegistration(table, s, TRUE)
  BY DEF UpdateRegistration, WithRegistration, WithNext, WithError
<1>2. WrittenAt(table, table', s) /\ table'[s].enabled = table[s].enabled /\ table'[s].last = table[s].last
  BY <1>1, RegistrationWritten DEF SchedulerInvariant, TypeOK, Table
<1>3. TypeOK'
  BY <1>2 DEF SchedulerInvariant, TypeOK, UpdateRegistration, WrittenAt, Table
<1>4. Listed'
  BY <1>2, StaysListed DEF SchedulerInvariant, UpdateRegistration, WrittenAt, TypeOK
<1>5. \A t \in Schedules : ScheduleOK(t)'
  BY <1>2, SyncKeepsOrder, FaultsNumber DEF UpdateRegistration, SchedulerInvariant
<1>. QED  BY <1>3, <1>4, <1>5 DEF SchedulerInvariant

LEMMA InvariantRegistrationFails ==
    ASSUME SchedulerInvariant, NEW s \in Schedules, RegistrationFails(s)
    PROVE  SchedulerInvariant'
<1>1. table' = WithError(table, s, "registration") /\ "registration" \in ErrorText
  BY DEF RegistrationFails, WithError, ErrorText
<1>2. WrittenAt(table, table', s) /\ table'[s].enabled = table[s].enabled /\ table'[s].last = table[s].last
  BY <1>1, ErrorWritten DEF SchedulerInvariant, TypeOK, Table
<1>3. faults' \in 0..MaxFaults /\ faults' \in Nat /\ faults' > faults /\ faults \in Nat
  BY FaultCounted, FaultsNumber DEF SchedulerInvariant, RegistrationFails
<1>4. TypeOK'
  BY <1>2, <1>3 DEF SchedulerInvariant, TypeOK, RegistrationFails, WrittenAt, Table
<1>5. Listed'
  BY <1>2, StaysListed DEF SchedulerInvariant, RegistrationFails, WrittenAt, TypeOK
<1>6. \A t \in Schedules : ScheduleOK(t)'
  <2>1. faults' \in Nat /\ faults' >= faults
    BY <1>3
  <2>. QED  BY <1>2, <2>1, SyncKeepsOrder DEF RegistrationFails
<1>. QED  BY <1>4, <1>5, <1>6 DEF SchedulerInvariant

LEMMA InvariantSyncAborts ==
    ASSUME SchedulerInvariant, SyncAborts
    PROVE  SchedulerInvariant'
<1>1. faults' \in 0..MaxFaults /\ faults' \in Nat /\ faults' > faults /\ faults \in Nat
  BY FaultCounted, FaultsNumber DEF SchedulerInvariant, SyncAborts
<1>2. TypeOK'
  BY <1>1 DEF SchedulerInvariant, TypeOK, SyncAborts, NoSync
<1>3. Listed'
  BY StaysListed DEF SchedulerInvariant, SyncAborts, NoSync
<1>4. \A t \in Schedules : ScheduleOK(t)'
  BY <1>1, SyncKeepsOrder DEF SyncAborts, SchedulerInvariant
<1>. QED  BY <1>2, <1>3, <1>4 DEF SchedulerInvariant

LEMMA InvariantEndSync ==
    ASSUME SchedulerInvariant, EndSync
    PROVE  SchedulerInvariant'
<1>1. TypeOK'
  BY DEF SchedulerInvariant, TypeOK, EndSync, NoSync
<1>2. Listed'
  BY StaysListed DEF SchedulerInvariant, EndSync, NoSync
<1>3. \A t \in Schedules : ScheduleOK(t)'
  BY SyncKeepsOrder, FaultsNumber DEF EndSync, SchedulerInvariant
<1>. QED  BY <1>1, <1>2, <1>3 DEF SchedulerInvariant

(***************************************************************************)
(* enqueue_schedule.                                                       *)
(***************************************************************************)
LEMMA InvariantFire ==
    ASSUME SchedulerInvariant, NEW s \in Schedules, Fire(s)
    PROVE  SchedulerInvariant'
<1>1. firing' = MovedTo(s, firing, "fired")
  BY DEF Fire, MovedTo
<1>2. /\ firing' \in [Schedules -> FiringState] /\ firing'[s].pc = "fired"
      /\ \A t \in Schedules \ {s} : firing'[t] = firing[t]
  BY <1>1, FiringMoved DEF SchedulerInvariant, TypeOK, FiringState
<1>3. TypeOK'
  BY <1>2 DEF SchedulerInvariant, TypeOK, Fire, FiringState
<1>4. table[s].exists /\ firing[s].pc = "idle" /\ submitted[s] < MaxRuns
  BY DEF SchedulerInvariant, Listed, Existing, Fire
<1>5. Listed'
  BY <1>2, <1>4 DEF SchedulerInvariant, Listed, Existing, Fire
<1>6. ASSUME NEW t \in Schedules PROVE ScheduleOK(t)'
  BY <1>2, <1>4, KeptInOrder, FaultsNumber DEF SchedulerInvariant, Fire
<1>. QED  BY <1>3, <1>5, <1>6 DEF SchedulerInvariant

LEMMA InvariantGetSchedule ==
    ASSUME SchedulerInvariant, NEW s \in Schedules, GetSchedule(s)
    PROVE  SchedulerInvariant'
<1>. DEFINE pc == IF table[s].enabled THEN "enabled" ELSE "idle"
<1>1. firing' = MovedTo(s, firing, pc)
  BY DEF GetSchedule, MovedTo
<1>2. pc \in {"enabled", "idle"} /\ (pc = "enabled" => table[s].enabled)
  OBVIOUS
<1>. HIDE DEF pc
<1>3. /\ firing' \in [Schedules -> FiringState] /\ firing'[s].pc = pc
      /\ \A t \in Schedules \ {s} : firing'[t] = firing[t]
  BY <1>1, <1>2, FiringMoved DEF SchedulerInvariant, TypeOK, FiringState
<1>4. TypeOK'
  BY <1>3 DEF SchedulerInvariant, TypeOK, GetSchedule, FiringState
<1>5. Listed'
  BY <1>3, StaysListed DEF SchedulerInvariant, GetSchedule
<1>6. ASSUME NEW t \in Schedules PROVE ScheduleOK(t)'
  <2>1. faults' \in Nat /\ faults' >= faults
    BY FaultsNumber DEF SchedulerInvariant, GetSchedule
  <2>2. CASE t # s
    BY <1>3, <2>1, <2>2, KeptInOrder DEF GetSchedule
  <2>3. CASE t = s
    <3>1. ScheduleOK(s) /\ firing[s].pc = "fired"
      BY DEF SchedulerInvariant, GetSchedule
    <3>2. SurplusFits(table[s], firing'[s], surplus[s])
      BY <1>2, <1>3, <3>1 DEF ScheduleOK, SurplusFits
    <3>3. NumbersFit(table[s], firing'[s], submitted[s], recorded[s])
      BY <1>2, <1>3, <3>1 DEF ScheduleOK, NumbersFit
    <3>4. LossFits(firing'[s], submitted[s], recorded[s], faults)
      BY <1>2, <1>3, <3>1 DEF ScheduleOK, LossFits
    <3>. QED  BY <2>3, <3>2, <3>3, <3>4 DEF ScheduleOK, GetSchedule
  <2>. QED  BY <2>2, <2>3
<1>. QED  BY <1>4, <1>5, <1>6 DEF SchedulerInvariant

LEMMA InvariantSubmit ==
    ASSUME SchedulerInvariant, NEW s \in Schedules, Submit(s)
    PROVE  SchedulerInvariant'
<1>. DEFINE n == submitted[s] + 1
            fire == [pc |-> "submitted", run |-> n]
<1>1. ScheduleOK(s) /\ firing[s].pc = "enabled" /\ table[s].exists
  BY DEF SchedulerInvariant, Listed, Submit
<1>2. submitted[s] \in Nat /\ submitted[s] < MaxRuns /\ n \in 1..MaxRuns
  BY <1>1, ScheduleAssumption DEF ScheduleOK, NumbersFit, SchedulerInvariant, TypeOK
<1>3. surplus[s] = 0 /\ ~(table[s].enabled /\ ~table[s].exists)
  BY <1>1 DEF ScheduleOK, SurplusFits
<1>4. submitted' = [submitted EXCEPT ![s] = n] /\ firing' = [firing EXCEPT ![s] = fire]
  BY DEF Submit
<1>5. fire \in FiringState /\ fire.pc = "submitted" /\ fire.run = n
  BY <1>2 DEF FiringState
<1>. HIDE DEF n, fire
<1>6. /\ submitted' \in [Schedules -> 0..MaxRuns] /\ submitted'[s] = n
      /\ \A t \in Schedules \ {s} : submitted'[t] = submitted[t]
  BY <1>2, <1>4 DEF SchedulerInvariant, TypeOK
<1>7. /\ firing' \in [Schedules -> FiringState] /\ firing'[s] = fire
      /\ \A t \in Schedules \ {s} : firing'[t] = firing[t]
  BY <1>4, <1>5 DEF SchedulerInvariant, TypeOK, FiringState
<1>8. /\ surplus' \in [Schedules -> Nat] /\ surplus'[s] = (IF table[s].enabled THEN 0 ELSE 1)
      /\ \A t \in Schedules \ {s} : surplus'[t] = surplus[t]
  <2>1. CASE table[s].enabled
    BY <2>1, <1>3 DEF SchedulerInvariant, TypeOK, Submit
  <2>2. CASE ~table[s].enabled
    <3>1. surplus \in [Schedules -> Nat] /\ surplus' = [surplus EXCEPT ![s] = surplus[s] + 1]
      BY <2>2 DEF SchedulerInvariant, TypeOK, Submit
    <3>. QED  BY <2>2, <3>1, <1>3
  <2>. QED  BY <2>1, <2>2
<1>9. TypeOK'
  BY <1>6, <1>7, <1>8 DEF SchedulerInvariant, TypeOK, FiringState, Submit
<1>10. Listed'
  BY <1>1, <1>7 DEF SchedulerInvariant, Listed, Existing, Submit
<1>11. ASSUME NEW t \in Schedules PROVE ScheduleOK(t)'
  <2>1. faults' \in Nat /\ faults' >= faults
    BY FaultsNumber DEF SchedulerInvariant, Submit
  <2>2. CASE t # s
    BY <1>6, <1>7, <1>8, <2>1, <2>2, KeptInOrder DEF Submit
  <2>3. CASE t = s
    <3>1. SurplusFits(table[s], fire, surplus'[s])
      BY <1>1, <1>3, <1>5, <1>8 DEF ScheduleOK, SurplusFits
    <3>2. NumbersFit(table[s], fire, submitted'[s], recorded[s])
      <4>1. recorded[s] \subseteq 1..submitted[s] /\ \A r \in recorded[s] : r <= table[s].last
        BY <1>1 DEF ScheduleOK, NumbersFit
      <4>2. n \in Nat /\ n > submitted[s]
        BY <1>2 DEF n
      <4>. QED  BY <1>1, <1>2, <1>5, <1>6, <4>1, <4>2 DEF NumbersFit
    <3>3. LossFits(fire, submitted'[s], recorded[s], faults)
      <4>1. Cardinality(recorded[s]) \in Nat /\ faults \in Nat
        BY RecordedIsFinite, FaultsNumber DEF SchedulerInvariant
      <4>2. submitted[s] - Cardinality(recorded[s]) <= faults
        BY <1>1, <1>2, <4>1 DEF ScheduleOK, LossFits
      <4>3. n = submitted[s] + 1
        BY DEF n
      <4>. QED  BY <1>2, <1>5, <1>6, <4>1, <4>2, <4>3 DEF LossFits
    <3>. QED  BY <1>7, <2>3, <3>1, <3>2, <3>3 DEF ScheduleOK, Submit
  <2>. QED  BY <2>2, <2>3
<1>. QED  BY <1>9, <1>10, <1>11 DEF SchedulerInvariant

LEMMA InvariantRecordTrigger ==
    ASSUME SchedulerInvariant, NEW s \in Schedules, RecordTrigger(s)
    PROVE  SchedulerInvariant'
<1>. DEFINE n == firing[s].run
            written == recorded[s] \cup {n}
<1>1. ScheduleOK(s) /\ firing[s].pc = "submitted" /\ table[s].exists
  BY DEF SchedulerInvariant, Listed, RecordTrigger
<1>2. n \in Nat /\ n = submitted[s] /\ n \in 1..MaxRuns /\ n \notin recorded[s]
  BY <1>1, ScheduleAssumption DEF ScheduleOK, NumbersFit, SchedulerInvariant, TypeOK
<1>3. table' = WithTrigger(table, s, n)
  BY DEF RecordTrigger, WithTrigger, WithRegistration, WithLast, WithNext, WithError
<1>4. recorded' = [recorded EXCEPT ![s] = written]
  BY DEF RecordTrigger
<1>5. firing' = FiringEnded(s, firing)
  BY DEF RecordTrigger, FiringEnded
<1>6. written \in SUBSET (1..MaxRuns)
  BY <1>2 DEF SchedulerInvariant, TypeOK
<1>7. Cardinality(written) = Cardinality(recorded[s]) + 1 /\ Cardinality(recorded[s]) \in Nat
  <2>1. IsFiniteSet(recorded[s]) /\ Cardinality(recorded[s]) \in Nat
    BY RecordedIsFinite DEF SchedulerInvariant
  <2>. QED  BY <1>2, <2>1, FS_AddElement
<1>8. n \in written /\ written \subseteq recorded[s] \cup {n}
  OBVIOUS
<1>. HIDE DEF n, written
<1>9. WrittenAt(table, table', s) /\ table'[s].enabled = table[s].enabled /\ table'[s].last = n
  <2>1. table \in Table
    BY DEF SchedulerInvariant, TypeOK, Table
  <2>. QED  BY <1>2, <1>3, <2>1, TriggerWritten
<1>10. /\ firing' \in [Schedules -> FiringState] /\ firing'[s].pc = "idle"
       /\ \A t \in Schedules \ {s} : firing'[t] = firing[t]
  BY <1>5, FiringReset DEF SchedulerInvariant, TypeOK, FiringState
<1>11. /\ recorded' \in [Schedules -> SUBSET (1..MaxRuns)] /\ recorded'[s] = written
       /\ \A t \in Schedules \ {s} : recorded'[t] = recorded[t]
  BY <1>4, <1>6 DEF SchedulerInvariant, TypeOK
<1>12. TypeOK'
  BY <1>9, <1>10, <1>11 DEF SchedulerInvariant, TypeOK, RecordTrigger, WrittenAt, Table, FiringState
<1>13. Listed'
  BY <1>9, <1>10, StaysListed DEF SchedulerInvariant, RecordTrigger, WrittenAt
<1>14. ASSUME NEW t \in Schedules PROVE ScheduleOK(t)'
  <2>1. faults' \in Nat /\ faults' >= faults /\ faults' = faults
    BY FaultsNumber DEF SchedulerInvariant, RecordTrigger
  <2>2. CASE t # s
    <3>1. table'[t] = table[t]
      BY <1>9, <2>2 DEF WrittenAt
    <3>. QED  BY <1>10, <1>11, <2>1, <2>2, <3>1, KeptInOrder DEF RecordTrigger
  <2>3. CASE t = s
    <3>0. table'[s].exists
      BY <1>1, <1>9 DEF WrittenAt
    <3>1. SurplusFits(table'[s], firing'[s], surplus[s])
      BY <1>1, <1>9, <1>10, <3>0 DEF ScheduleOK, SurplusFits
    <3>2. NumbersFit(table'[s], firing'[s], submitted[s], recorded'[s])
      <4>1. recorded[s] \subseteq 1..submitted[s]
        BY <1>1 DEF ScheduleOK, NumbersFit
      <4>2. written \subseteq 1..submitted[s] /\ \A r \in written : r <= n
        <5>. SUFFICES ASSUME NEW r \in written PROVE r \in 1..submitted[s] /\ r <= n
          OBVIOUS
        <5>1. CASE r = n
          BY <5>1, <1>2
        <5>2. CASE r \in recorded[s]
          BY <5>2, <1>2, <4>1
        <5>. QED  BY <1>8, <5>1, <5>2
      <4>. QED  BY <1>9, <1>10, <1>11, <3>0, <4>2 DEF NumbersFit
    <3>3. LossFits(firing'[s], submitted[s], recorded'[s], faults)
      <4>1. submitted[s] - Cardinality(recorded[s]) <= faults + 1 /\ submitted[s] \in Nat /\ faults \in Nat
        BY <1>1, <1>2, FaultsNumber DEF ScheduleOK, LossFits, SchedulerInvariant
      <4>. QED  BY <1>7, <1>10, <1>11, <4>1 DEF LossFits
    <3>. QED  BY <2>1, <2>3, <3>1, <3>2, <3>3 DEF ScheduleOK, RecordTrigger
  <2>. QED  BY <2>2, <2>3
<1>. QED  BY <1>12, <1>13, <1>14 DEF SchedulerInvariant

LEMMA InvariantFiringFails ==
    ASSUME SchedulerInvariant, NEW s \in Schedules, FiringFails(s)
    PROVE  SchedulerInvariant'
<1>1. faults' \in 0..MaxFaults /\ faults' \in Nat /\ faults' > faults /\ faults \in Nat
  BY FaultCounted, FaultsNumber DEF SchedulerInvariant, FiringFails
<1>2. firing' = MovedTo(s, firing, "failing")
  BY DEF FiringFails, MovedTo
<1>3. /\ firing' \in [Schedules -> FiringState] /\ firing'[s].pc = "failing"
      /\ \A t \in Schedules \ {s} : firing'[t] = firing[t]
  BY <1>2, FiringMoved DEF SchedulerInvariant, TypeOK, FiringState
<1>4. TypeOK'
  BY <1>1, <1>3 DEF SchedulerInvariant, TypeOK, FiringFails, FiringState
<1>5. Listed'
  BY <1>3, StaysListed DEF SchedulerInvariant, FiringFails
<1>6. ASSUME NEW t \in Schedules PROVE ScheduleOK(t)'
  <2>1. CASE t # s
    BY <1>1, <1>3, <2>1, KeptInOrder DEF FiringFails
  <2>2. CASE t = s
    <3>1. ScheduleOK(s) /\ firing[s].pc \in {"enabled", "submitted"}
      BY DEF SchedulerInvariant, FiringFails
    <3>2. SurplusFits(table[s], firing'[s], surplus[s]) /\ NumbersFit(table[s], firing'[s], submitted[s], recorded[s])
      BY <1>3, <3>1 DEF ScheduleOK, SurplusFits, NumbersFit
    <3>3. LossFits(firing'[s], submitted[s], recorded[s], faults')
      <4>1. submitted[s] \in Nat /\ Cardinality(recorded[s]) \in Nat
        BY RecordedIsFinite, ScheduleAssumption DEF SchedulerInvariant, TypeOK
      <4>. QED  BY <1>1, <1>3, <3>1, <4>1 DEF ScheduleOK, LossFits
    <3>. QED  BY <2>2, <3>2, <3>3 DEF ScheduleOK, FiringFails
  <2>. QED  BY <2>1, <2>2
<1>. QED  BY <1>4, <1>5, <1>6 DEF SchedulerInvariant

LEMMA InvariantRecordError ==
    ASSUME SchedulerInvariant, NEW s \in Schedules, RecordError(s)
    PROVE  SchedulerInvariant'
<1>1. table' = WithError(table, s, "enqueue") /\ "enqueue" \in ErrorText
  BY DEF RecordError, WithError, ErrorText
<1>2. WrittenAt(table, table', s) /\ table'[s].enabled = table[s].enabled /\ table'[s].last = table[s].last
  BY <1>1, ErrorWritten DEF SchedulerInvariant, TypeOK, Table
<1>3. firing' = FiringEnded(s, firing)
  BY DEF RecordError, FiringEnded
<1>4. /\ firing' \in [Schedules -> FiringState] /\ firing'[s].pc = "idle"
      /\ \A t \in Schedules \ {s} : firing'[t] = firing[t]
  BY <1>3, FiringReset DEF SchedulerInvariant, TypeOK, FiringState
<1>5. TypeOK'
  BY <1>2, <1>4 DEF SchedulerInvariant, TypeOK, RecordError, WrittenAt, Table, FiringState
<1>6. Listed'
  BY <1>2, <1>4, StaysListed DEF SchedulerInvariant, RecordError, WrittenAt
<1>7. ASSUME NEW t \in Schedules PROVE ScheduleOK(t)'
  <2>1. faults' \in Nat /\ faults' >= faults /\ firing[s].pc = "failing"
    BY FaultsNumber DEF SchedulerInvariant, RecordError
  <2>2. /\ table'[t].exists = table[t].exists /\ table'[t].enabled = table[t].enabled
        /\ table'[t].last = table[t].last
    BY <1>2 DEF WrittenAt
  <2>. QED  BY <1>4, <2>1, <2>2, KeptInOrder DEF RecordError
<1>. QED  BY <1>5, <1>6, <1>7 DEF SchedulerInvariant

LEMMA InvariantFiringDies ==
    ASSUME SchedulerInvariant, NEW s \in Schedules, FiringDies(s)
    PROVE  SchedulerInvariant'
<1>1. faults' \in 0..MaxFaults /\ faults' \in Nat /\ faults' > faults
  BY FaultCounted DEF SchedulerInvariant, FiringDies
<1>2. firing' = FiringEnded(s, firing)
  BY DEF FiringDies, FiringEnded
<1>3. /\ firing' \in [Schedules -> FiringState] /\ firing'[s].pc = "idle"
      /\ \A t \in Schedules \ {s} : firing'[t] = firing[t]
  BY <1>2, FiringReset DEF SchedulerInvariant, TypeOK, FiringState
<1>4. TypeOK'
  BY <1>1, <1>3 DEF SchedulerInvariant, TypeOK, FiringDies, FiringState
<1>5. Listed'
  BY <1>3, StaysListed DEF SchedulerInvariant, FiringDies
<1>6. ASSUME NEW t \in Schedules PROVE ScheduleOK(t)'
  <2>1. faults' >= faults
    BY <1>1, FaultsNumber DEF SchedulerInvariant
  <2>. QED  BY <1>1, <1>3, <2>1, KeptInOrder DEF FiringDies
<1>. QED  BY <1>4, <1>5, <1>6 DEF SchedulerInvariant

(***************************************************************************)
(* The process.                                                            *)
(***************************************************************************)
LEMMA InvariantCrash ==
    ASSUME SchedulerInvariant, Crash
    PROVE  SchedulerInvariant'
<1>1. faults' \in 0..MaxFaults /\ faults' \in Nat /\ faults' > faults /\ faults \in Nat
  BY FaultCounted, FaultsNumber DEF SchedulerInvariant, Crash
<1>2. \A t \in Schedules : firing'[t] = NoFiring /\ firing'[t].pc = "idle"
  BY DEF Crash, NoFiring
<1>3. TypeOK'
  <2>1. firing' \in [Schedules -> FiringState]
    BY DEF Crash, NoFiring, FiringState
  <2>. QED  BY <1>1, <2>1 DEF SchedulerInvariant, TypeOK, Crash, NoSync, FiringState
<1>4. Listed'
  BY <1>2, StaysListed DEF SchedulerInvariant, Crash, NoSync
<1>5. ASSUME NEW t \in Schedules PROVE ScheduleOK(t)'
  BY <1>1, <1>2, KeptInOrder DEF Crash
<1>. QED  BY <1>3, <1>4, <1>5 DEF SchedulerInvariant

LEMMA InvariantRestart ==
    ASSUME SchedulerInvariant, Restart
    PROVE  SchedulerInvariant'
<1>1. TypeOK'
  BY DEF SchedulerInvariant, TypeOK, Restart
<1>2. Listed'
  BY StaysListed DEF SchedulerInvariant, Restart
<1>3. ASSUME NEW t \in Schedules PROVE ScheduleOK(t)'
  BY KeptInOrder, FaultsNumber DEF SchedulerInvariant, Restart
<1>. QED  BY <1>1, <1>2, <1>3 DEF SchedulerInvariant

-----------------------------------------------------------------------------
LEMMA InvariantInit ==
    ASSUME Init
    PROVE  SchedulerInvariant
<1>1. /\ table \in [Schedules -> Row] /\ firing \in [Schedules -> FiringState]
      /\ \A s \in Schedules : firing[s].pc = "idle" /\ ~table[s].exists
                              /\ ~table[s].enabled /\ table[s].last = 0
  BY DEF Init, NoRow, Row, NoFiring, FiringState
<1>2. TypeOK
  BY <1>1, ScheduleAssumption DEF Init, TypeOK, NoSync, FiringState
<1>3. Listed
  BY <1>1 DEF Init, Listed, NoSync
<1>4. ASSUME NEW s \in Schedules PROVE ScheduleOK(s)
  <2>1. submitted[s] = 0 /\ recorded[s] = {} /\ surplus[s] = 0 /\ faults = 0 /\ Cardinality(recorded[s]) = 0
    BY FS_EmptySet DEF Init
  <2>. QED  BY <1>1, <2>1 DEF ScheduleOK, SurplusFits, NumbersFit, LossFits
<1>. QED  BY <1>2, <1>3, <1>4 DEF SchedulerInvariant

LEMMA InvariantNext ==
    ASSUME SchedulerInvariant, [Next]_vars
    PROVE  SchedulerInvariant'
<1>1. CASE Client
  BY <1>1, InvariantCreateSchedule, InvariantSetEnabled DEF Client
<1>2. CASE Synchronise
  BY <1>2, InvariantListSchedules, InvariantRemoveOthers, InvariantAddJob, InvariantUpdateRegistration,
     InvariantEndSync DEF Synchronise
<1>3. ASSUME NEW s \in Schedules, Fire(s) \/ Trigger(s) PROVE SchedulerInvariant'
  BY <1>3, InvariantFire, InvariantGetSchedule, InvariantSubmit, InvariantRecordTrigger,
     InvariantRecordError DEF Trigger
<1>4. CASE Failure
  BY <1>4, InvariantSyncAborts, InvariantCrash, InvariantRegistrationFails, InvariantFiringFails,
     InvariantFiringDies DEF Failure
<1>5. CASE Restart
  BY <1>5, InvariantRestart
<1>6. CASE UNCHANGED vars
  <2>1. TypeOK'
    BY <1>6 DEF SchedulerInvariant, TypeOK, vars
  <2>2. Listed'
    BY <1>6, StaysListed DEF SchedulerInvariant, vars
  <2>3. ASSUME NEW t \in Schedules PROVE ScheduleOK(t)'
    BY <1>6, KeptInOrder, FaultsNumber DEF SchedulerInvariant, vars
  <2>. QED  BY <2>1, <2>2, <2>3 DEF SchedulerInvariant
<1>. QED  BY <1>1, <1>2, <1>3, <1>4, <1>5, <1>6 DEF Next

\* Rows, synchronisations and firings refer to one another as described above,
\* whatever fails and whenever the process dies.  (scheduler.py,
\* ScheduledJobRepository)
THEOREM SchedulerKeepsInvariant == Spec => []SchedulerInvariant
BY InvariantInit, InvariantNext, PTL DEF Spec

\* Every variable keeps its type.
THEOREM SchedulerTypesAreKept == Spec => []TypeOK
<1>1. SchedulerInvariant => TypeOK
  BY DEF SchedulerInvariant
<1>. QED  BY <1>1, SchedulerKeepsInvariant, PTL

\* Whatever the order of clients, synchronisations and firings, a schedule that
\* was disabled submits at most the one run whose firing had already read the
\* row.  (enqueue_schedule)
THEOREM DisabledSchedulesStop == Spec => []OneRunAfterDisable
<1>1. SchedulerInvariant => OneRunAfterDisable
  BY DEF SchedulerInvariant, ScheduleOK, SurplusFits, OneRunAfterDisable
<1>. QED  BY <1>1, SchedulerKeepsInvariant, PTL

\* last_run_id never names an older run after a newer one, and there are at
\* most as many runs that it never named as there were failed transactions and
\* crashes, besides the one being recorded.  (record_trigger)
THEOREM LostRunsAreFaults == Spec => []UnrecordedRunsAreFaults
<1>1. SchedulerInvariant => UnrecordedRunsAreFaults
  BY DEF SchedulerInvariant, ScheduleOK, NumbersFit, LossFits, UnrecordedRunsAreFaults
<1>. QED  BY <1>1, SchedulerKeepsInvariant, PTL
=============================================================================
