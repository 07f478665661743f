------------------------- MODULE JobQueueRefinement -------------------------
(***************************************************************************)
(* The queue implements the lifecycle a client is promised.                *)
(***************************************************************************)
EXTENDS JobQueue

PhaseOf(row) ==
    CASE row.status = "none"          -> "absent"
      [] row.status \in Queued        -> "ready"
      [] row.status \in Owned         -> "executing"
      [] row.status = "waiting_human" -> "asking"
      [] row.status \in Terminal      -> "done"

LifePhase    == [j \in Jobs |-> PhaseOf(jobs[j])]
LifeLeft     == [j \in Jobs |-> jobs[j].max - failures[j]]
LifeAnswered == [j \in Jobs |-> ResumePending(jobs[j])]

Lifecycle == INSTANCE JobLifecycle WITH
    phase <- LifePhase, left <- LifeLeft, answered <- LifeAnswered

\* Every transaction of the queue is a step of the lifecycle or invisible to
\* it: leases, heartbeats, delays and repeated requests included.
ImplementsLifecycle == Lifecycle!Spec
=============================================================================
