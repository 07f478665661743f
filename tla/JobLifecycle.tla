---------------------------- MODULE JobLifecycle ----------------------------
(***************************************************************************)
(* What the background queue promises a client of POST /runs: a submitted  *)
(* job is executed, may stop to ask a human and continues with the answer, *)
(* survives lost executions while its retry budget lasts, and ends once.   *)
(* Workers, leases, retry delays and request ids do not appear here.       *)
(***************************************************************************)
EXTENDS Integers

CONSTANTS Jobs, AttemptLimits

VARIABLES
    phase,     \* where the job is, as far as a client can tell
    left,      \* how many failures the job may still suffer
    answered   \* whether an accepted answer waits to be consumed

lifeVars == <<phase, left, answered>>

Phases == {"absent", "ready", "executing", "asking", "done"}

Submit(j, limit) ==
    /\ phase[j] = "absent"
    /\ phase' = [phase EXCEPT ![j] = "ready"]
    /\ left' = [left EXCEPT ![j] = limit]
    /\ UNCHANGED answered

Start(j) ==
    /\ phase[j] = "ready"
    /\ phase' = [phase EXCEPT ![j] = "executing"]
    /\ UNCHANGED <<left, answered>>

\* The execution stops at a question or at its end.  Either way the answer it
\* was given, if any, is used up.
Stop(j, next) ==
    /\ phase[j] = "executing"
    /\ phase' = [phase EXCEPT ![j] = next]
    /\ answered' = [answered EXCEPT ![j] = FALSE]
    /\ UNCHANGED left

AnswerQuestion(j) ==
    /\ phase[j] = "asking"
    /\ phase' = [phase EXCEPT ![j] = "ready"]
    /\ answered' = [answered EXCEPT ![j] = TRUE]
    /\ UNCHANGED left

\* A failed execution is tried again while more than one failure is left.  An
\* execution that carries an answer is charged as the next attempt before it
\* is compared with the limit, so it needs one more.
Retried(j) == left[j] > (IF answered[j] THEN 2 ELSE 1)

\* The executions of the jobs in S are lost together: one worker reports a
\* failure, or one sweep finds several expired leases.  A job that is tried
\* again keeps the answer it was given.
Lose(S) ==
    /\ S # {}
    /\ \A j \in S : phase[j] = "executing"
    /\ phase' = [j \in Jobs |-> IF j \notin S THEN phase[j]
                                ELSE IF Retried(j) THEN "ready" ELSE "done"]
    /\ left' = [j \in Jobs |-> IF j \in S THEN left[j] - 1 ELSE left[j]]
    /\ answered' = [j \in Jobs |-> answered[j] /\ (j \in S => Retried(j))]

Init ==
    /\ phase = [j \in Jobs |-> "absent"]
    /\ left = [j \in Jobs |-> 0]
    /\ answered = [j \in Jobs |-> FALSE]

Next ==
    \/ \E j \in Jobs :
        \/ \E limit \in AttemptLimits : Submit(j, limit)
        \/ Start(j)
        \/ Stop(j, "asking")
        \/ Stop(j, "done")
        \/ AnswerQuestion(j)
    \/ \E S \in SUBSET Jobs : Lose(S)

Spec == Init /\ [][Next]_lifeVars
=============================================================================
