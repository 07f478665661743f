----------------------------- MODULE JobQueueMC -----------------------------
(***************************************************************************)
(* Instances of JobQueue for TLC.                                          *)
(***************************************************************************)
EXTENDS JobQueueRefinement, TLC

CONSTANT good

\* Every interrupt rejects one of the values a client may send.
MCAcceptable == [i \in Interrupts |-> {good}]

JobsAndWorkers == Permutations(Jobs) \cup Permutations(Workers)
=============================================================================
