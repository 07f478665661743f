------------------------- MODULE BackgroundWorkerMC -------------------------
(***************************************************************************)
(* Instances of BackgroundWorker for TLC.                                  *)
(***************************************************************************)
EXTENDS BackgroundWorker, TLC

CONSTANTS good, i1

\* The first interrupt accepts a value that the others reject.
MCAcceptable == [i \in Interrupts |-> IF i = i1 THEN Values ELSE {good}]

Alike == Permutations(Workers) \cup Permutations(Requests)
=============================================================================
