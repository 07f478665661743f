---------------------------- MODULE JobSessionsMC ----------------------------
(***************************************************************************)
(* Instances of JobSessions for TLC.                                       *)
(***************************************************************************)
EXTENDS JobSessions, TLC

CONSTANT good

MCAcceptable == [i \in Interrupts |-> {good}]

Alike == Permutations(Workers) \cup Permutations(Requests)
             \cup Permutations(Clients)
=============================================================================
