---------------------------- MODULE MCScheduler ----------------------------
(* Two workers and two items, one with a single attempt.                   *)
EXTENDS Scheduler, TLC

CONSTANTS a, b, w1, w2

MCPriority == (a :> 1) @@ (b :> 1)
MCRank == (a :> 1) @@ (b :> 2)
MCMaxAttempts == (a :> 2) @@ (b :> 1)
Symmetry == Permutations({w1, w2})
=============================================================================
