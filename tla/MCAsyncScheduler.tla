-------------------------- MODULE MCAsyncScheduler --------------------------
(* Instances of AsyncScheduler for TLC. *)
EXTENDS AsyncScheduler, TLC

CONSTANTS t1, t2, t3, f1, g1

Workers == Permutations(Task \ {Root})
=============================================================================
