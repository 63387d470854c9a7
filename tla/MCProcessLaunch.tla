-------------------------- MODULE MCProcessLaunch --------------------------
(* Instances of ProcessLaunch for TLC. *)
EXTENDS ProcessLaunch, TLC

CONSTANTS p1, p2, p3, c1, c2

Interchangeable == Permutations(Ticket) \cup Permutations(Caller)
=============================================================================
