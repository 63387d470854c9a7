----------------------------- MODULE MCDataLock -----------------------------
(* DataLock over a few interchangeable runs of the server. *)
EXTENDS DataLock, TLC

CONSTANTS s1, s2, s3

Interchangeable == Permutations(Proc \ Forced)
=============================================================================
