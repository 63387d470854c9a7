--------------------------- MODULE MCCommandBatch ---------------------------
(* CommandBatch over a few rows and pids for TLC. *)
EXTENDS CommandBatch, TLC

CONSTANTS q1, q2, q3

Endings == {[how |-> "exit", value |-> 0], [how |-> "signal", value |-> 9]}
=============================================================================
