---------------------------- MODULE MCAdmission ----------------------------
(* Admission for TLC: the connections are interchangeable. *)
EXTENDS Admission, TLC

Symmetry == Permutations(Conn)
=============================================================================
