---------------------------- MODULE MCCommitLog ----------------------------
(***************************************************************************)
(* CommitLog for TLC; the instances are in the Commit*.cfg files.          *)
(***************************************************************************)
EXTENDS CommitLog

=============================================================================
