----------------------------- MODULE RepoLedger -----------------------------
(***************************************************************************)
(* What the data directory promises: one history of commits, in which a    *)
(* commit becomes the head and is announced by the log in one step.  Only  *)
(* the first commit may stand for a while before the log opens with it.    *)
(* A commit nobody was told of yet may be lost again with its event, never *)
(* one without the other, and never an acknowledged one.                   *)
(***************************************************************************)
EXTENDS Naturals, Sequences

CONSTANT Commit
VARIABLES
  head,   \* the commit the repository stands at, 0 before the first
  log,    \* the commits announced, in order
  acked   \* the commits whose client was told they were written

vars == <<head, log, acked>>

Init == head = 0 /\ log = <<>> /\ acked = {}

Found(c) == head = 0 /\ head' = c /\ UNCHANGED <<log, acked>>

Open ==
  /\ head # 0 /\ head' = head /\ acked' = acked
  /\ log = <<>> /\ log' = <<head>>

Land(c) ==
  /\ head # 0 /\ head # c /\ head' = c /\ acked' = acked
  /\ log # <<>> /\ log' = Append(log, c)
  /\ \A i \in DOMAIN log : log[i] # c

Acknowledge ==
  /\ head # 0 /\ acked # acked' /\ acked' = acked \cup {head}
  /\ log # <<>> /\ UNCHANGED <<head, log>>

Forget ==
  /\ head \notin acked \cup {0} /\ acked' = acked
  /\ \/ Len(log) = 0 /\ head' = 0 /\ log' = <<>>
     \/ Len(log) = 1 /\ head' = head /\ log' = <<>>
     \/ Len(log) > 1 /\ head' = log[Len(log) - 1]
                     /\ log' = SubSeq(log, 1, Len(log) - 1)

Next == Open \/ Acknowledge \/ Forget \/ \E c \in Commit : Found(c) \/ Land(c)

Spec == Init /\ [][Next]_vars
=============================================================================
