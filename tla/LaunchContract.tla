--------------------------- MODULE LaunchContract ---------------------------
(***************************************************************************)
(* What the launch API of stdlib/process.mdk promises about one child per  *)
(* launch: a launch comes to one outcome, a process is handed over at most *)
(* once and never after a cancellation, and a launch that is not handed    *)
(* over leaves no child to wait for.                                       *)
(***************************************************************************)
CONSTANT Ticket

VARIABLES
  outcome,      \* what the program may know of each launch
  kid,          \* the child of each launch
  cancelled     \* launches the program has cancelled

vars == <<outcome, kid, cancelled>>

Init ==
  /\ outcome = [p \in Ticket |-> "none"]
  /\ kid = [p \in Ticket |-> "none"]
  /\ cancelled = {}

Ask(p) ==
  /\ outcome[p] = "none"
  /\ outcome' = [outcome EXCEPT ![p] = "pending"]
  /\ kid' \in {kid, [kid EXCEPT ![p] = "alive"]}
  /\ UNCHANGED cancelled

\* A child may be made although the launch has just been cancelled.
Make(p) ==
  /\ outcome[p] = "pending" /\ kid[p] = "none"
  /\ kid' = [kid EXCEPT ![p] = "alive"]
  /\ UNCHANGED <<outcome, cancelled>>

Cancel(p) ==
  /\ outcome[p] = "pending"
  /\ cancelled' = cancelled \cup {p}
  /\ UNCHANGED <<outcome, kid>>

\* A launch that is not handed over: its child, if there is one, has been
\* waited for, or its status was taken by someone else.
GiveUp(p) ==
  /\ outcome[p] = "pending"
  /\ cancelled' \in {cancelled, cancelled \cup {p}}
  /\ \/ /\ kid[p] # "stolen"
        /\ \/ outcome' = [outcome EXCEPT ![p] = "failed"]
           \/ p \in cancelled' /\ outcome' = [outcome EXCEPT ![p] = "aborted"]
        /\ kid' = [kid EXCEPT ![p] = IF kid[p] = "none" THEN "none" ELSE "reaped"]
     \/ /\ kid[p] = "stolen"
        /\ outcome' = [outcome EXCEPT ![p] = "lost"]
        /\ UNCHANGED kid

HandOver(p) ==
  /\ outcome[p] = "pending" /\ p \notin cancelled /\ kid[p] # "none"
  /\ outcome' = [outcome EXCEPT ![p] = "owned"]
  /\ UNCHANGED <<kid, cancelled>>

End(p) ==
  /\ kid[p] = "alive"
  /\ kid' = [kid EXCEPT ![p] = "dead"]
  /\ UNCHANGED <<outcome, cancelled>>

Steal(p) ==
  /\ kid[p] = "dead"
  /\ kid' = [kid EXCEPT ![p] = "stolen"]
  /\ UNCHANGED <<outcome, cancelled>>

\* The owner of a process learns its status.
Wait(p) ==
  /\ outcome[p] = "owned" /\ kid[p] = "dead"
  /\ kid' = [kid EXCEPT ![p] = "reaped"]
  /\ UNCHANGED <<outcome, cancelled>>

\* A process is given back only when it no longer needs a wait.
GiveBack(p) ==
  /\ outcome[p] = "owned" /\ kid[p] \in {"reaped", "stolen"}
  /\ outcome' = [outcome EXCEPT ![p] = "disposed"]
  /\ UNCHANGED <<kid, cancelled>>

Next == \E p \in Ticket : \/ Ask(p) \/ Make(p) \/ Cancel(p) \/ GiveUp(p)
                          \/ HandOver(p) \/ End(p) \/ Steal(p) \/ Wait(p)
                          \/ GiveBack(p)

Spec == Init /\ [][Next]_vars
=============================================================================
