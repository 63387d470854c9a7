---------------------------- MODULE CommandBatch ----------------------------
(***************************************************************************)
(* runCommand and runCommandBatch of the native runtime                    *)
(* (runtime/medaka_rt.c): one command per row, at most Jobs children at a  *)
(* time, each child's output captured to temporary files, children reaped  *)
(* by pid with WNOHANG while they and a child of somebody else end.        *)
(*                                                                         *)
(* A row is its index, counted from 1; what a command prints is left out,  *)
(* its files are not.  A process is an entry of the kernel's table, whose  *)
(* pids are given out again once reaped.                                   *)
(***************************************************************************)
EXTENDS Integers, FiniteSets

CONSTANTS
  MaxRows,    \* argv lists of a call, at most
  Jobs,       \* the jobs argument; below 1 it counts as 1
  Pid,        \* process numbers
  Ending,     \* ways a child may end: [how |-> "exit" or "signal", value |-> n]
  Inherited,  \* the disposition of SIGCHLD the program was started with
  Faults      \* which of "mkstemp", "fork", "stolen" may happen

NoPid == "0"
Junk == "uninitialised"

ASSUME BatchAssumption ==
  /\ MaxRows \in Nat \ {0}
  /\ Jobs \in Int
  /\ NoPid \notin Pid /\ Junk \notin Pid
  /\ IsFiniteSet(Pid)
  /\ Inherited \in {"default", "ignored"}
  /\ \A e \in Ending : e.how \in {"exit", "signal"} /\ e.value \in Nat

VARIABLES
  call,      \* "command" (runCommand) or "batch" (runCommandBatch)
  n,         \* rows of this call
  pc,        \* where mdk_run_command or mdk_run_command_batch is
  next,      \* the row to start next
  running,   \* children counted as running
  kids,      \* kids[k].pid: the child of row k, NoPid, or Junk from malloc
  k,         \* the row the sweep looks at
  settled,   \* rows this sweep has finished
  res,       \* the results so far
  temp,      \* rows whose temporary files exist
  sigchld,   \* the disposition of SIGCHLD
  proc,      \* the kernel's table of this process's children
  ended,     \* how each row's child ended, once it has
  stolen     \* somebody else has reaped a child of this call

vars == <<call, n, pc, next, running, kids, k, settled, res, temp, sigchld, proc,
          ended, stolen>>
kernel == <<proc, ended, stolen>>

Row == 1..MaxRows
Foreign == 0
NotEnded == [how |-> "unended", value |-> 0]
Free == [who |-> Foreign, state |-> "free", as |-> NotEnded]
Limit == IF Jobs < 1 THEN 1 ELSE Jobs

\* WEXITSTATUS, or 128 and the signal as a shell has it.
ExitCode(e) == IF e.how = "exit" THEN e.value ELSE 128 + e.value

Unset == [kind |-> "unset", code |-> 0]
StartError == [kind |-> "unstarted", code |-> 0]
WaitError == [kind |-> "waitFailed", code |-> 0]
Exited(e) == [kind |-> "exited", code |-> ExitCode(e)]

Processes == [who : Row \cup {Foreign}, state : {"free", "running", "zombie"},
              as : Ending \cup {NotEnded}]
Results == {Unset, StartError, WaitError} \cup {Exited(e) : e \in Ending}

Init ==
  /\ call \in {"command", "batch"}
  /\ n \in (IF call = "command" THEN {1} ELSE 0..MaxRows)
  /\ pc = "enter"
  /\ next = 1 /\ running = 0 /\ k = 1 /\ settled = 0
  /\ kids = [r \in Row |-> Junk]
  /\ res = [r \in Row |-> Unset]
  /\ temp = {}
  /\ sigchld = Inherited
  \* The program may have a child of its own when it makes the call.
  /\ \E f \in {{}} \cup {{p} : p \in Pid} :
       proc = [p \in Pid |-> IF p \in f THEN [Free EXCEPT !.state = "running"] ELSE Free]
  /\ ended = [r \in Row |-> NotEnded]
  /\ stolen = FALSE

-----------------------------------------------------------------------------
(* mdk_cmd_start: temporary files, fork, exec.  An exec that fails is a     *)
(* child that exits 127.                                                    *)

Forks(r) ==
  \E p \in Pid :
    /\ proc[p].state = "free"
    /\ proc' = [proc EXCEPT ![p] = [who |-> r, state |-> "running", as |-> NotEnded]]
    /\ kids' = [kids EXCEPT ![r] = p]
    /\ temp' = temp \cup {r}
    /\ UNCHANGED <<ended, stolen>>

\* No temporary file, or no process for another reason than EAGAIN.
StartFails == "mkstemp" \in Faults \/ "fork" \in Faults
\* fork has no process to give for now: the limit is reached, or memory is short.
Again == "fork" \in Faults \/ \A p \in Pid : proc[p].state # "free"

(* mdk_cmd_finish and mdk_cmd_wait_failed: the captured files are removed   *)
(* either way.                                                              *)
Result(p) == IF p \in Pid /\ proc[p].state = "zombie" THEN Exited(proc[p].as) ELSE WaitError

Settle(r) ==
  /\ res' = [res EXCEPT ![r] = Result(kids[r])]
  /\ temp' = temp \ {r}

\* waitpid: a zombie is taken out of the table, for a pid of no child it fails (ECHILD).
Reap(p) == proc' = IF p \in Pid THEN [proc EXCEPT ![p] = Free] ELSE proc
StillRuns(p) == p \in Pid /\ proc[p].state = "running"

-----------------------------------------------------------------------------
(* mdk_run_command and mdk_run_command_batch.                               *)

\* No rows: the empty list, before anything is touched.
Enter ==
  /\ pc = "enter"
  /\ IF n = 0
     THEN pc' = "returned" /\ UNCHANGED sigchld
     ELSE pc' = "fill" /\ sigchld' = "default"
  /\ UNCHANGED <<call, n, next, running, kids, k, settled, res, temp>>
  /\ UNCHANGED kernel

MayStart == pc = "fill" /\ running < Limit /\ next <= n

StartRow ==
  /\ MayStart
  /\ Forks(next)
  /\ running' = running + 1 /\ next' = next + 1
  /\ pc' = IF call = "command" THEN "wait" ELSE pc
  /\ UNCHANGED <<call, n, k, settled, res, sigchld>>

\* Mutant: the pid of a row that was not started stays as malloc left it.
NotStartedJunk ==
  /\ MayStart
  /\ StartFails \/ (Again /\ running = 0)
  /\ res' = [res EXCEPT ![next] = StartError]
  /\ next' = next + 1
  /\ pc' = IF call = "command" THEN "leave" ELSE pc
  /\ UNCHANGED <<call, n, running, kids, k, settled, temp, sigchld>>
  /\ UNCHANGED kernel

NotStarted ==
  /\ MayStart
  /\ StartFails \/ (Again /\ running = 0)
  /\ kids' = [kids EXCEPT ![next] = NoPid]
  /\ res' = [res EXCEPT ![next] = StartError]
  /\ next' = next + 1
  /\ pc' = IF call = "command" THEN "leave" ELSE pc
  /\ UNCHANGED <<call, n, running, k, settled, temp, sigchld>>
  /\ UNCHANGED kernel

BeginSweep == pc' = "sweep" /\ k' = 1 /\ settled' = 0

\* Mutant: a refused fork is waited out even with no child to wait for.
StartLaterAlways ==
  /\ MayStart
  /\ call = "batch" /\ Again
  /\ BeginSweep
  /\ UNCHANGED <<call, n, next, running, kids, res, temp, sigchld>>
  /\ UNCHANGED kernel

\* EAGAIN beside children of this batch: the row is tried again after the next sweep.
StartLater ==
  /\ MayStart
  /\ call = "batch" /\ Again /\ running > 0
  /\ BeginSweep
  /\ UNCHANGED <<call, n, next, running, kids, res, temp, sigchld>>
  /\ UNCHANGED kernel

\* As many as may run, or no row left.
Filled ==
  /\ pc = "fill" /\ ~ (running < Limit /\ next <= n)
  /\ IF running = 0 THEN pc' = "leave" /\ UNCHANGED <<k, settled>> ELSE BeginSweep
  /\ UNCHANGED <<call, n, next, running, kids, res, temp, sigchld>>
  /\ UNCHANGED kernel

SweepPasses ==
  /\ pc = "sweep" /\ k < next
  /\ kids[k] = NoPid \/ StillRuns(kids[k])
  /\ k' = k + 1
  /\ UNCHANGED <<call, n, pc, next, running, kids, settled, res, temp, sigchld>>
  /\ UNCHANGED kernel

SweepSettles ==
  /\ pc = "sweep" /\ k < next
  /\ kids[k] # NoPid /\ ~ StillRuns(kids[k])
  /\ Settle(k) /\ Reap(kids[k])
  /\ kids' = [kids EXCEPT ![k] = NoPid]
  /\ running' = running - 1 /\ settled' = settled + 1 /\ k' = k + 1
  /\ UNCHANGED <<call, n, pc, next, sigchld, ended, stolen>>

\* Nothing settled: nap and sweep again.
SweepEnds ==
  /\ pc = "sweep" /\ k = next
  /\ IF settled = 0 THEN BeginSweep ELSE pc' = "fill" /\ UNCHANGED <<k, settled>>
  /\ UNCHANGED <<call, n, next, running, kids, res, temp, sigchld>>
  /\ UNCHANGED kernel

\* runCommand waits for its one child and forgets it.
Wait ==
  /\ pc = "wait" /\ ~ StillRuns(kids[1])
  /\ Settle(1) /\ Reap(kids[1])
  /\ kids' = [kids EXCEPT ![1] = NoPid]
  /\ running' = running - 1
  /\ pc' = "leave"
  /\ UNCHANGED <<call, n, next, k, settled, sigchld, ended, stolen>>

Leave ==
  /\ pc = "leave"
  /\ sigchld' = Inherited
  /\ pc' = "returned"
  /\ UNCHANGED <<call, n, next, running, kids, k, settled, res, temp>>
  /\ UNCHANGED kernel

Caller == Enter \/ StartRow \/ NotStarted \/ StartLater \/ Filled \/ SweepPasses
            \/ SweepSettles \/ SweepEnds \/ Wait \/ Leave

-----------------------------------------------------------------------------
(* The kernel: a child ends; under SIG_IGN it leaves no zombie.             *)

Ends(p) ==
  \E e \in Ending :
    /\ proc[p].state = "running"
    /\ proc' = [proc EXCEPT ![p] = IF sigchld = "ignored" THEN Free
                                   ELSE [@ EXCEPT !.state = "zombie", !.as = e]]
    /\ ended' = [r \in Row |-> IF r = proc[p].who THEN e ELSE ended[r]]
    /\ UNCHANGED <<call, n, pc, next, running, kids, k, settled, res, temp, sigchld, stolen>>

\* The program takes the status of its other child.
OwnerReaps(p) ==
  /\ proc[p].state = "zombie" /\ proc[p].who = Foreign
  /\ proc' = [proc EXCEPT ![p] = Free]
  /\ UNCHANGED <<call, n, pc, next, running, kids, k, settled, res, temp, sigchld, ended, stolen>>

\* Some other part of the program waits for any child and takes one of this call's.
Stolen(p) ==
  /\ "stolen" \in Faults /\ ~ stolen
  /\ proc[p].state = "zombie" /\ proc[p].who # Foreign
  /\ proc' = [proc EXCEPT ![p] = Free]
  /\ stolen' = TRUE
  /\ UNCHANGED <<call, n, pc, next, running, kids, k, settled, res, temp, sigchld, ended>>

Terminated == pc = "returned" /\ UNCHANGED vars

Next == Caller \/ (\E p \in Pid : Ends(p) \/ OwnerReaps(p) \/ Stolen(p)) \/ Terminated

Spec == Init /\ [][Next]_vars

\* The calling thread runs and every child ends sooner or later.
FairSpec == Spec /\ WF_vars(Caller) /\ \A p \in Pid : WF_vars(Ends(p))

-----------------------------------------------------------------------------
OfThisCall(p) == proc[p].who # Foreign

TypeOK ==
  /\ call \in {"command", "batch"} /\ n \in 0..MaxRows
  /\ pc \in {"enter", "fill", "wait", "sweep", "leave", "returned"}
  /\ next \in 1..(MaxRows + 1) /\ k \in 1..(MaxRows + 1)
  /\ running \in Nat /\ settled \in Nat
  /\ kids \in [Row -> Pid \cup {NoPid, Junk}]
  /\ res \in [Row -> Results]
  /\ temp \subseteq Row
  /\ sigchld \in {"default", "ignored"}
  /\ proc \in [Pid -> Processes]
  /\ ended \in [Row -> Ending \cup {NotEnded}]
  /\ stolen \in BOOLEAN

(* No more than jobs children are alive or unreaped at a time, whatever     *)
(* starts fail and are tried again: the count the loop keeps is the number  *)
(* of children in the table, so a slip would overrun the limit or leave the *)
(* sweep waiting for children it does not have (medaka_rt.c, "at most jobs  *)
(* children at a time").                                                    *)
JobsAreLimited ==
  /\ Cardinality({p \in Pid : OfThisCall(p)}) <= Limit
  /\ ~ stolen => running = Cardinality({p \in Pid : OfThisCall(p)})

(* Row k's result is row k's outcome: the status its own child ended with,  *)
(* although pids are given out again, children end in any order and rows    *)
(* that could not be started lie between those that were ("each row's       *)
(* runCommand result in input order").  Once another part of the program    *)
(* has taken a status the pid may be a later row's, and this is not claimed.*)
ResultsAreOwn ==
  ~ stolen =>
    \A r \in Row :
      /\ res[r].kind = "exited" => ended[r] \in Ending /\ res[r] = Exited(ended[r])
      /\ res[r].kind # "waitFailed"
      /\ pc = "returned" /\ r <= n => res[r] # Unset

(* "This returns only after every child it started has been reaped": no     *)
(* zombie and no running child is left, no captured file, and SIGCHLD is    *)
(* as it was; whatever failed to start and whoever else reaped.             *)
NothingLeftBehind ==
  pc = "returned" =>
    /\ \A p \in Pid : ~ OfThisCall(p)
    /\ temp = {}
    /\ sigchld = Inherited

(* A child this call did not start keeps its status for whoever waits on    *)
(* it: no step of the call takes it from the table.                         *)
ForeignStatusKept ==
  [][ \A p \in Pid : proc[p].who = Foreign /\ proc[p].state = "zombie" /\ Caller
        => proc'[p] = proc[p] ]_vars

(* The call returns: fork refusing for a while, rows that cannot be started *)
(* and stolen statuses do not keep the sweep waiting for ever, provided the *)
(* children end.                                                            *)
CallReturns == <>(pc = "returned")
=============================================================================
