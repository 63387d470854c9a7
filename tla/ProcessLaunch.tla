--------------------------- MODULE ProcessLaunch ---------------------------
(***************************************************************************)
(* Launching and owning a child process (runtime/medaka_process.c on       *)
(* Linux).  submit queues a launch for the one worker thread; start begins *)
(* one itself and waits for it; checkStart, retryStart and abortStart      *)
(* drive a ticket to its outcome; pollExit, closeStdin and dispose act on  *)
(* the process it transfers.  Each entry point is one critical section of  *)
(* process_lock, except that begin keeps the lock and that a waiting start *)
(* gives it up; the worker takes no lock and meets the others at the       *)
(* phase and the stop flag of a submission.  An entry point that finds the *)
(* lock taken answers ProcessBusy and changes nothing.                     *)
(***************************************************************************)
EXTENDS Integers, FiniteSets

CONSTANTS
  Ticket,       \* every launch the program may ask for
  NoTicket,     \* no owner
  Caller,       \* threads that call into the runtime
  NumSlots,     \* submission slots (8 in the code)
  MaxGen,       \* generations of a slot (UINT64_MAX in the code)
  Piped,        \* the streams of a launch that are pipes
  Stdin,        \* the stream closeStdin closes
  Faults        \* whether system calls may fail or be cut short

ASSUME NoTicketIsNone == NoTicket \notin Ticket
ASSUME SlotsExist == NumSlots \in Nat \ {0}
ASSUME GenerationsExist == MaxGen \in Nat
ASSUME FaultsIsBoolean == Faults \in BOOLEAN

Slot == 1..NumSlots

VARIABLES
  tickets,      \* MdkProcess of each launch
  rooted,       \* process_roots
  known,        \* tickets and processes the program has been handed
  slots,        \* the submissions and submission_owners
  jobs,         \* the semaphore submission_jobs
  worker,       \* the submission worker
  child,        \* the kernel's child of each launch
  pipe,         \* what the error pipe of each launch shows its reader
  killed,       \* children the runtime has sent SIGKILL
  cancels,      \* history: launches an abort was accepted for
  callers       \* what each calling thread is doing

vars == <<tickets, rooted, known, slots, jobs, worker, child, pipe, killed,
          cancels, callers>>

-----------------------------------------------------------------------------
(* Tickets and submissions *)

Fresh == [state |-> "none", step |-> "PENDING", pidfd |-> FALSE, errfd |-> FALSE,
          streams |-> {}, signalled |-> FALSE, stop |-> FALSE, slot |-> 0, gen |-> 0]

FreshSlot == [phase |-> "FREE", stop |-> FALSE, generation |-> 0,
              owner |-> NoTicket, result |-> "none", carries |-> FALSE]

Alive == {"setup", "exiting", "running"}

\* adopt_native: the descriptors of the child move to the ticket.
Adopt(t) == [t EXCEPT !.state = "LAUNCHING", !.pidfd = TRUE, !.errfd = TRUE,
                      !.streams = Piped]
Failing(t) == [t EXCEPT !.state = "FAILING", !.errfd = FALSE, !.streams = {}]
Aborting(t) == [t EXCEPT !.state = "ABORTING", !.errfd = FALSE, !.streams = {}]

\* Mutant: a stop that came while the child was being made is forgotten.
AdoptedAnyway(t) == Adopt(t)

\* adopt_submission of a created child: a stop asked for meanwhile takes over.
Adopted(t) == IF t.stop THEN Aborting(Adopt(t)) ELSE Adopt(t)

\* Mutant: cleanup closes everything but the submission.
SettledWithPermit(t, state, step) ==
  [t EXCEPT !.state = state, !.step = step, !.pidfd = FALSE, !.errfd = FALSE,
            !.streams = {}]

\* What a ticket is after its cleanup: no descriptor, no submission.
Settled(t, state, step) ==
  [t EXCEPT !.state = state, !.step = step, !.pidfd = FALSE, !.errfd = FALSE,
            !.streams = {}, !.slot = 0]

\* release_submission.  Its abort() calls are PermitChecksHold.
Released(ss, t) ==
  IF t.slot = 0 THEN ss
  ELSE [ss EXCEPT ![t.slot].phase = "FREE", ![t.slot].owner = NoTicket]

IsDone(p) == slots[tickets[p].slot].phase = "DONE"
IsCreated(p) == slots[tickets[p].slot].result = "created"

\* The ticket and the submissions once adopt_submission has answered 1.
Current(p) == IF tickets[p].state = "SUBMITTED" THEN Adopted(tickets[p]) ELSE tickets[p]
CurrentSlots(p) ==
  IF tickets[p].state = "SUBMITTED" THEN [slots EXCEPT ![tickets[p].slot].carries = FALSE]
  ELSE slots

InCleanup == {"FAILING", "ABORTING"}

Init ==
  /\ tickets = [p \in Ticket |-> Fresh]
  /\ rooted = {} /\ known = {}
  /\ slots = [s \in Slot |-> FreshSlot]
  /\ jobs = 0
  /\ worker = [pc |-> "waiting", job |-> 1, next |-> 1]
  /\ child = [p \in Ticket |-> "none"]
  /\ pipe = [p \in Ticket |-> "open"]
  /\ killed = {} /\ cancels = {}
  /\ callers = [c \in Caller |-> [pc |-> "idle", ticket |-> NoTicket]]

-----------------------------------------------------------------------------
(* Driving a launch to its outcome: process_check_start, answering r *)

\* Mutant: the child is taken for gone before it was waited for.
CleanupUnreaped(p, t, ss, r) ==
  /\ r = IF t.state = "ABORTING" THEN "ABORTED" ELSE "FAILED"
  /\ tickets' = [tickets EXCEPT ![p] = Settled(t, "REAPED", r)]
  /\ slots' = Released(ss, t)
  /\ rooted' = rooted \ {p}
  /\ killed' = killed \cup {p}
  /\ UNCHANGED <<child, pipe>>

\* One signal until one has gone through, then one wait.
Cleanup(p, t, ss, r) ==
  \E sent \in BOOLEAN :
    /\ t.signalled => sent
    /\ ~sent => Faults
    /\ killed' = IF sent THEN killed \cup {p} ELSE killed
    /\ \/ \* no exit yet, an interrupted wait, or a wait that fails otherwise
          /\ child[p] \in Alive \/ Faults
          /\ tickets' = [tickets EXCEPT ![p] = [t EXCEPT !.signalled = sent]]
          /\ slots' = ss
          /\ r \in (IF sent THEN {"PENDING"} ELSE {"ERROR"})
                     \cup (IF Faults THEN {"ERROR"} ELSE {})
          /\ UNCHANGED <<child, pipe, rooted>>
       \/ \* reaped: a child that was sent SIGKILL may be gone by now
          /\ child[p] = "zombie" \/ (child[p] \in Alive /\ p \in killed')
          /\ r = IF t.state = "ABORTING" THEN "ABORTED" ELSE "FAILED"
          /\ tickets' = [tickets EXCEPT ![p] = Settled([t EXCEPT !.signalled = sent], "REAPED", r)]
          /\ slots' = Released(ss, t)
          /\ rooted' = rooted \ {p}
          /\ child' = [child EXCEPT ![p] = "reaped"]
          /\ pipe' = [pipe EXCEPT ![p] = IF pipe[p] = "open" THEN "eof" ELSE pipe[p]]
       \/ \* ECHILD
          /\ child[p] = "stolen"
          /\ r = "LOST_WAIT"
          /\ tickets' = [tickets EXCEPT ![p] = Settled([t EXCEPT !.signalled = sent], "LOST", r)]
          /\ slots' = Released(ss, t)
          /\ rooted' = rooted \ {p}
          /\ UNCHANGED <<child, pipe>>

\* Nothing to adopt yet.
CheckQueued(p, r) ==
  /\ tickets[p].state = "SUBMITTED" /\ ~IsDone(p)
  /\ r = "PENDING"
  /\ UNCHANGED <<tickets, slots, rooted, child, pipe, killed>>

\* The worker made no child: it was stopped in time, or could not.
NotCreated(p, t, ss, r) ==
  /\ t.state = "SUBMITTED" /\ IsDone(p) /\ ~IsCreated(p)
  /\ r = IF ss[t.slot].result = "cancelled" THEN "ABORTED" ELSE "FAILED"
  /\ tickets' = [tickets EXCEPT ![p] = Settled(t, "REAPED", r)]
  /\ slots' = Released(ss, t)
  /\ rooted' = rooted \ {p}
  /\ UNCHANGED <<child, pipe, killed>>

CheckNotCreated(p, r) == NotCreated(p, tickets[p], slots, r)

\* The outcome is cached.
CheckDecided(p, r) ==
  /\ tickets[p].step # "PENDING"
  /\ r = IF tickets[p].state = "DISPOSED" THEN "ERROR" ELSE tickets[p].step
  /\ UNCHANGED <<tickets, slots, rooted, child, pipe, killed>>

\* There is a child, by now or since long.
HasChild(p) == /\ tickets[p].step = "PENDING" /\ tickets[p].state # "none"
               /\ tickets[p].state = "SUBMITTED" => IsDone(p) /\ IsCreated(p)

\* The worker and a start may clone at the same time, and a child then holds
\* the other's pipe until its exec: only without such a child is an EOF seen.
EofIsSure(p) == pipe[p] = "eof" /\ \A q \in Ticket \ {p} : child[q] # "setup"

\* EAGAIN or EINTR on the error pipe.
CheckHandshakePends(p, r) ==
  /\ HasChild(p) /\ Current(p).state = "LAUNCHING"
  /\ ~(EofIsSure(p) \/ pipe[p] = "record") \/ Faults
  /\ r = "PENDING"
  /\ tickets' = [tickets EXCEPT ![p] = Current(p)]
  /\ slots' = CurrentSlots(p)
  /\ UNCHANGED <<rooted, child, pipe, killed>>

\* EOF without a record: the process is the caller's.
CheckTransfers(p, r) ==
  /\ HasChild(p) /\ Current(p).state = "LAUNCHING" /\ pipe[p] = "eof"
  /\ r = "OWNED"
  /\ tickets' = [tickets EXCEPT ![p] = [Current(p) EXCEPT !.state = "RUNNING",
                   !.step = "OWNED", !.errfd = FALSE, !.slot = 0]]
  /\ slots' = Released(CurrentSlots(p), Current(p))
  /\ UNCHANGED <<rooted, child, pipe, killed>>

\* A record, or a pipe that cannot be read: cleanup begins in the same call.
\* The record is shorter than PIPE_BUF, so a read never sees a part of it.
CheckSetupFailed(p, r) ==
  /\ HasChild(p) /\ Current(p).state = "LAUNCHING"
  /\ pipe[p] = "record" \/ Faults
  /\ Cleanup(p, Failing(Current(p)), CurrentSlots(p), r)

\* Mutant: a check drives failing launches only.
CheckCleansUpFailing(p, r) ==
  /\ HasChild(p) /\ Current(p).state = "FAILING"
  /\ Cleanup(p, Current(p), CurrentSlots(p), r)

CheckCleansUp(p, r) ==
  /\ HasChild(p) /\ Current(p).state \in InCleanup
  /\ Cleanup(p, Current(p), CurrentSlots(p), r)

Check(p, r) ==
  \/ CheckQueued(p, r) \/ CheckNotCreated(p, r) \/ CheckDecided(p, r)
  \/ CheckHandshakePends(p, r) \/ CheckTransfers(p, r)
  \/ CheckSetupFailed(p, r) \/ CheckCleansUp(p, r)

Results == {"PENDING", "OWNED", "FAILED", "ABORTED", "LOST_WAIT", "ERROR"}

LockIsFree == \A c \in Caller : callers[c].pc # "begun"
IsIdle(c) == callers[c].pc = "idle"

-----------------------------------------------------------------------------
(* Entry points *)

FreeSlot == {s \in Slot : slots[s].phase = "FREE" /\ slots[s].generation < MaxGen}
FirstFree == CHOOSE s \in FreeSlot : \A u \in FreeSlot : s <= u

\* mdk_process_submit up to the unlock.  Without a free submission the answer
\* is SubmissionQueueFull and nothing happens.
Submit(c, p) ==
  /\ LockIsFree /\ IsIdle(c) /\ tickets[p].state = "none" /\ FreeSlot # {}
  /\ LET s == FirstFree
         g == slots[s].generation + 1
     IN  /\ slots' = [slots EXCEPT ![s] = [phase |-> "QUEUED", stop |-> FALSE,
              generation |-> g, owner |-> p, result |-> "none", carries |-> FALSE]]
         /\ tickets' = [tickets EXCEPT ![p] =
              [Fresh EXCEPT !.state = "SUBMITTED", !.slot = s, !.gen = g]]
  /\ rooted' = rooted \cup {p}
  /\ callers' = [callers EXCEPT ![c] = [pc |-> "posting", ticket |-> p]]
  /\ UNCHANGED <<known, jobs, worker, child, pipe, killed, cancels>>

\* sem_post, after the unlock; the ticket is returned.
PostJob(c) ==
  /\ callers[c].pc = "posting"
  /\ jobs' = jobs + 1
  /\ known' = known \cup {callers[c].ticket}
  /\ callers' = [callers EXCEPT ![c] = [pc |-> "idle", ticket |-> NoTicket]]
  /\ UNCHANGED <<tickets, rooted, slots, worker, child, pipe, killed, cancels>>

\* process_begin: the child is made under the lock, which the caller keeps.
\* When no child can be made start is rejected and there is no ticket.
Begin(c, p) ==
  /\ LockIsFree /\ IsIdle(c) /\ tickets[p].state = "none"
  /\ tickets' = [tickets EXCEPT ![p] = Adopt(Fresh)]
  /\ rooted' = rooted \cup {p}
  /\ child' = [child EXCEPT ![p] = "setup"]
  /\ callers' = [callers EXCEPT ![c] = [pc |-> "begun", ticket |-> p]]
  /\ UNCHANGED <<known, slots, jobs, worker, pipe, killed, cancels>>

\* Mutant: an iteration that finds its launch decided waits for its descriptor.
WaitForUnasked(p, r) ==
  IF tickets'[p].state = "SUBMITTED" THEN {"napping"}
  ELSE IF tickets'[p].state = "LAUNCHING" THEN {"handshake"} ELSE {"exit"}

\* Where drive_start waits after an answer r, or that it returns: a ticket not
\* adopted yet is looked at again in a millisecond, the others wait on a
\* duplicate of their error pipe or of their pidfd, if one can be had.
WaitFor(p, r) ==
  IF r # "PENDING" THEN {"return"}
  ELSE IF tickets'[p].state = "SUBMITTED" THEN {"napping"}
  ELSE (IF tickets'[p].state = "LAUNCHING" THEN {"handshake"} ELSE {"exit"})
         \cup (IF Faults THEN {"return"} ELSE {})

\* One round of drive_start for the ticket p of the caller c.  Returning hands
\* the program the process, or the ticket when the launch is still undecided.
Drive(c, p, r) ==
  /\ Check(p, r)
  /\ \E w \in WaitFor(p, r) :
       IF w = "return"
       THEN /\ callers' = [callers EXCEPT ![c] = [pc |-> "idle", ticket |-> NoTicket]]
            /\ known' = known \cup {p}
       ELSE /\ callers' = [callers EXCEPT ![c] = [pc |-> w, ticket |-> p]]
            /\ UNCHANGED known
  /\ UNCHANGED <<jobs, worker, cancels>>

\* The round of mdk_process_start that follows its process_begin.
StartDrives(c) ==
  \E r \in Results : callers[c].pc = "begun" /\ Drive(c, callers[c].ticket, r)

\* mdk_process_retry_start.
RetryStart(c, p) ==
  \E r \in Results : LockIsFree /\ IsIdle(c) /\ p \in known /\ Drive(c, p, r)

Readable(c) ==
  LET p == callers[c].ticket
  IN  \/ callers[c].pc = "napping"
      \/ callers[c].pc = "handshake" /\ (EofIsSure(p) \/ pipe[p] = "record")
      \/ callers[c].pc = "exit" /\ child[p] \in {"zombie", "reaped", "stolen"}

\* The nap is over, or poll(2) answers on the duplicate: another round.
Resume(c) ==
  /\ LockIsFree
  /\ \/ Readable(c)
     \/ callers[c].pc = "handshake" /\ pipe[callers[c].ticket] # "open"
     \/ callers[c].pc \in {"handshake", "exit"} /\ Faults
  /\ \E r \in Results : Drive(c, callers[c].ticket, r)

\* poll(2) fails on the duplicate while the launch is undecided.
PollFails(c) ==
  /\ LockIsFree /\ Faults
  /\ callers[c].pc \in {"handshake", "exit"}
  /\ tickets[callers[c].ticket].step = "PENDING"
  /\ callers' = [callers EXCEPT ![c] = [pc |-> "idle", ticket |-> NoTicket]]
  /\ known' = known \cup {callers[c].ticket}
  /\ UNCHANGED <<tickets, rooted, slots, jobs, worker, child, pipe, killed, cancels>>

CheckStart(c, p) ==
  /\ LockIsFree /\ IsIdle(c) /\ p \in known
  /\ \E r \in Results : Check(p, r)
  /\ UNCHANGED <<known, jobs, worker, callers, cancels>>

Stopped(ss, p) == [ss EXCEPT ![tickets[p].slot].stop = TRUE]

\* The worker may still come to see the flag.
AbortQueued(p) ==
  /\ tickets[p].state = "SUBMITTED" /\ ~IsDone(p)
  /\ tickets' = [tickets EXCEPT ![p].stop = TRUE]
  /\ slots' = Stopped(slots, p)
  /\ UNCHANGED <<rooted, child, pipe, killed>>

\* A launch with a child turns to aborting and is cleaned up in the same call.
AbortLive(p) ==
  /\ HasChild(p)
  /\ LET submitted == tickets[p].state = "SUBMITTED"
         t == [Aborting(Current(p)) EXCEPT !.stop = @ \/ submitted]
     IN  \E r \in Results :
           Cleanup(p, t, IF submitted THEN Stopped(CurrentSlots(p), p) ELSE slots, r)

\* mdk_process_abort_start.  Aborting a decided launch changes nothing: it is
\* refused for a transferred process and answers the cached outcome otherwise.
AbortStart(c, p) ==
  /\ LockIsFree /\ IsIdle(c) /\ p \in known
  /\ tickets[p].step = "PENDING"
  /\ \/ AbortQueued(p)
     \/ \E r \in Results :
          NotCreated(p, [tickets[p] EXCEPT !.stop = TRUE], Stopped(slots, p), r)
     \/ AbortLive(p)
  /\ cancels' = cancels \cup {p}
  /\ UNCHANGED <<known, jobs, worker, callers>>

\* A handle of a process that was transferred and not disposed of.
MayUse(c, p) == /\ LockIsFree /\ IsIdle(c) /\ p \in known
                /\ tickets[p].step = "OWNED" /\ tickets[p].state # "DISPOSED"

\* mdk_process_poll_exit: one wait while the process is not known to be gone.
PollExit(c, p) ==
  /\ MayUse(c, p) /\ tickets[p].state = "RUNNING"
  /\ \/ /\ child[p] = "zombie"
        /\ tickets' = [tickets EXCEPT ![p].state = "REAPED", ![p].pidfd = FALSE]
        /\ child' = [child EXCEPT ![p] = "reaped"]
     \/ /\ child[p] = "stolen"
        /\ tickets' = [tickets EXCEPT ![p].state = "LOST", ![p].pidfd = FALSE]
        /\ UNCHANGED child
  /\ UNCHANGED <<rooted, known, slots, jobs, worker, pipe, killed, cancels, callers>>

CloseStdin(c, p) ==
  /\ MayUse(c, p)
  /\ tickets' = [tickets EXCEPT ![p].streams = @ \ {Stdin}]
  /\ UNCHANGED <<rooted, known, slots, jobs, worker, child, pipe, killed, cancels, callers>>

\* Mutant: a running process can be disposed of.
DisposeRunning(c, p) ==
  /\ MayUse(c, p)
  /\ tickets' = [tickets EXCEPT ![p].state = "DISPOSED", ![p].pidfd = FALSE,
                                ![p].streams = {}]
  /\ rooted' = rooted \ {p}
  /\ UNCHANGED <<known, slots, jobs, worker, child, pipe, killed, cancels, callers>>

\* mdk_process_dispose: refused while the process is running.
Dispose(c, p) ==
  /\ MayUse(c, p) /\ tickets[p].state # "RUNNING"
  /\ tickets' = [tickets EXCEPT ![p].state = "DISPOSED", ![p].pidfd = FALSE,
                                ![p].streams = {}]
  /\ rooted' = rooted \ {p}
  /\ UNCHANGED <<known, slots, jobs, worker, child, pipe, killed, cancels, callers>>

Call == \E c \in Caller :
  \/ \E p \in Ticket : \/ Submit(c, p) \/ Begin(c, p) \/ RetryStart(c, p)
                       \/ CheckStart(c, p) \/ AbortStart(c, p)
                       \/ PollExit(c, p) \/ CloseStdin(c, p) \/ Dispose(c, p)
  \/ PostJob(c) \/ StartDrives(c) \/ Resume(c) \/ PollFails(c)

-----------------------------------------------------------------------------
(* The submission worker *)

Queued == {s \in Slot : slots[s].phase = "QUEUED"}

\* How far behind the worker's next position the slot s comes.
Turns(s) == (s + NumSlots - worker.next) % NumSlots

\* sem_wait returns.
WorkerWakes ==
  /\ worker.pc = "waiting" /\ jobs > 0
  /\ jobs' = jobs - 1
  /\ worker' = [worker EXCEPT !.pc = "awake"]
  /\ UNCHANGED <<tickets, rooted, known, slots, child, pipe, killed, cancels, callers>>

\* Round robin from next; with nothing queued it waits again.
WorkerTakes ==
  /\ worker.pc = "awake"
  /\ IF Queued = {}
     THEN worker' = [worker EXCEPT !.pc = "waiting"] /\ UNCHANGED slots
     ELSE \E s \in Queued :
            /\ \A u \in Queued : Turns(s) <= Turns(u)
            /\ slots' = [slots EXCEPT ![s].phase = "WORKING"]
            /\ worker' = [worker EXCEPT !.pc = "taken", !.job = s]
  /\ UNCHANGED <<tickets, rooted, known, jobs, child, pipe, killed, cancels, callers>>

WorkerMoves(from, to) ==
  /\ worker.pc = from
  /\ worker' = [worker EXCEPT !.pc = to]
  /\ UNCHANGED <<tickets, rooted, known, jobs, pipe, killed, cancels, callers>>

\* Invalid environment, or a stop seen, before anything was set up; the
\* preparations fail; a stop seen before the clone; the clone fails.
WorkerGivesUp ==
  \E from \in {"taken", "prepared", "cloning"}, why \in {"failed", "cancelled"} :
    /\ why = "cancelled" => slots[worker.job].stop /\ from # "cloning"
    /\ why = "failed" => Faults \/ from = "taken"
    /\ WorkerMoves(from, "finishing")
    /\ slots' = [slots EXCEPT ![worker.job].result = why]
    /\ UNCHANGED child

\* The first stop check passes and the descriptors are there.
WorkerPrepares ==
  /\ ~slots[worker.job].stop
  /\ WorkerMoves("taken", "prepared")
  /\ UNCHANGED <<slots, child>>

\* The second stop check passes: from here the child is made.
WorkerCommits ==
  /\ ~slots[worker.job].stop
  /\ WorkerMoves("prepared", "cloning")
  /\ UNCHANGED <<slots, child>>

WorkerClones ==
  /\ WorkerMoves("cloning", "finishing")
  /\ slots' = [slots EXCEPT ![worker.job].result = "created",
                            ![worker.job].carries = TRUE]
  /\ child' = [child EXCEPT ![slots[worker.job].owner] = "setup"]

WorkerFinishes ==
  /\ worker.pc = "finishing"
  /\ slots' = [slots EXCEPT ![worker.job].phase = "DONE"]
  /\ worker' = [worker EXCEPT !.pc = "waiting", !.next = (worker.job % NumSlots) + 1]
  /\ UNCHANGED <<tickets, rooted, known, jobs, child, pipe, killed, cancels, callers>>

Worker == \/ WorkerWakes \/ WorkerTakes \/ WorkerGivesUp \/ WorkerPrepares
          \/ WorkerCommits \/ WorkerClones \/ WorkerFinishes

-----------------------------------------------------------------------------
(* The children *)

ChildMoves(p, from, to) ==
  /\ child[p] \in from
  /\ child' = [child EXCEPT ![p] = to]
  /\ UNCHANGED <<tickets, rooted, known, slots, jobs, worker, killed, cancels, callers>>

\* exec: the close-on-exec error pipe closes.
ChildExecs(p) ==
  /\ ChildMoves(p, {"setup"}, "running")
  /\ pipe' = [pipe EXCEPT ![p] = "eof"]

ChildReports(p) ==
  /\ ChildMoves(p, {"setup"}, "exiting")
  /\ pipe' = [pipe EXCEPT ![p] = "record"]

\* It exits, or is killed, by the runtime or by someone else.
ChildDies(p) ==
  /\ ChildMoves(p, Alive, "zombie")
  /\ pipe' = [pipe EXCEPT ![p] = IF pipe[p] = "open" THEN "eof" ELSE pipe[p]]

\* Someone else takes the exit status: a foreign wait, or SIGCHLD ignored.
StatusStolen(p) ==
  /\ Faults
  /\ ChildMoves(p, {"zombie"}, "stolen")
  /\ UNCHANGED pipe

Child == \E p \in Ticket : \/ ChildExecs(p) \/ ChildReports(p)
                           \/ ChildDies(p) \/ StatusStolen(p)

Next == Call \/ Worker \/ Child

Spec == Init /\ [][Next]_vars

\* The worker keeps running, posts are made, a caller that can go on does, a
\* child gets to its exec or its report, and one that was sent SIGKILL dies.
Fairness ==
  /\ WF_vars(Worker)
  /\ \A c \in Caller : /\ WF_vars(PostJob(c)) /\ WF_vars(StartDrives(c))
                       /\ WF_vars(Readable(c) /\ Resume(c))
  /\ \A p \in Ticket : /\ WF_vars(ChildExecs(p) \/ ChildReports(p))
                       /\ WF_vars(p \in killed /\ ChildDies(p))

\* The program keeps draining the tickets it has aborted.
Draining == \A p \in Ticket :
  WF_vars(p \in cancels /\ \E c \in Caller : CheckStart(c, p))

FairSpec == Spec /\ Fairness
DrainSpec == FairSpec /\ Draining

-----------------------------------------------------------------------------
(* Safety *)

\* The conditions under which release_submission and adopt_submission call
\* abort() never arise: a permit is held by exactly the ticket it was given to,
\* through reuse of its slot, and is returned only once the worker is done.
PermitChecksHold ==
  /\ \A p \in Ticket : LET t == tickets[p] IN t.slot # 0 =>
       /\ slots[t.slot].owner = p /\ slots[t.slot].generation = t.gen
       /\ t.state # "SUBMITTED" => slots[t.slot].phase = "DONE"
  /\ \A s \in Slot :
       IF slots[s].phase = "FREE" THEN slots[s].owner = NoTicket
       ELSE slots[s].owner \in Ticket /\ tickets[slots[s].owner].slot = s

\* No child is lost track of: until it is reaped its pidfd is with its ticket or
\* with the submission of its ticket, never with both, and the ticket is rooted.
ChildHasOwner ==
  \A p \in Ticket : child[p] \in Alive \cup {"zombie"} =>
    /\ p \in rooted
    /\ tickets[p].pidfd <=> ~(\E s \in Slot : slots[s].carries /\ slots[s].owner = p)

\* "Failed/aborted launches close remaining fds and release native copies/root
\* exactly once": a launch that was not transferred leaves no child, descriptor,
\* permit or root behind.
UndeliveredLaunchIsClean ==
  \A p \in Ticket : LET t == tickets[p] IN
    /\ t.step \in {"FAILED", "ABORTED"} => child[p] \in {"none", "reaped"}
    /\ t.step = "LOST_WAIT" => child[p] = "stolen"
    /\ t.step \in {"FAILED", "ABORTED", "LOST_WAIT"} =>
         ~t.pidfd /\ ~t.errfd /\ t.streams = {} /\ t.slot = 0 /\ p \notin rooted

-----------------------------------------------------------------------------
(* Liveness *)

\* An aborted launch that is drained comes to an outcome.
AbortSettles ==
  \A p \in Ticket : p \in cancels ~> tickets[p].step # "PENDING"

\* A start that waits for a launch another alias has brought to its outcome
\* wakes up and returns, although the alias closed the descriptors.
DecidedStartReturns ==
  \A c \in Caller, p \in Ticket :
    (callers[c].ticket = p /\ tickets[p].step # "PENDING") ~> callers[c].ticket # p

-----------------------------------------------------------------------------
(* Refinement *)

Outcome(p) == LET t == tickets[p] IN
  CASE t.state = "none" -> "none"
    [] t.state = "DISPOSED" -> "disposed"
    [] t.step = "OWNED" /\ t.state # "DISPOSED" -> "owned"
    [] t.step = "FAILED" -> "failed"
    [] t.step = "ABORTED" -> "aborted"
    [] t.step = "LOST_WAIT" -> "lost"
    [] t.step = "PENDING" /\ t.state # "none" -> "pending"

Kid(p) == IF child[p] \in Alive THEN "alive"
          ELSE IF child[p] = "zombie" THEN "dead" ELSE child[p]

Contract == INSTANCE LaunchContract WITH
  outcome <- [p \in Ticket |-> Outcome(p)],
  kid <- [p \in Ticket |-> Kid(p)],
  cancelled <- cancels

\* Worker, callers and children together keep the contract of the launch API:
\* one outcome, no hand-over after a cancellation, no child left unwaited for.
KeepsContract == Contract!Spec
=============================================================================
