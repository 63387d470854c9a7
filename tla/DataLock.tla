------------------------------ MODULE DataLock ------------------------------
(***************************************************************************)
(* The single-writer lock of a data directory (pds/shell/dirlock.mdk) and  *)
(* what a server does under it (pds/serve.mdk).  Each member of Proc is    *)
(* one run of the server over the same directory.  A run reads the         *)
(* generations below <data>/.lock, watches the heartbeat of the highest    *)
(* one, makes the next directory if it has stopped, removes the older ones *)
(* and from then on rewrites its own heartbeat.  Every file operation is a *)
(* step of its own; the steps of all runs interleave.                      *)
(***************************************************************************)
EXTENDS Integers

CONSTANTS
  Proc,           \* the runs of the server
  StalePolls,     \* lockStaleAfterMillis / lockPollMillis
  ClaimAttempts,  \* claimAttempts
  Writes,         \* the guarded writes of a start-up (4 in configure)
  Forced,         \* the runs started with --force-lock
  Faults,         \* {"term"} if servers are told to stop
  MaxErrors,      \* bound on the file operations that fail
  MaxGen,         \* bound on the generations made
  MaxTime         \* bound on the clock

ASSUME LockConstants ==
  /\ StalePolls \in Nat \ {0} /\ ClaimAttempts \in Nat \ {0} /\ Writes \in Nat
  /\ MaxErrors \in Nat /\ MaxGen \in Nat /\ MaxTime \in Nat

VARIABLES
  gens,    \* the generation directories there are
  owner,   \* what each generation's owner file holds
  clock,   \* the time in polls
  pc,      \* what each run is about to do
  num,     \* the generation it is about to make, or has made
  seen,    \* the heartbeat it first read of the generation below num
  left,    \* the polls it has left to see that heartbeat move
  rested,  \* a poll's sleep has passed
  tries,   \* the attempts it has left
  force,   \* --force-lock, until a race is lost
  done,    \* the guarded writes of its start-up done so far
  todo,    \* the older generations it has left to remove
  half,    \* the one whose owner file it has removed already
  age,     \* the time since its last heartbeat
  errors,  \* the file operations that have failed
  silent,  \* history: the runs that once let a whole window pass without one,
           \*   or failed at one
  late     \* history: the runs that wrote below a directory already taken from them

disk == <<gens, owner, errors>>
grading == <<seen, left, rested, tries, force>>
clearing == <<todo, half>>
history == <<silent, late>>
vars == <<disk, clock, pc, num, grading, done, clearing, age, history>>
-----------------------------------------------------------------------------
Gen == 0..MaxGen
NoGen == -1
Missing == -1       \* no owner file
Empty == 0          \* an owner file with nothing in it
OldBeat == 1        \* the last heartbeat of a run that is long gone

\* Between its claim and its end a run owns its generation.
Starting == {"first", "clean", "unlink", "check", "confirm", "work"}
Owning == Starting \cup {"serve", "renew", "drain"}
Beating == Owning \ {"drain"}

IsHighest(n) == n \in gens /\ \A m \in gens : m <= n
Holds(p) == pc[p] \in Owning /\ IsHighest(num[p])

\* ownerText: every failure to read is the empty text.
OwnerText(n) == IF owner[n] = Missing THEN Empty ELSE owner[n]

Init ==
  /\ \/ gens = {} /\ owner = [g \in Gen |-> Missing]
     \/ gens = {0} /\ owner = [g \in Gen |-> IF g = 0 THEN OldBeat ELSE Missing]
  /\ clock = OldBeat + 1
  /\ pc = [p \in Proc |-> "off"]
  /\ num = [p \in Proc |-> NoGen]
  /\ seen = [p \in Proc |-> Empty]
  /\ left = [p \in Proc |-> 0]
  /\ rested = [p \in Proc |-> FALSE]
  /\ tries = [p \in Proc |-> 0]
  /\ force = [p \in Proc |-> FALSE]
  /\ done = [p \in Proc |-> 0]
  /\ todo = [p \in Proc |-> {}]
  /\ half = [p \in Proc |-> NoGen]
  /\ age = [p \in Proc |-> 0]
  /\ errors = 0 /\ silent = {} /\ late = {}

Goto(p, l) == pc' = [pc EXCEPT ![p] = l]
-----------------------------------------------------------------------------
(* Taking the lock *)

\* acquireDataLock, on a lock directory that exists.
Acquire(p) ==
  /\ pc[p] = "off" /\ Goto(p, "list")
  /\ force' = [force EXCEPT ![p] = p \in Forced]
  /\ tries' = [tries EXCEPT ![p] = ClaimAttempts]
  /\ UNCHANGED <<disk, clock, num, seen, left, rested, done, clearing, age, history>>

\* contend: read the generations.
Contend(p) ==
  /\ pc[p] = "list"
  /\ \/ tries[p] = 0 /\ Goto(p, "refused") /\ num' = [num EXCEPT ![p] = NoGen]
     \/ tries[p] > 0 /\ gens = {} /\ Goto(p, "claim") /\ num' = [num EXCEPT ![p] = 0]
     \/ /\ tries[p] > 0
        /\ \E held \in gens :
             /\ IsHighest(held) /\ held < MaxGen
             /\ num' = [num EXCEPT ![p] = held + 1]
        /\ Goto(p, IF force[p] THEN "claim" ELSE "look")
  /\ UNCHANGED <<disk, clock, grading, done, clearing, age, history>>

\* contend: the heartbeat as it is when the watch begins.
Look(p) ==
  /\ pc[p] = "look" /\ Goto(p, "grade")
  /\ seen' = [seen EXCEPT ![p] = OwnerText(num[p] - 1)]
  /\ left' = [left EXCEPT ![p] = StalePolls]
  /\ rested' = [rested EXCEPT ![p] = FALSE]
  /\ UNCHANGED <<disk, clock, num, tries, force, done, clearing, age, history>>

\* Mutant: a heartbeat that stands still is taken for a live one.
BeatMovesSwapped(p) ==
  /\ pc[p] = "grade" /\ rested[p]
  /\ Goto(p, IF OwnerText(num[p] - 1) = seen[p] THEN "refused" ELSE "claim")
  /\ UNCHANGED <<disk, clock, num, grading, done, clearing, age, history>>

\* Mutant: one poll without a heartbeat is enough.
BeatMovesImpatient(p) ==
  /\ pc[p] = "grade" /\ rested[p]
  /\ Goto(p, IF OwnerText(num[p] - 1) # seen[p] THEN "refused" ELSE "claim")
  /\ UNCHANGED <<disk, clock, num, grading, done, clearing, age, history>>

\* One poll of beatMoves, a sleep after the one before.
BeatMoves(p) ==
  /\ pc[p] = "grade" /\ rested[p]
  /\ rested' = [rested EXCEPT ![p] = FALSE]
  /\ IF OwnerText(num[p] - 1) # seen[p]
     THEN /\ Goto(p, "refused") /\ num' = [num EXCEPT ![p] = NoGen]
          /\ left' = [left EXCEPT ![p] = 0] /\ seen' = [seen EXCEPT ![p] = Empty]
     ELSE /\ left' = [left EXCEPT ![p] = @ - 1] /\ num' = num
          /\ IF left[p] = 1
             THEN Goto(p, "claim") /\ seen' = [seen EXCEPT ![p] = Empty]
             ELSE Goto(p, "grade") /\ seen' = seen
  /\ UNCHANGED <<disk, clock, tries, force, done, clearing, age, history>>

\* claim: mkdir decides; whoever finds the name taken reads the directory again.
Claim(p) ==
  /\ pc[p] = "claim"
  /\ IF num[p] \in gens
     THEN /\ Goto(p, "list") /\ gens' = gens
          /\ tries' = [tries EXCEPT ![p] = @ - 1]
          /\ force' = [force EXCEPT ![p] = FALSE]
     ELSE /\ Goto(p, "first") /\ gens' = gens \cup {num[p]}
          /\ tries' = [tries EXCEPT ![p] = 0]
          /\ force' = [force EXCEPT ![p] = FALSE]
  /\ UNCHANGED <<owner, errors, clock, num, seen, left, rested, done, clearing, age, history>>
-----------------------------------------------------------------------------
(* The heartbeat *)

\* writeBeat: it needs the generation's directory.
Beat(p) ==
  /\ num[p] \in gens
  /\ owner' = [owner EXCEPT ![num[p]] = clock] /\ errors' = errors
  /\ age' = [age EXCEPT ![p] = 0] /\ silent' = silent

DiskFails == errors < MaxErrors /\ errors' = errors + 1

\* It fails without the directory, and on a full disk after the file was emptied.
\* (One whose open fails leaves what no heartbeat leaves.)
BeatFails(p) ==
  /\ \/ num[p] \notin gens /\ UNCHANGED <<owner, errors>>
     \/ DiskFails /\ num[p] \in gens /\ owner' = [owner EXCEPT ![num[p]] = Empty]
  /\ silent' = silent \cup {p} /\ age' = age

FirstBeat(p) ==
  /\ pc[p] = "first"
  /\ \/ Beat(p) /\ Goto(p, "clean")
     \/ BeatFails(p) /\ Goto(p, "ended")
  /\ UNCHANGED <<gens, clock, num, grading, done, clearing, late>>

\* Mutant: every generation but its own is removed.
DiscardOthers(p) ==
  /\ pc[p] = "clean" /\ Goto(p, "unlink")
  /\ todo' = [todo EXCEPT ![p] = gens \ {num[p]}]
  /\ UNCHANGED <<disk, clock, num, grading, done, half, age, history>>

\* discardOlder: list, then remove each owner file and its directory, best effort.
DiscardOlder(p) ==
  /\ pc[p] = "clean"
  /\ LET older == {m \in gens : m < num[p]} IN
     /\ todo' = [todo EXCEPT ![p] = older]
     /\ Goto(p, IF older = {} THEN "check" ELSE "unlink")
  /\ UNCHANGED <<disk, clock, num, grading, done, half, age, history>>

DiscardOwner(p) ==
  /\ pc[p] = "unlink" /\ half[p] = NoGen
  /\ \E m \in todo[p] :
       /\ half' = [half EXCEPT ![p] = m]
       /\ \/ owner' = [owner EXCEPT ![m] = Missing] /\ errors' = errors
          \/ DiskFails /\ owner' = owner
  /\ UNCHANGED <<gens, clock, pc, num, grading, done, todo, age, history>>

DiscardDir(p) ==
  /\ pc[p] = "unlink" /\ half[p] # NoGen
  /\ \/ owner[half[p]] = Missing /\ gens' = gens \ {half[p]}
     \/ owner[half[p]] # Missing /\ gens' = gens
  /\ LET rest == todo[p] \ {half[p]} IN
     /\ todo' = [todo EXCEPT ![p] = rest]
     /\ Goto(p, IF rest = {} THEN "check" ELSE "unlink")
  /\ half' = [half EXCEPT ![p] = NoGen]
  /\ UNCHANGED <<owner, errors, clock, num, grading, done, age, history>>

\* Mutant: the lock is lost only with its own directory.
HoldDataLockUnread(p) ==
  /\ \/ pc[p] = "check" /\ Goto(p, IF num[p] \in gens THEN "confirm" ELSE "ended")
     \/ pc[p] = "serve" /\ Goto(p, IF num[p] \in gens THEN "renew" ELSE "ended")
  /\ UNCHANGED <<disk, clock, num, grading, done, clearing, age, history>>

\* holdDataLock: the generations are read first, the heartbeat written after.
HoldDataLock(p) ==
  /\ \/ pc[p] = "check" /\ Goto(p, IF IsHighest(num[p]) THEN "confirm" ELSE "ended")
     \/ pc[p] = "serve" /\ Goto(p, IF IsHighest(num[p]) THEN "renew" ELSE "ended")
  /\ UNCHANGED <<disk, clock, num, grading, done, clearing, age, history>>

\* requireDataLock: a heartbeat that fails ends a start-up.
Confirm(p) ==
  /\ pc[p] = "confirm"
  /\ \/ Beat(p) /\ Goto(p, IF done[p] < Writes THEN "work" ELSE "serve")
     \/ BeatFails(p) /\ Goto(p, "ended")
  /\ UNCHANGED <<gens, clock, num, grading, done, clearing, late>>

\* lockBeatLoop: a heartbeat that fails is reported and the server goes on.
Renew(p) ==
  /\ pc[p] = "renew" /\ Goto(p, "serve")
  /\ Beat(p) \/ BeatFails(p)
  /\ UNCHANGED <<gens, clock, num, grading, done, clearing, late>>
-----------------------------------------------------------------------------
(* Under the lock *)

Write(p) == late' = IF IsHighest(num[p]) THEN late ELSE late \cup {p}

\* configure: openRepo, the sweeps, the session secret, the log's recovery.
ConfigureWrite(p) ==
  /\ pc[p] = "work" /\ Write(p) /\ Goto(p, "check")
  /\ done' = [done EXCEPT ![p] = @ + 1]
  /\ UNCHANGED <<disk, clock, num, grading, clearing, age, silent>>

\* A request commits, while the server serves or drains.
Request(p) ==
  /\ pc[p] \in {"serve", "drain"} /\ Write(p)
  /\ UNCHANGED <<disk, clock, pc, num, grading, done, clearing, age, silent>>

\* SIGTERM: servingStopping is set, which also ends lockBeatLoop.
Stop(p) ==
  /\ "term" \in Faults /\ pc[p] = "serve" /\ Goto(p, "drain")
  /\ UNCHANGED <<disk, clock, num, grading, done, clearing, age, history>>

\* The process ends: killed, drained, or refused by another step of its start-up.
\* (One that ends before its claim is one that takes no further step.)
End(p) ==
  /\ pc[p] \in Owning /\ Goto(p, "ended")
  /\ age' = [age EXCEPT ![p] = 0]
  /\ silent' = silent \ {p} /\ late' = late \ {p}
  /\ UNCHANGED <<disk, clock, num, grading, done, clearing>>

Tick ==
  /\ clock < MaxTime /\ clock' = clock + 1
  /\ rested' = [p \in Proc |-> pc[p] = "grade"]
  /\ age' = [p \in Proc |-> IF pc[p] \in Beating /\ age[p] < StalePolls
                            THEN age[p] + 1 ELSE age[p]]
  /\ silent' = silent \cup {p \in Proc : pc[p] \in Beating /\ age'[p] = StalePolls}
  /\ UNCHANGED <<disk, pc, num, seen, left, tries, force, done, clearing, late>>

Taking(p) == Acquire(p) \/ Contend(p) \/ Look(p) \/ BeatMoves(p) \/ Claim(p)
Clearing(p) ==
  FirstBeat(p) \/ DiscardOlder(p) \/ DiscardOwner(p) \/ DiscardDir(p)
Holding(p) ==
  HoldDataLock(p) \/ Confirm(p) \/ Renew(p) \/ ConfigureWrite(p) \/ Request(p) \/ Stop(p)

Next == Tick \/ \E p \in Proc : Taking(p) \/ Clearing(p) \/ Holding(p) \/ End(p)
Spec == Init /\ [][Next]_vars
-----------------------------------------------------------------------------
(* Properties *)

Label == Owning \cup {"off", "list", "look", "grade", "claim", "refused", "ended"}

\* The types; the window, the attempts and the age stay in their bounds.
TypeOK ==
  /\ gens \subseteq Gen /\ owner \in [Gen -> Nat \cup {Missing}] /\ clock \in Nat
  /\ pc \in [Proc -> Label] /\ num \in [Proc -> Gen \cup {NoGen}]
  /\ seen \in [Proc -> Nat] /\ left \in [Proc -> 0..StalePolls]
  /\ rested \in [Proc -> BOOLEAN]
  /\ tries \in [Proc -> 0..ClaimAttempts] /\ force \in [Proc -> BOOLEAN]
  /\ done \in [Proc -> 0..Writes]
  /\ todo \in [Proc -> SUBSET Gen] /\ half \in [Proc -> Gen \cup {NoGen}]
  /\ age \in [Proc -> 0..StalePolls]
  /\ errors \in 0..MaxErrors /\ silent \subseteq Proc /\ late \subseteq Proc

\* A race over an abandoned directory never leaves two holders, although the
\* name of a removed generation may be made again by a contender that read the
\* directory long before (dirlock.mdk: claim, discardOlder).
OneHolder == \A p, q \in Proc : Holds(p) /\ Holds(q) => p = q

\* And never none: whoever is refused is refused for a run that took the
\* directory and has not lost it to anything but another run's claim.
RefusalHasAHolder ==
  (\E p \in Proc : pc[p] = "refused")
    => \E q \in Proc : pc[q] \in Owning \cup {"ended"} /\ IsHighest(num[q])

\* A run that wrote below a directory taken from it is never told by a later
\* heartbeat that it still holds it (holdDataLock reads before it writes).
LateWriterIsTold == \A p \in late : pc[p] \notin {"confirm", "renew"}

\* A holder that beats in time loses the directory to nobody but --force-lock
\* (beatMoves), as long as it does not drain.
LiveHolderIsKept ==
  [][\A p \in Proc :
       (Holds(p) /\ pc[p] \in Beating /\ p \notin silent /\ pc'[p] \in Owning)
         => \/ Holds(p)'
            \/ \E q \in Proc : pc[q] = "claim" /\ force[q] /\ num[q] \in gens' \ gens]_vars

\* A server keeps saying that it holds the directory for as long as it runs
\* (serve.mdk: lockBeatLoop), so only one that fell silent writes too late.
OnlySilentWriteLate == late \subseteq silent
=============================================================================
