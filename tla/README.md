# Medaka: models and proofs

TLA+ models of the parts of this repository whose correctness rests on order: who runs next, who
owns a child process, what is on disk when a process dies. The compiler is much the larger part of
the repository, but it is a sequential function from programs to programs; the state machines are in
the async scheduler of the standard library, in the C runtime's process code, in the layout scanner of the
editors' grammar and in the PDS (`pds/`), the server that is the repository's largest application.

Paths below are relative to the repository's root. `tlc -config X.cfg MCModule` checks a run,
`tlapm XProofs.tla` the proofs about module `X`.

## 1. Inventory

| Component | State it keeps | Operations | What is hard | What makes it correct |
|---|---|---|---|---|
| async scheduler, `stdlib/async.mdk` | run queue (two lists), park table, round budget | run a turn, spawn, park, wake pass, poll, sleep, return | fairness between runnable, timed and descriptor waiters; a flag set in the last turn; interrupted polls; rounding and width of timeouts | no task lost or doubled, FIFO, no starvation, deadlock panic only on a deadlock |
| process launch, `runtime/medaka_process.c` | one record per process, eight submission slots, a semaphore, one worker thread, the process lock | submit, start, retry, check, abort, poll-exit, close-stdin, dispose | the lock is given up during waits; a stop flag races the worker's `clone3`; slots are reused; any system call fails | every child has one owner or is reaped; a launch has one outcome; cancel wins over later success |
| PDS commit durability, `pds/shell/{persist,blockfile,eventlog,datadir}.mdk` | head file, block files in shards, staged entry, entries, last-promoted pointer | persist, stage, promote, sweep, recover | death between any two disk operations, directory entries not yet flushed, a failed operation half-way | head never names missing blocks; a commit and its event land together; numbers are never reused |
| PDS writer and start-up, `pds/shell/server.mdk`, `pds/serve.mdk` | the store in memory | apply a request, start, recover, complete the genesis events | every path of the above in the order the writer calls it | what was acknowledged stays; a start finishes or refuses |
| PDS subscribers, `pds/shell/subscribe.mdk` | a cursor per connection | grade a cursor, replay, tail, poll | a cursor older than the window, or from before a crash | no silent hole; no event taken back |
| PDS directory lock, `pds/shell/dirlock.mdk`, `pds/serve.mdk` | generations, a heartbeat, held generation | acquire, beat, reclaim, force, write under the lock, drain | stalled holders, racing contenders, a claim in two steps, names made again | one holder; a holder that beats keeps the directory; one that lost it is told |
| PDS sessions, `pds/lib/store.mdk`, `pds/lib/handlers.mdk` | open, consumed and superseded tokens of families, and the file they are kept in | log in, rotate, replay, revoke, log out, prune, restart | replays inside and outside the grace window, expiry, a write that fails, a clock set back | a copied token revokes its family; an ended family is gone; one replay-opened session per token; no session outlives its login's term |
| PDS connection admission, `pds/shell/server.mdk` | the ceilings at accept, the read budget, the proxied slots, the answer budget, three queues of waiters | accept, read, frame, refuse, proxy, answer, retire | a grant racing the waiter's timeout, waiters that gave up, kept-alive and pipelined requests | what is held is what is in use; freed room is offered; a full budget is a wait and no deadlock |
| PDS rate limiter, `pds/lib/ratelimit.mdk` | two windows of counters, handle windows | step | a clock set back, a full table | allowance and capacity |
| process supervision, `stdlib/process{,_async}.mdk` | deadlines, cancel tokens, tickets | startUntil, readUntil, waitUntil | a deadline that races success; busy retries | a ticket always comes back to be drained |
| command runner, `runtime/medaka_rt.c` | rows, children, captured files, `SIGCHLD` | `runCommand`, `runCommandBatch` | pids given out again, a fork refused for a while, a status taken by somebody else, a program that ignores `SIGCHLD` | row k's result is row k's; nothing left behind; the call returns |
| layout scanner, `tree-sitter-medaka/src/scanner.c` | a stack of columns and a queue of tokens, serialised in bytes with each token | scan, serialize, deserialize | what the parser may take at a point, one-byte counts, blanks and strings that hide a newline | INDENTs and DEDENTs balance; the open levels are the blocks of the line |
| async TCP, `stdlib/net{,_async}.mdk` | sockets, deadlines | connect, accept, recv, send with deadlines | park and retry | no lost readiness |
| repository algorithms, `pds/lib/{mst,repo,blockstore}.mdk` | content-addressed trees | insert, delete, diff | canonical shape | shape depends on keys only |
| compiler, tools, other libraries | none across calls (build and parse caches apart) | passes over programs | size, not interleaving | tested by golden files and self-compilation |

How they interact: every PDS connection is a task of the scheduler; a request's disk operations run
inside one turn (none is an `Async` step), so requests are atomic with respect to each other and only
a death, a fault or another process comes between them. Subscribers read the log the writer appends
to, in turns of their own. `process_async` drives the process API from tasks and parks between tries.
The scheduler reaches the machine through `ioPoll`, the monotonic clock and `sleepMs` of
`runtime/medaka_rt.c`; the process code and the command runner share the runtime but no state with it.
A connection waits for admission in `awaitAny` of a flag and a deadline, the scheduler's `FlagWait` and
timed wait: `Admission` takes from `AsyncScheduler` that a turn is atomic and that a waiter wakes on either,
and leaves open which comes first. A request that was admitted and framed is what `Sessions` and `CommitLog` call a
request; both write through the same staged rename.

`PROJECT.json` lists each component with its files, and under `hazards` each place where the order
of steps bites, with the properties that would notice.

## 2. Modules

| Module | Models | Kind |
|---|---|---|
| `AsyncScheduler` | `runAsync`: run queue, rounds, wake passes, blocking | detailed |
| `TaskPool` | what `runAsync` promises: one FIFO pool of tasks | abstract |
| `AsyncSchedulerProofs` | theorems about `AsyncScheduler` | proofs |
| `ProcessLaunch` | launch and ownership of child processes | detailed |
| `LaunchContract` | what the launch API promises about one child per launch | abstract |
| `ProcessLaunchProofs` | theorems about `ProcessLaunch` | proofs |
| `CommitLog` | disk, writer, start-up and subscribers of one PDS account | detailed |
| `RepoLedger` | commit and announcement as one step | abstract |
| `CommitLogProofs` | theorems about `CommitLog` | proofs |
| `DataLock` | single-writer lock of a data directory, and what is written under it | detailed |
| `DataLockProofs` | theorems about `DataLock` | proofs |
| `Sessions` | the session set of an account, its file and the routes that move it | detailed |
| `SessionsProofs` | theorems about `Sessions` | proofs |
| `Admission` | what a connection has to be admitted to, through its whole life | detailed |
| `AdmissionProofs` | theorems about `Admission` | proofs |
| `CommandBatch` | `runCommand` and `runCommandBatch` | detailed |
| `CommandBatchProofs` | theorems about `CommandBatch` | proofs |
| `LayoutScanner` | the external scanner of the tree-sitter grammar | detailed |
| `LayoutScannerProofs` | theorems about `LayoutScanner` | proofs |
| `MC...` | symmetry and model values for TLC | runs |

Definitions marked `Mutant` are not used by any specification. Each is a plausible mistake in the
definition below it, and exists so that one can check that the property named with it in
`PROJECT.json` notices the mistake.

### AsyncScheduler

A task is the sequence of turns the driver sees: in each it finishes, yields, parks on a set of
waits, or spawns. Which of them is a free choice in every turn, so every program over `Task` is
covered. `front`, `back`, `parked` and `budget` are the code's references of those names; `pc` says
where the driver is (`go` for `schedule.go`, `wake` inside `wakeParked`, `sleep` and `poll` inside
the runtime call), `block` is `wakeParked`'s argument, `until` when the runtime call times out. The
clock, descriptor readiness and flags a program sets belong to the environment and change at any
moment. `owed` is a history variable: who was queued when the round began and has not had a turn.

`FdWait`, `[at : Deadline]` and `FlagWait` are the constructors of `Wait`; the flag of a task handle
is set by the turn that finishes the task. The clock is a number of ticks, `TicksPerMs` to the
millisecond, so that the rounding of `millisUntil` is visible; `CInt` is the cast `ioPoll` makes,
with its width a constant. With `Faults`, `poll(2)` may be cut short by a signal or fail.

### ProcessLaunch

One action per entry point of `medaka_process.c`; each is one critical section of `process_lock`,
except that `start` begins under the lock and goes on under it (`Begin`, `StartDrives`) and that
`drive_start` gives it up while it naps or polls (`WaitFor`, `Resume`). The worker thread
(`WorkerTakes` to `WorkerFinishes`) takes no lock and meets the callers at the submission's phase
and stop flag, so its two looks at the flag, its `clone3` and the publication of its result are
separate actions. The child moves on its own: it executes, reports a failure, dies. A process record
carries the state names of the C enumeration. With `Faults` system calls fail, are interrupted, and
another part of the program may reap the child first. `NumSlots` and `MaxGen` stand for 8 and
`UINT64_MAX`, and the model's guards are the code's. `process_lock` is taken with `trylock` by
most entry points: the losing caller gets `ProcessBusy` and nothing changes, so it is not a step.

### CommitLog

`cache` is what the running kernel shows of each file, `media` the set of versions a power loss may
leave of it. A `Put` (rename, unlink or mkdir: one directory entry) adds a version, a `Sync` of a
directory leaves only the current version of each entry in it, and `PowerLoss` picks any version of
each file and drops whatever stood below a directory that is gone. Each call of the code is the
sequence of such operations it makes (`PersistSave`, `Stage`, `Promote`, `Sweep`), put into `todo`
and worked off one per step, so a fault may come between any two. Files written under a staging
name and renamed are modelled from the rename on: each is flushed before it is renamed, and no one but
a start-up sweep looks at a staging name again.

`at` is the call in progress, `up` whether the process runs; `StartNew`, `Recover`, `EmitGenesis`,
`Serve` and `RefuseLog` are the phases of `configure`, `RequestCommit` to `Answer` those of
`applyRequest`. The clock is read once per request or start, as the code does, and so moves only
between requests. The operator passes `--init` exactly when there is no head. `prior` remembers the
parent of each commit, so that `Chain` and `GraphWhole` can say what a head reaches. A relay keeps
its cursor and all it has received; `floor` is what it has been told, or knows, it will not get.

`Faults` selects what may happen: `crash` (the process ends, the kernel goes on), `power`, `error` (a
disk operation fails and the call takes the code's error path), `clock` (set back), `damage` (the
pointer file or a block of the head disappears). `MaxFaults` bounds how many.

### DataLock

Each member of `Proc` is one run of the server from its start to its end; a restart is another member.
`gens` are the directories `gen.N` below `.lock`, `owner` the text of each `owner` file, and `pc` where a
run is: it lists the generations (`Contend`), reads the heartbeat of the highest (`Look`), sees it move
or stand still poll by poll (`BeatMoves`), makes the next directory (`Claim`), writes its first
heartbeat, removes the older generations one call at a time (`DiscardOwner`, `DiscardDir`), then
beats before each write of its start-up (`HoldDataLock` reads, `Confirm` writes), and at last serves and
beats (`Renew`) until it drains or ends. Every file operation is a step, and the steps of all runs
interleave in any order; a run may stall between any two.

The unit of the clock is one poll. `StalePolls` stands for the thirty polls of the stale window,
`ClaimAttempts` for 4, `Writes` for the four guarded writes of `configure`; `Forced` are the runs given
`--force-lock`, and `MaxErrors` bounds the failed file operations. A contender sleeps at least
one tick between polls and may sleep longer. The model does not say that heartbeats come every half
second: a holder may beat as late as it likes, and `silent` remembers the runs that let a whole window
pass, or failed at a heartbeat. The drain is not such a silence, and is what `lock_drain` is about.
Left out: a heartbeat read half-written (it differs from what was seen, so the contender is refused: the
safe side); an `owner` file that cannot be opened, or a listing that fails (a heartbeat that does not
happen); and a run that ends before its claim, which is one that takes no further step.

### Sessions

A pair of an access and a refresh token is one member of `Token`: the code gives both the same nonce.
`mem` is the published set, `disk` the file; both have the three lists of `store.mdk` (`open`, `spent`, `over` for
sessions, consumed and superseded refresh tokens). `RefreshRotates`, `RefreshReplays` and
`RefreshRevokes` are the three outcomes of `refreshSession`, `DeleteSession` and `CreateSession` the other two routes;
each prunes, computes the successor, writes it and publishes it (`Settle`), as `applyRequest` does in one turn. A
write that fails leaves the old file or the new one, publishes neither and sends nothing. `born`, `ended` and `lost`
are histories: what was minted and sent, which families a client was told had ended, which ends failed. Which
token is presented when is left open, so any token may be a copy. The clock may be set back once.

### Admission

One action per turn of a connection's task, between two parks. `conn[c].at` is the park: reading, waiting in the read
queue, being refused, answering, queued for a slot, calling upstream, waiting for room for the answer. `budget`,
`slots` and `egress` are the three censuses of `server.mdk`, one record type for all: the two byte budgets share
`grantHeadroomWithin` in the code, and a slot is a waiter of one byte with a hand-over of its own
(`ReleaseSlot`). A waiter that gives up leaves the count at once and the list when a release walks past it
(`Abandon`). What the bytes say is left open: `Boundaries`, `NeedsMore` and `Fails` are what scanning a buffer
can come to, with the limits the framing code imposes. `ReadEnds` stands for everything that ends a
read: the peer, its silence, and the deadlines that `framePending` finds passed. `SIGTERM` at a request's
start is the `Retire` of `Serve` and `AnswerEnds`.

`AdmissionConstants` says that a full read queue of headers and one largest request fit the budget together; the
source's numbers do (64 × 131 072 + 6 356 992 ≤ 33 554 432), and `SaturatedIsAWait` rests on it.

### CommandBatch

`mdk_run_command` and `mdk_run_command_batch` step by step, with the kernel's table of this process's children beside
them: a pid is free, running or a zombie, and is given out again once it is reaped. Each look of the sweep at one child
is a step, since children end in between. What a command prints is left out, that its captured files exist is not.
`Junk` is what `malloc` leaves in the array of pids. With `Faults`, temporary files and forks fail, `fork`
may refuse for a while, and another part of the program may take a status once.

### LayoutScanner

A document is the columns its lines start in, and a call of the scanner is asked for one of the sets of tokens in
the generated table (`ValidSets`); which of them, and what text lies ahead, is left open at every call. The state between two
calls is the serialised buffer and nothing else, with the width of its bytes: `Saved` and `Restored` are
`serialize` and `deserialize`. One version of the parse is modelled: every call starts from a buffer, and
`deserialize` resets everything the scanner keeps, so versions cannot see one another. `Byte`, `StackMax`, `PendingMax` and `BufMax` stand for
256, 256, 512 and 1024 and keep their order (`ScannerAssumption`).

## 3. Runs

Every property of a passing run comes with a mutant in `PROJECT.json`.

| Run | Question | Bounds |
|---|---|---|
| `async_safety` | Does the driver panic, sleep and wait only when it may, and does it implement `TaskPool`? | 3 tasks, 1 descriptor, deadlines on both sides of a millisecond, faults |
| `async_liveness` | Does every timed task, and every descriptor's task as long as polls recur, get its turn? | 2 tasks that yield, park and spawn for ever, 1 descriptor, 1 flag |
| `launch_safety` | Do permits stay with their tickets, and is no child lost, leaked, or touched after hand-over, whatever fails? | 2 launches, 2 threads, 1 slot used twice |
| `launch_liveness` | Does an aborted launch settle, and a waiting start return? | 2 launches, 2 threads, 1 slot |
| `commit_power` | Do power losses anywhere, and a clock set back, leave one consistent directory, and does every restart settle? | 2 faults, 3 commits, 2 blocks each in 2 shards, 1 relay |
| `commit_faults` | Does an acknowledged commit survive every pair of faults, and is a returning subscriber told of every gap? | any 2 of death, failed operation and lost pointer or block, 2 commits, 5 events, a sweep every 2, window shorter than the run, 1 relay |
| `lock_safety` | Do racing starts leave one holder, and is it the right one? | 3 starts, one forced, over an unused or abandoned directory, a window of 2 polls, 2 attempts, 1 write each, 1 failed heartbeat |
| `lock_drain` | Does a server keep the directory for as long as it writes? (violated) | 2 starts, one drains |
| `sessions` | Is every token that was sent known until its family ends, and no longer, through replays, failed writes and restarts? | 4 token pairs, lifetimes of 3 ticks, a grace window of 2, 1 failed write, a clock set back once |
| `admission` | Is what is charged what is in use, wherever a connection ends and whichever wait runs out? | 3 connections (symmetric), a budget of one largest request, a read and two headers, 1 slot, room for 1 large answer |
| `command_batch` | Does every row get its own child's result, and does the call return? | 3 rows, 2 at a time, 3 pids, another child, one stolen status, `SIGCHLD` ignored before |
| `layout` | Do INDENT and DEDENT balance for every document and every way of asking? | every order of the columns of 5 lines, a byte that counts to 5, a stack of 4 |

Why the bounds are enough. Three tasks give a round in which one task runs, one waits and one is
spawned, and both lists of the queue non-empty; two deadlines on both sides of a millisecond give an
early and a late rounding. Two launches over one slot give a reuse with a stale ticket, two threads
an alias for each wait. In `CommitLog` two faults give a fault inside the recovery from a fault; a
second block gives a commit whose shards are made at different times; four genesis events
and a request give every phase, and a fifth event falls behind a sweep of the ones before. Three starts give
an old contender beside a holder and the run that supersedes it, and three generations the removal of a name
that is made again; what they cannot show is proved for every number of them. Four token pairs give a login and two replays of one token beside
a rotation, or two families; the window is shorter than the lifetime, so that a token is replayed, revokes and expires. Three
connections give a holder, a waiter that gives up and one behind it, in each of the queues. Three rows and two jobs
give a row that waits for a pid to be given out again. Five lines give a line that closes two levels behind one that
opened the third, and a file that ends with levels open; with a byte that counts to five the overflow of the count is reached too.
`MaxTime`, `MaxSeq`, `MaxCommits`, `MaxFaults`, `MaxErrors`, `MaxFails`, `MaxGen`, `MaxQueue` and `MaxWaits` are the only caps on
counters, and each is named in its module. `CHECK_DEADLOCK FALSE` is set where the program may really be at
rest: all launches are over, every start is refused or ended, or the bounds on commits and time leave a server
with nothing to do. The
scheduler's safety run keeps the check, since a returned or panicked driver leaves its environment moving
until the clock stops; in `CommandBatch` and `LayoutScanner` the end is a state of its own, so that the check
finds a call that is stuck before it.

Fairness. `AsyncScheduler!FairSpec`: the driver is one thread that never waits for the program except
inside `poll` and `sleep` (weak fairness of `Driver`), and time passes. Tasks owe nothing: they may
yield for ever. `PolledDescriptorWakes` states in its antecedent what the code does not guarantee, that
polls recur. `ProcessLaunch!Fairness`: the worker thread, a
thread about to post, a thread driving its own start and the child before `execve` are scheduled by the
kernel; a killed child dies; nothing is assumed of a running child or of callers. `DrainSpec` adds what
the API asks of its user, that an aborted ticket is checked until it is decided. `CommitLog!FairSpec`:
the process does not stop between operations, and the operator restarts it; nothing is assumed of
clients, subscribers or the clock. `Tick` keeps connected subscribers' polls timely
(`PollsAreTimely`): the code polls every second or so and the window is days, a ratio no small model
has. `CommandBatch!FairSpec`: the calling thread runs, and every child ends sooner or later, which is what
`runCommand` says it waits for. `Admission` and `Sessions` state no liveness: whether a client reads its answer is its own
affair, and every wait in them has a timeout whose running out is a step.

## 4. What the properties say

Scheduler. `DeadlockIsReal`, `NoWakeupSlept`: the driver panics or blocks only when it may.
`WaitsForNextDeadline`: a wait ends at the next deadline or within the rounding of a millisecond.
`ImplementsTaskPool`: turns are FIFO and tasks that wake together rejoin in the order they parked. Proved only:
`EveryTaskHasOnePlace` (every live task is queued once or parked once), `RoundServesAll` (tasks queued when a
round begins have their turn before it ends), `ReturnsWhenAllFinished`.

Processes. `ChildHasOwner`, `UndeliveredLaunchIsClean` and `PermitChecksHold` relate the runtime's records to the
kernel's child. `KeepsContract` refines `LaunchContract`: a launch has one outcome, and a cancel wins over a success that comes later.

Commits. `HeadIsWhole`, `PairsLandTogether`, `SeqNamesOneEvent`, `QuartetOnce`, `StartIsNeverRefused`
speak of the disk at every instant, also half-way through a call; `AckedIsKept`
and `StreamHasNoHole` of what clients and subscribers were told.
`ImplementsLedger` refines `RepoLedger`: as long as power losses are the only fault, no observer of the
disk can see a commit without its event or the reverse. `RestartSettles`: every start reaches `serving`.

Data lock. `OneHolder` and `RefusalHasAHolder`: a race leaves exactly one holder and never zero.
`LiveHolderIsKept`: a holder that was never silent is superseded by `--force-lock` alone.
`LateWriterIsTold`: a write after the loss may happen, since a check and a write are two steps, but no
heartbeat after it says that all is well. None of these has a liveness counterpart in the code: a start
that is never scheduled owes nobody anything.

Sessions. `EndedFamilyIsGone`: after a logout or a revocation was answered, no row of the family is left in memory or
on disk. `SentIsRemembered`: a token that was sent can be told from one that never was until its family ends, which is what lets a
copied token revoke the family. `OneReplayPerToken`, `GraceIsNotExtended` and `FamilyEndsInTime` bound what a
consumed token can be turned into. `SentIsRemembered` and `GraceIsNotExtended` are claimed as long as the clock was not set back.

Admission. `ChargesCoverBuffers`, `SlotsAreOwned` and `AnswersAreCharged`: what a census holds is the sum of what the
connections hold and of what was handed to waiters that have not resumed. `HeadroomIsOffered`: no read waits
beside room it fits in, except while a refusal is being sent. `SaturatedIsAWait`: the set of waiting
reads never waits on itself alone.

Command runner. `ResultsAreOwn`, `CallReturns`; proved only: `JobsAreLimited`, `NothingLeftBehind`, `ForeignStatusKept`.

Layout. `Balanced`, `LevelsEnclose`, `EndCloses`, the first and the last up to the depth whose queue a byte can count.

## 5. Where the code and its documents disagree

Shown by a run:

- `lock_drain`. `SIGTERM` ends the heartbeat loop (`pds/serve.mdk:1157`) while connections drain and commit for
  up to 95 seconds (`pds/shell/server.mdk:2079`); a start in that time takes the directory after three, and the
  draining process never learns of it. `pds/serve.mdk:1141` says that it beats for as long as it runs.

Met with the same modules, by changing the constants of the run named in parentheses or by stating the sentence
as a property of its module:

- A wake pass that finds a passed deadline or a set flag makes no poll (`stdlib/async.mdk:367`), so tasks that always
  come back that way keep a descriptor's task parked, against `stdlib/async.mdk:258-261` and "no starvation in
  either direction" (`docs/design/ASYNC-RUNTIME-DESIGN.md:133-135`). It is why `PolledDescriptorWakes` has its antecedent (`async_liveness`).
- A start promotes the event of a head whose rename nobody has flushed (`pds/shell/eventlog.mdk:285`); a power
  loss then takes the head and leaves the event, against `eventlog.mdk:15-16` and `:21-23`
  (`PairsLandTogether` under `{"crash", "power"}`, `commit_power`).
- A promotion that fails after the entry's rename answers 503 and leaves the event
  (`pds/shell/server.mdk:770`, against `:750-752`; under `{"error"}`, `commit_faults`).
- A directory made by a process that died before flushing it is never flushed by the next
  (`pds/shell/datadir.mdk:57`); a later power loss takes it from under a flushed head
  (`HeadIsWhole` under `{"crash", "power"}`, `commit_power`).
- When the flush behind the head's rename fails, the staged event is dropped though the head moved
  (`pds/shell/server.mdk:766`; `PairsLandTogether` under `{"error"}`, `commit_power`).
- When the pointer cannot be written after the entry was, the number is given out again
  (`pds/shell/eventlog.mdk:233`; `SeqNamesOneEvent` under `{"error"}`, `commit_power`).
- Expiry compares wall-clock seconds (`pds/lib/event_log_record.mdk:125`); after the clock is set back
  a sweep can leave a hole that no subscriber is told of (`StreamHasNoHole` under `{"clock"}`,
  `commit_faults`). A power loss after a sweep does the same, since its unlinks are not flushed
  (`StreamHasNoHole` under `{"power"}`, `commit_faults`).
- A deadline 2^31 milliseconds away wraps in `ioPoll`'s cast (`runtime/medaka_rt.c:4408`;
  `WaitsForNextDeadline` with a small `CIntMax`, `async_safety`).
- "A takeover only ever creates a name no one has used" (`pds/shell/dirlock.mdk:26`) is not so: a contender
  that listed the generations before a takeover may make a name that the takeover has removed since, when its
  own claim comes late (`lock_safety`). It is harmless, which is the point of `OneHolder` and its proof: such a
  name lies below a higher one, and the claimant's next heartbeat tells it.
- A write of the session set that fails after its rename leaves the file ahead of memory, so that a restart may end, or
  open, a session whose request was answered with a failure (`pds/shell/server.mdk:544` says that a failure leaves both at the old set; `Settle` in `sessions`).
- Freed bytes of the read budget are not always the queue's: "there is no instant at which freed bytes are unowned for an
  arriving read to take ahead of the queue" (`pds/shell/server.mdk:1488-1490`), but when the first waiter does not fit, a
  smaller read that arrives takes what is free, since `claimBufferBytes` does not look at the queue (`admission`).
- The un-framed census counts a connection only until its first request's headers are in (`server.mdk:1718`); a kept-alive
  connection that is slow with its second is not counted, so more than `maxUnframedConnections` can be un-framed, against
  `server.mdk:291-294` (`admission`).
- The list of egress waiters may be longer than there are slots, counting those that gave up (`server.mdk:1590-1592`); the
  waiters that count are not (`AnswersAreCharged`).
- When a read past its headers is refused at the front of the queue, those behind it that would fit are offered the room only
  once the refusal is sent, which may take longer than they wait (`server.mdk:2566`; this is the exception `HeadroomIsOffered` states).
- At 128 levels and more the scanner's count of queued tokens does not fit its byte and wraps to zero, and the queued DEDENTs are lost
  (`tree-sitter-medaka/src/scanner.c:90-93` says the queue is preserved; `Balanced` without `Countable`, `layout`).
- Two more of the scanner that no document speaks of: a line that begins with a string where one may stand gets its token
  ahead of queued DEDENTs, and blanks at the end of a line hide the newline from the scanner (both are steps of `LayoutScanner`).

## 6. Proofs

`AsyncSchedulerProofs` proves, for every set of tasks, descriptors, flags and deadlines:

| Theorem | Statement |
|---|---|
| `TypeCorrect` | `Spec => []TypeOK` |
| `OnePlace` | `Spec => []EveryTaskHasOnePlace` |
| `RoundFair` | `Spec => []RoundServesAll` |
| `AllFinishedOnReturn` | `Spec => []ReturnsWhenAllFinished` |
| `DeadlockPanicIsReal` | `Spec => []DeadlockIsReal` |
| `NoFlagSleptThrough` | `Spec => []NoWakeupSlept` |
| `NextDeadlineIsMet` | `DeadlinesFit` implies `Spec => []WaitsForNextDeadline` |
| `Refinement` | `Spec => ImplementsTaskPool`: the driver implements `TaskPool` |

From the four `ASSUME`s of `AsyncScheduler` only: the root is a task, tasks and flags have distinct
names, and the units of the clock are naturals. `MaxWaits` and `Faults` are arbitrary. `NextDeadlineIsMet`
has a hypothesis of its own, that every deadline in milliseconds fits the C `int` that `ioPoll` casts it to: without
it the property is false, which is the finding about `runtime/medaka_rt.c:4408` in section 5.

The argument. Where a task is can be read off `Queue`, the front list followed by the back list
reversed; `PopIsHead` and `PushIsAppend` show that the code's two-list operations are head and append
on it, across the reversal. `TurnPlaces` and `RejoinPlaces` then say where every task is after a turn
and after a wake pass. None of `EveryTaskHasOnePlace` and `RoundServesAll` is inductive alone: that a
task is not queued twice needs that it was not parked as well, and that nobody is still owed a turn
when a round ends needs that the owed tasks are the first `budget` of a queue without duplicates. `IInv` is
their conjunction with the types. The second invariant, `OutcomeInv`, adds `PassMayWait` (a pass may
wait only over an empty queue): with it, a driver that returns, panics or blocks has every live task
parked, and the wake pass has just looked at all of them. `NextDeadlineIsMet` follows `millisUntil` to the call: the
timeout is the least deadline of the park table rounded up, so the driver never sleeps past a deadline by a whole
millisecond, and no deadline of a parked task is left out of the minimum.

The refinement is a step simulation. `TaskPool` keeps its waiting tasks oldest first, the park table newest first, so the mapping
reverses it (`Mirror`), and the queue of the pool is `Queue`. A turn of the driver is a turn of the pool (`TurnServes`, `PushConcats`: what
a turn pushes and the list it pushes on become one append), a wake pass that rejoins tasks is one wake of exactly those
(`RejoinIsWake`: `rejoin` puts them back in the order they parked), and a poll that wakes nobody, the round's bookkeeping and a
sleep are stutters (`AllInOrder`). That a pass only blocks over an empty queue (`WaitsOverSomething`) makes the pool's idle step the right image.

`ProcessLaunchProofs` proves every safety property of `launch_safety`, for any number of processes, callers and
submission slots, any faults and any bound on generations:

| Theorem | Statement |
|---|---|
| `Invariance` | `Spec => []IInv` |
| `PermitChecks` | `Spec => []PermitChecksHold` |
| `ChildIsOwned` | `Spec => []ChildHasOwner` |
| `UndeliveredIsClean` | `Spec => []UndeliveredLaunchIsClean` |
| `Refinement` | `Spec => KeepsContract`: the launch implements `LaunchContract` |

From `SlotsExist` and `NoTicketIsNone` only: there is a slot, and the mark of a free slot is not a process.

The argument. A ticket, its child, its submission and the root process that owns a started child are four records of one launch, written
at different times by different actors, and what they must say of each other is the invariant. `Matches` ties a ticket to the
submission it names, by number and generation: a slot that was given out again has another generation, and the ticket knows
its outcome without it. `SlotOK` says what a slot may hold in each phase, `WorkerOK` what the worker has in hand in each of its steps, so that a stop
flag raised at either of its two looks is heeded at the other (`Heeded`) and a child it makes has its ticket waiting for it (`Waiting`) or its
result published (`Delivered`). The permits of the semaphore are counted against the slots that are queued, with `OneMoves`
reducing a step of an entry point to the new records of one launch. Each action has one lemma, which proves at once that the invariant
stays and that the step is a step of `LaunchContract` or a stutter (`Implements`); the theorems collect them.

`DataLockProofs` proves every property of `lock_safety`, for every set of runs, stale window, number of
attempts and bound:

| Theorem | Statement |
|---|---|
| `TypeCorrect` | `Spec => []TypeOK` |
| `OneHolderAlways` | `Spec => []OneHolder` |
| `LateWriterIsToldAlways` | `Spec => []LateWriterIsTold` |
| `RefusalHasAHolderAlways` | `Spec => []RefusalHasAHolder` |
| `LiveHolderIsKeptAlways` | `Spec => LiveHolderIsKept` |

From `LockConstants` only: the window and the attempts are positive, the bounds are naturals.

The argument. "No name is used twice" would make `OneHolder` plain, but it is false. `Held` puts in its place
that every owner's number is reached by some generation, that a run removes only names below its own, and
that two owners of one name are below a higher one. From the first two follows `HighestNeverDrops`: the
highest generation never goes down. So whoever makes a name again makes it below a higher one, and is no
holder; and a run that once wrote too late stays superseded, so that its next heartbeat says so.
`RefusalHasAHolder` needs `Untouched`, what a directory looks like until the first claim, and `Taken`, which
the first claim establishes and no step undoes. `LiveHolderIsKept` needs an invariant about time: `Watched`
says that a contender still in its watch, with the heartbeat as it first saw it, faces a holder whose last
heartbeat is at least as long ago as the watch has lasted (`Overdue`), which rests on every heartbeat seen
being older than the clock by the length of the watch (`SeenBefore`). When the watch is over the holder
has been silent for a whole window.

`SessionsProofs` proves every property of `sessions`, for every set of tokens, lifetimes, window and faults:

| Theorem | Statement |
|---|---|
| `Invariance` | `Spec => []IInv`, with it the types of every row |
| `EndedIsGone` | `Spec => []EndedFamilyIsGone` |
| `SentStaysKnown` | `Spec => []SentIsRemembered` |
| `OneReplayOpen` | `Spec => []OneReplayPerToken` |
| `GraceHolds` | `Spec => []GraceIsNotExtended` |
| `FamilyEndsOnTime` | `Spec => []FamilyEndsInTime` |

From `SessionConstants`, above all `FamilyLifetime <= RefreshLifetime`, which the source's comment demands.

The argument. The published set, the file and every successor are session sets, so the invariant is stated of any one
of them (`Sound`), and each of the four operations on a set is shown to keep it; a step then only replaces one set by another. The
core is `Linked`: a session that a replay opened is the one its consumed token's record names, and
ends with it. That is what `OneReplayPerToken` says indirectly, and what `SentIsRemembered` needs: a replay
supersedes exactly the session the record names, so nothing else is ever closed. A file that is ahead of memory is sound
too, which is why a failed write and a restart cost nothing but the families in `lost`.

`CommandBatchProofs` proves, for every number of rows, jobs and pids:

| Theorem | Statement |
|---|---|
| `TypeCorrect` | `Spec => []TypeOK` |
| `JobsAreLimitedAlways` | `Spec => []JobsAreLimited` |
| `ResultsAreOwnAlways` | `Spec => []ResultsAreOwn` |
| `NothingLeftBehindAlways` | `Spec => []NothingLeftBehind` |
| `ForeignStatusKeptAlways` | `Spec => ForeignStatusKept` |

From `BatchAssumption` only. The argument: `Owned` ties the kernel's table to the array of pids in both directions, so the
children of the call are in bijection with the rows counted as running (`Counted`) as long as no status was stolen, and
inject into them when one was; `Outcomes` keeps a zombie's status equal to what its row ended with until the sweep takes it.

`LayoutScannerProofs` proves every property of `layout`, for every document, every depth of the stack and every width of the saved counts:

| Theorem | Statement |
|---|---|
| `TypeCorrect` | `Spec => []TypeOK` |
| `BalancedAlways` | `Spec => []Balanced` |
| `LevelsEncloseAlways` | `Spec => []LevelsEnclose` |
| `EndClosesAlways` | `Spec => []EndCloses` |

From `ScannerAssumption` only, with it the source's own order of `STACK_MAX`, `PENDING_MAX`, a byte and the buffer. The argument:
all that a call knows is the buffer, so `RoundTrip` comes first: a state read back is the state that was saved, or, when the queue's length is the one
number that does not fit its byte, its stack with nothing queued. `Sound` says what the buffer reads back as, `Placed` that each level above the ground
was opened by a line the parser was told of, with no such line left of it since (a line whose newline was hidden by blanks or a string is not), `Accounted` that a queue is always
the tail of one closing, NEWLINE and DEDENT in turn, so that half its length is what it still owes. None is inductive without the others: a level
is opened above `Last(Stack)` only because the line before was placed, and `EndCloses` needs the queue to be empty and the stack to be the ground.

`AdmissionProofs` proves every property of `admission`, for every number of connections and every set of limits:

| Theorem | Statement |
|---|---|
| `Invariance` | `Spec => []IInv` |
| `TypeCorrect` | `Spec => []TypeOK` |
| `BudgetIsWhatIsCharged` | `Spec => []ChargesCoverBuffers` |
| `HeadroomReachesWaiters` | `Spec => []HeadroomIsOffered` |
| `SaturationEnds` | `Spec => []SaturatedIsAWait` |
| `SlotsBelongToCalls` | `Spec => []SlotsAreOwned` |
| `EgressBelongsToAnswers` | `Spec => []AnswersAreCharged` |

From `AdmissionConstants` only; `SaturationEnds` is the one that needs its inequality. The argument: the three censuses are one kind of
thing, so the lemmas are about any of them. `Lined` says that the live entries of a census's queue are those parked at it and not granted, once each and with what each
asks for, and that entries of waiters that gave up ask for nothing; `Kept` that what is held is the sum of what every connection owns and of what the granted
ones asked for; `Blocked` that the first waiter does not fit. `KeptClaim`, `KeptEnqueue`, `KeptTaken`, `KeptAbandon`, `KeptRelease` and
`KeptSlot` say what each operation does to the three, with `GrantWithin` and its greatest prefix as the hard one, and are then instantiated with bytes, slots and
answers. Those who wait for a slot or an answer all ask for as much, so nobody else fits in once a waiter gives up (`AbandonBlocked`); reads do not,
and `Offered` is the weaker fact that holds of them. `Fits` relates one connection's buffer, scan, charge and park: that a read's charge
covers it, and that a header waits with no more than `MaxHeader + Chunk`. `SaturationEnds` adds these up: were all charges those of
waiting reads, the first of them would fit. The module's first lemmas prove that the library's fold of `+` adds up as a sum should (one element more,
one value changed, two disjoint sets, another numbering), by counting the cells of a bar chart instead of by induction on the set.

`CommitLogProofs` proves all but one of the safety properties of `commit_power` and `commit_faults`, for every bound, every number of shards and of blocks, any
subscribers and any retention:

| Theorem | Statement |
|---|---|
| `Invariance` | `Spec => []Base` |
| `AckedIsKeptAlways` | `Spec => []AckedIsKept` |
| `QuartetOnceAlways` | `Spec => []QuartetOnce` |
| `SturdyInvariance` | `FaultsApart` implies `Spec => []Sturdy` |
| `HeadIsWholeAlways` | `FaultsApart` implies `Spec => []HeadIsWhole` |
| `StartIsNeverRefusedEver` | `FaultsApart` implies `Spec => []StartIsNeverRefused` |
| `NumbersInvariance` | `WritesSucceed` implies `Spec => []Counted` |
| `SeqNamesOneEventAlways` | `WritesSucceed` implies `Spec => []SeqNamesOneEvent` |
| `TracedInvariance` | `WritesSucceed` implies `Spec => []Traced` |
| `SentIsUnderHeadAlways` | `WritesSucceed` implies `Spec => []SentIsUnderHead`: no commit in the log, or sent to a subscriber, is ever rolled back |
| `PairsInvariance` | `Windowed` and `WritesSucceed` imply `Spec => []Paired` |
| `PairsLandTogetherAlways` | `Windowed` and `WritesSucceed` imply `Spec => []PairsLandTogether` |
| `LedgerImplemented` | `Windowed` and `WritesSucceed` imply `Spec => ImplementsLedger`: the directory implements `RepoLedger` |

From `FaultsAreKnown` and `BoundsAreNumbers`: the bounds are naturals and leave room for a genesis and its quartet. The first three
theorems allow every fault the module has. `FaultsApart` leaves out a damaged file, and allows power losses only where there are neither
deaths nor failed operations; deaths, failed operations and a wrong clock may otherwise come in any number and order. It is what the code needs: with a death or a failed
operation before a power loss both properties are false, which are findings of section 5, and a damaged file is no directory this program wrote.
`WritesSucceed` is `FaultsApart` without failed operations, since one failed write of the pointer gives a number out again (the finding at
`pds/shell/eventlog.mdk:233`): power losses and a wrong clock, or deaths and a wrong clock, remain. `Windowed` is `MaxTime <= Retention`, that
the behaviour is shorter than the log's window: `PairsLandTogether` and the ledger speak of all the commits under the head, and a log that has swept
its oldest events no longer lists them. `commit_power` satisfies both hypotheses.

The argument. What a file may come to show is `Ver`: its contents and the versions no flush has put away. The invariant speaks of `Ver` and of `Coming`, what the call in
progress still has to put on a file, so that a power loss, which picks any version, changes nothing it says. A call is a script of operations written when the call begins;
the lemmas on sequences say what the scripts of `persistSave`, `eventLogStage`, `eventLogPromote` and a sweep contain and in which order, and every
step is then one of nine shapes (`Turns`): one operation of the script done, the beginning of a call of one of five kinds, a failed operation, a power loss, or
a step that leaves the disk alone. `Base` holds whatever goes wrong: no version of the head is below an acknowledged commit, an event that is staged is of the commit in hand and
numbered five or more once requests are served. `FlushedOK` says of every file whose survival a
later call counts on (`Kept`) that it is flushed or will be by a barrier the call still has, `Tidy` that a barrier of the script follows every rename it has to cover. `WholeOK` needs both: before the
head's rename, each block and each directory above it has landed (`Lands`), that is, it is on the disk for good by the time the script reaches the
rename. `OrderOK` is the same fact for the pending copy, which goes only once the pointer that counts its entry has landed; a start that finds
no pointer beside a log therefore finds the pending entry too, and never refuses.

`NumbersOK` is about `Seen`, every event that the log may show or that some subscriber was, or is about to be, sent. No two of them share a number, and
the pointer, in every version the disk may show, counts each of them; the one exception is the event of a pending copy that the next start
will promote (`Pending`). A call that stages gives a number above all of them, a call that rests finds all of them counted, and between the two the pending copy
goes only once the pointer that counts its event has landed, which is `OrderOK` again. So neither a power loss nor a death makes
the number of an event that a subscriber holds free, even if the log has lost the event.

`Traced` follows a commit from the moment its event is staged. `PlacedOK` says which versions the head's file may hold in each call: the store's commit, or, while
`persistSave` runs, that or the commit in hand; and, as long as the file may be missing, that nothing was staged or counted. `ToldOK` says that an event anyone has seen is of a
commit under every version of the head, and that in the order of their numbers the events' commits ascend (`Known` adds the pending copy to `Seen`). `DirsOK` says that the log's directories have landed
before anything is put in them, without which a power loss could take an entry with its directory. `SentIsUnderHead` follows from these alone, window or not.

`PairsOK` is the converse, from the head to the log. It is asked only of a head that the quartet has opened (`Opens`): one that has a parent, or whose log counts three events or
is about to. For each version of such a head every commit below it is in the log for good (`InLog`), but for the head itself, whose event may still be the pending copy (`Owing`); before
a script removes the pending copy, it is in the log by then (`LogBy`); and a call that begins or rests finds it so of the store's head. The last is what a power loss in the
middle of `persistSave` falls back on: the older head's event was in the log before the younger's was staged. `PairsLandTogether` is read off
the two halves, `HeadIsAnnounced` for a head that is opened and `UnopenedIs` for one that is not.

The refinement maps the head of the ledger to the head's file and its log to the commits of the announced events, by number. `InOrderIs` says what `InSeqOrder` lists and in what order,
for any set of events; with `ToldOK` the list ascends (`HistoryAscends`), and a set of numbers is listed in one way only (`AscendsOnce`). A step can therefore be told by what it does to the head and to the set `Announced`
(`Stays`, `Founds`, `Opened`, `Grows`, `Loses`, `Acks`), and `MovesAreLedger` turns each of these into a step of `RepoLedger`. The head moves in two ways only: `Work` puts `persistSave`'s commit
in place (`WorkMovesLedger`), or a power loss picks one of the two versions that `TwoHeads` allows (`LossMovesLedger`); where it stays, the log gains or loses the genesis or nothing
(`HeadStays`). An acknowledged commit is never the one that is lost, which is `HeadsOK` of `Base`.

Only model-checked: liveness (`RestartSettles` and the other `~>` properties), which is out of the prover's reach, and `StreamHasNoHole` of `CommitLog`, which
needs the window to be without gaps and so holds only without the clock and power faults.

## 7. Not modelled

Reading and writing a child's pipes, decoding of spawn options, blob and preference rows, the encoding and signing
of tokens, the sweeps of staging directories, WebSocket framing and everything under "not modelled" in the inventory's
last rows. The compiler's passes and the pure libraries are functions over unbounded data with no state
between calls; they are tested by golden files and by self-compilation and are left out. Two servers in
one data directory are excluded by the directory lock, which `CommitLog` takes for granted and `DataLock` is about;
what two writers would do to each other's files in the time `lock_drain` shows is not modelled.

Most of the repository's C is `tree-sitter-medaka/src/parser.c`, 59 210 generated lines of tables. The table of external
tokens in it is what `LayoutScanner!ValidSets` translates; the other tables are the grammar, data that tree-sitter's own
library interprets. What else is written in C in `runtime/medaka_rt.c` are primitives of one call each (allocation, strings, arrays,
files, sockets) with no order of steps to check. The system's own logic is written in Medaka, and the modules follow it there.

## 8. Plan

In order:

1. Done: `AsyncScheduler`, `TaskPool`; `ProcessLaunch`, `LaunchContract`; `CommitLog`, `RepoLedger`; `DataLock`; `Sessions`;
   `Admission`; `CommandBatch`; `LayoutScanner`; the proofs of section 6.
2. Proofs: `StreamHasNoHole` of `CommitLog`.
3. `ProcessAsync` (`stdlib/process_async.mdk`) over `LaunchContract` and `TaskPool`: no ticket is lost when
   a deadline or a cancel races the hand-over.
4. `RateLimit` (`pds/lib/ratelimit.mdk`): the sliding estimate against a log of charges, the capacity bound, and a clock set back.
5. Bounded checks of pure algorithms: the tree shape of `pds/lib/mst.mdk`, dead-code elimination's
   reachability (`compiler/ir/dce.mdk`), the build's module order (`compiler/driver/loader.mdk`).
