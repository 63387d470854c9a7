------------------------------ MODULE CommitLog ------------------------------
(***************************************************************************)
(* Durability of one account's repository and firehose log in the PDS:     *)
(* the head pointer, the block files it reaches, and the event log that    *)
(* announces each commit (pds/shell/{persist,blockfile,eventlog,datadir},  *)
(* the writer in pds/shell/server, start-up in pds/serve, subscribers in   *)
(* pds/shell/subscribe).                                                   *)
(*                                                                         *)
(* One process writes, one step at a time; every rename, removal, mkdir    *)
(* and directory fsync is a step of its own, so it may die, lose power or  *)
(* be refused by the kernel between any two.  Files staged and not yet     *)
(* renamed are left out: each is flushed before its rename and nothing but *)
(* a sweep ever looks at one again.                                        *)
(***************************************************************************)
EXTENDS Integers, Sequences, FiniteSets, SequencesExt

CONSTANTS
  Relay,          \* subscribers of the firehose
  Faults,         \* which of "crash", "power", "error", "clock", "damage" occur
  MaxFaults,      \* bound: faults in one behaviour
  MaxCommits,     \* bound: commits requested or founded, retried ones included
  MaxSeq,         \* bound: requests stop when the log has numbered this many
  MaxTime,        \* bound: the last second of the clock
  Retention,      \* eventLogRetentionSeconds
  SweepInterval,  \* eventLogSweepInterval
  ShardCount,     \* shard directories under blocks/ (256 in the code)
  BlocksPerCommit \* blocks a commit's graph adds to its parent's

ASSUME FaultsAreKnown == 
  Faults \subseteq {"crash", "power", "error", "clock", "damage"}
ASSUME BoundsAreNumbers ==
  /\ {MaxFaults, MaxCommits, MaxSeq, MaxTime, Retention} \subseteq Nat
  /\ {SweepInterval, ShardCount, BlocksPerCommit} \subseteq Nat \ {0}
  /\ MaxCommits >= 1 /\ MaxSeq >= 4       \* a genesis and its quartet fit

VARIABLES
  cache,    \* what the running kernel shows of each file: its contents
  media,    \* what each file may hold after a power loss
  prior,    \* prior[c]: the commit c was made on top of, 0 for a genesis
  up,       \* "down", "starting", "serving" or "refused"
  at,       \* the call in progress
  todo,     \* the disk operations that call has left
  commit,   \* the commit in hand, 0 when there is none
  store,    \* the head of the repository in memory
  clock,    \* Unix seconds
  relay,    \* each subscriber's connection and what it has received
  acked,    \* history: commits the client was told were written
  faults    \* faults so far

diskVars == <<cache, media>>
vars == <<cache, media, prior, up, at, todo, commit, store, clock, relay,
          acked, faults>>

-----------------------------------------------------------------------------
(* Files and their contents *)

Root == <<"root", 0, 0>>
HeadFile == <<"head", 0, 0>>
BlocksDir == <<"blocks", 0, 0>>
BlockStaging == <<"blockStaging", 0, 0>>
Shard(i) == <<"shard", i, 0>>
Block(c, i) == <<"block", c, i>>
Events == <<"events", 0, 0>>
EventStaging == <<"eventStaging", 0, 0>>
Staged == <<"staged", 0, 0>>
LastFile == <<"last", 0, 0>>
Entries == <<"entries", 0, 0>>
Entry(e) == <<"entry", e[2], e[3]>>     \* named by sequence number and time

Commits == 1..(MaxCommits + MaxFaults)
ShardOf(c, i) == (c + i) % ShardCount

File ==
  {Root, HeadFile, BlocksDir, BlockStaging, Events, EventStaging, Staged,
   LastFile, Entries}
    \cup {Shard(i) : i \in 0..(ShardCount - 1)}
    \cup {Block(c, i) : c \in Commits, i \in 1..BlocksPerCommit}
    \cup {<<"entry", s, t>> : s \in 1..MaxSeq, t \in 0..MaxTime}

\* The directory that holds a file's own entry.
Home(f) ==
  CASE f[1] \in {"root", "head", "blocks", "events"} -> Root
    [] f[1] \in {"blockStaging", "shard"} -> BlocksDir
    [] f[1] = "block" -> Shard(ShardOf(f[2], f[3]))
    [] f[1] \in {"eventStaging", "staged", "last", "entries"} -> Events
    [] f[1] = "entry" -> Entries

Nothing == <<"nothing", 0, 0, 0>>
Folder == <<"folder", 0, 0, 0>>
Bytes == <<"bytes", 0, 0, 0>>
Cid(c) == <<"cid", c, 0, 0>>
Pointer(s) == <<"seq", s, 0, 0>>
Genesis == <<"identity", "account", "commit", "sync">>
Kinds == {Genesis[i] : i \in 1..4}
\* kind, sequence number, time, and the commit anchored to (0: none)
Event == Kinds \X (1..MaxSeq) \X (0..MaxTime) \X ({0} \cup Commits)
Content == {Nothing, Folder, Bytes} \cup {Cid(c) : c \in Commits}
             \cup {Pointer(s) : s \in 1..MaxSeq} \cup Event

Exists(f) == cache[f] # Nothing
DiskHead == IF Exists(HeadFile) THEN cache[HeadFile][2] ELSE 0
LastSeq == IF Exists(LastFile) THEN cache[LastFile][2] ELSE 0
NextSequence == LastSeq + 1
EntryFiles == {f \in File : f[1] = "entry" /\ Exists(f)}
LogEntries == {cache[f] : f \in EntryFiles}
InSeqOrder(E) ==
  FlattenSeq([s \in 1..MaxSeq |-> SetToSeq({e \in E : e[2] = s})])

-----------------------------------------------------------------------------
(* Disk operations *)

Put(f, v) == [op |-> "put", file |-> f, content |-> v]
Sync(d) == [op |-> "sync", file |-> d, content |-> Nothing]
Unlink(f) == Put(f, Nothing)

\* A step on the kernel's view; a power loss may keep any unflushed version.
Apply(step) ==
  IF step.op = "put"
    THEN /\ cache' = [cache EXCEPT ![step.file] = step.content]
         /\ media' = [media EXCEPT ![step.file] = @ \cup {step.content}]
    ELSE /\ media' = [f \in File |-> IF Home(f) = step.file THEN {cache[f]}
                                                            ELSE media[f]]
         /\ UNCHANGED cache

\* Mutant: a directory just made is not flushed into its parent.
EnsureDirNoBarrier(d) == IF Exists(d) THEN <<>> ELSE <<Put(d, Folder)>>

EnsureDir(d) ==
  IF Exists(d) THEN <<>> ELSE <<Put(d, Folder), Sync(Home(d))>>

\* Mutant: the rename is not followed by a flush of its directory.
ReplaceNoBarrier(f, v) == <<Put(f, v)>>

Replace(f, v) == <<Put(f, v), Sync(Home(f))>>

-----------------------------------------------------------------------------
(* Blocks and head: persistSave *)

Rows(c) == [i \in 1..BlocksPerCommit |-> Block(c, i)]

WriteOne(c, i) ==
  (IF \E j \in 1..(i - 1) : ShardOf(c, j) = ShardOf(c, i)
     THEN <<>> ELSE EnsureDir(Home(Rows(c)[i])))
    \o <<Put(Rows(c)[i], Bytes)>>

\* Mutant: the shard directories are not flushed.
BlockFileWriteNoBarrier(c) ==
  EnsureDir(BlocksDir) \o EnsureDir(BlockStaging)
    \o FlattenSeq([i \in 1..BlocksPerCommit |-> WriteOne(c, i)])

BlockFileWrite(c) ==
  EnsureDir(BlocksDir) \o EnsureDir(BlockStaging)
    \o FlattenSeq([i \in 1..BlocksPerCommit |-> WriteOne(c, i)])
    \o SetToSeq({Sync(Home(Rows(c)[i])) : i \in 1..BlocksPerCommit})

PersistSave(c) == BlockFileWrite(c) \o Replace(HeadFile, Cid(c))

\* A commit, and every commit below it.
Chain(c) ==
  LET below[n \in 0..Len(prior)] ==
        IF n = 0 THEN {} ELSE {n} \cup below[prior[n]]
  IN below[c]

GraphWhole(c) ==
  \A b \in Chain(c), i \in 1..BlocksPerCommit : Exists(Block(b, i))

-----------------------------------------------------------------------------
(* The event log: stage, promote, sweep, recover *)

EventOf(kind, anchor) == <<kind, NextSequence, clock, anchor>>

Stage(e) == EnsureDir(Events) \o EnsureDir(EventStaging) \o Replace(Staged, e)

DiscardStaged == IF Exists(Staged) THEN <<Unlink(Staged)>> ELSE <<>>

Expired(e) == clock - e[3] > Retention

Sweep(E) ==
  LET dropped == InSeqOrder({e \in E : Expired(e)})
  IN [i \in DOMAIN dropped |-> Unlink(Entry(dropped[i]))]

SweepIfDue(e) ==
  IF (e[2] % SweepInterval) = 0 THEN Sweep(LogEntries \cup {e}) ELSE <<>>

LogDirs == EnsureDir(Events) \o EnsureDir(Entries) \o EnsureDir(EventStaging)

\* Mutant: the pending copy goes before the entry is written.
PromoteForgetFirst(e) ==
  LogDirs \o <<Unlink(Staged)>> \o Replace(Entry(e), e)
    \o Replace(LastFile, Pointer(e[2])) \o SweepIfDue(e)

Promote(e) ==
  LogDirs \o Replace(Entry(e), e) \o Replace(LastFile, Pointer(e[2]))
    \o <<Unlink(Staged)>> \o SweepIfDue(e)

\* Mutant: a pending entry is finished whatever head was persisted.
OwedAlways(e) == TRUE

\* Mutant: an entry that anchors to nothing is dropped.
OwedAnchored(e) == e[4] # 0 /\ e[4] = DiskHead

Owed(e) == e[4] = 0 \/ e[4] = DiskHead

\* Mutant: a start leaves the pending entry where it is.
RecoveryNone == <<>>

Recovery ==
  CASE ~Exists(Staged) -> <<>>
    [] Exists(Staged) /\ Owed(cache[Staged]) -> Promote(cache[Staged])
    [] OTHER -> DiscardStaged

-----------------------------------------------------------------------------
(* The process *)

Disconnected ==
  [r \in Relay |-> [relay[r] EXCEPT !.on = FALSE, !.batch = <<>>]]

Init ==
  /\ cache = [f \in File |-> IF f = Root THEN Folder ELSE Nothing]
  /\ media = [f \in File |-> {cache[f]}]
  /\ prior = <<>>
  /\ up = "down" /\ at = "idle" /\ todo = <<>> /\ commit = 0 /\ store = 0
  /\ clock = 0
  /\ relay = [r \in Relay |->
               [on |-> FALSE, batch |-> <<>>, cursor |-> 0, floor |-> 0,
                got |-> {}]]
  /\ acked = {} /\ faults = 0

Call(name, steps) == at' = name /\ todo' = steps
Free == up = "serving" /\ at = "idle"

Work ==
  /\ todo # <<>>
  /\ Apply(Head(todo))
  /\ todo' = Tail(todo)
  /\ UNCHANGED <<prior, up, at, commit, store, clock, relay, acked, faults>>

-----------------------------------------------------------------------------
(* Start-up: configure *)

\* The operator passes --init exactly when there is no head yet.
StartNew ==
  /\ up = "down" /\ ~Exists(HeadFile)
  /\ up' = "starting"
  /\ prior' = Append(prior, 0)
  /\ Call("init", PersistSave(Len(prior) + 1))
  /\ UNCHANGED <<cache, media, commit, store, clock, relay, acked, faults>>

StartAgain ==
  /\ up = "down" /\ Exists(HeadFile) /\ GraphWhole(DiskHead)
  /\ up' = "starting"
  /\ Call("init", <<>>)
  /\ UNCHANGED <<cache, media, prior, commit, store, clock, relay, acked,
                 faults>>

\* repoFromBlocks refuses a graph that is not all there.
StartRefused ==
  /\ up = "down" /\ Exists(HeadFile) /\ ~GraphWhole(DiskHead)
  /\ up' = "refused"
  /\ UNCHANGED <<cache, media, prior, at, todo, commit, store, clock, relay,
                 acked, faults>>

Recover ==
  /\ at = "init" /\ todo = <<>>
  /\ store' = DiskHead
  /\ Call("recover", Recovery)
  /\ UNCHANGED <<cache, media, prior, up, commit, clock, relay, acked, faults>>

\* requireRecoveryApplied and refuseLostPointer.
LogContradicts == Exists(Staged) \/ (LastSeq = 0 /\ EntryFiles # {})

RefuseLog ==
  /\ at = "recover" /\ todo = <<>> /\ LogContradicts
  /\ up' = "refused" /\ Call("idle", <<>>)
  /\ UNCHANGED <<cache, media, prior, commit, store, clock, relay, acked,
                 faults>>

\* The next sequence number is the number of the next genesis event.
EmitGenesis ==
  /\ at = "recover" /\ todo = <<>> /\ ~LogContradicts
  /\ NextSequence \in 1..4
  /\ LET kind == Genesis[NextSequence]
     IN Call("stage", Stage(EventOf(kind, IF kind = "commit" THEN store ELSE 0)))
  /\ UNCHANGED <<cache, media, prior, up, commit, store, clock, relay, acked,
                 faults>>

\* Mutant: the quartet is left unfinished by a start that did not begin it.
ServeUnfinished ==
  /\ at = "recover" /\ todo = <<>> /\ ~LogContradicts
  /\ NextSequence > 1
  /\ up' = "serving" /\ Call("idle", <<>>)
  /\ UNCHANGED <<cache, media, prior, commit, store, clock, relay, acked,
                 faults>>

Serve ==
  /\ at = "recover" /\ todo = <<>> /\ ~LogContradicts
  /\ NextSequence > 4
  /\ up' = "serving" /\ Call("idle", <<>>)
  /\ UNCHANGED <<cache, media, prior, commit, store, clock, relay, acked,
                 faults>>

-----------------------------------------------------------------------------
(* Requests: applyRequest *)

\* A request whose handler makes a commit: persistRepoHalf begins.
RequestCommit ==
  /\ Free
  /\ Len(prior) < MaxCommits /\ NextSequence <= MaxSeq
  /\ prior' = Append(prior, store)
  /\ commit' = Len(prior) + 1
  /\ Call("stage", Stage(EventOf("commit", Len(prior) + 1)))
  /\ UNCHANGED <<cache, media, up, store, clock, relay, acked, faults>>

\* A request that announces the account and makes no commit (updateHandle).
RequestIdentity ==
  /\ Free
  /\ NextSequence <= MaxSeq
  /\ Call("stage", Stage(EventOf("identity", 0)))
  /\ UNCHANGED <<cache, media, prior, up, commit, store, clock, relay, acked,
                 faults>>

PersistRepo ==
  /\ at = "stage" /\ todo = <<>> /\ commit # 0
  /\ Call("persist", PersistSave(commit))
  /\ UNCHANGED <<cache, media, prior, up, commit, store, clock, relay, acked,
                 faults>>

PromoteEntry ==
  /\ todo = <<>>
  /\ at = "persist" \/ (at = "stage" /\ commit = 0)
  /\ Call("promote", Promote(cache[Staged]))
  /\ UNCHANGED <<cache, media, prior, up, commit, store, clock, relay, acked,
                 faults>>

Answer ==
  /\ at = "promote" /\ todo = <<>>
  /\ IF up = "starting"
       THEN Call("recover", <<>>) /\ UNCHANGED <<commit, store, acked>>
       ELSE /\ Call("idle", <<>>)
            /\ commit' = 0
            /\ store' = IF commit # 0 THEN commit ELSE store
            /\ acked' = IF commit # 0 THEN acked \cup {commit} ELSE acked
  /\ UNCHANGED <<cache, media, prior, up, clock, relay, faults>>

\* A failed persist takes the staged entry back before it answers.
DropStaged ==
  /\ at = "discard" /\ todo = <<>>
  /\ Call("idle", <<>>)
  /\ commit' = 0
  /\ UNCHANGED <<cache, media, prior, up, store, clock, relay, acked, faults>>

-----------------------------------------------------------------------------
(* Faults *)

Fault(kind) ==
  /\ kind \in Faults /\ faults < MaxFaults
  /\ faults' = faults + 1

\* Mutant: a failed operation of a persist is passed over.
DiskErrorPassedOver ==
  /\ Fault("error") /\ todo # <<>> /\ up = "serving" /\ at = "persist"
  /\ todo' = Tail(todo)
  /\ UNCHANGED <<cache, media, prior, up, at, commit, store, clock, relay, acked>>

\* A disk operation fails: the call stops there.
DiskError ==
  /\ Fault("error") /\ todo # <<>>
  /\ CASE up = "starting" ->
            up' = "down" /\ Call("idle", <<>>) /\ UNCHANGED commit
       [] up = "serving" /\ at = "persist" ->
            Call("discard", DiscardStaged) /\ UNCHANGED <<up, commit>>
       [] OTHER ->
            /\ Call("idle", <<>>)
            /\ commit' = 0
            /\ UNCHANGED up
  /\ UNCHANGED <<cache, media, prior, store, clock, relay, acked>>

Die ==
  /\ up' = "down" /\ Call("idle", <<>>)
  /\ commit' = 0 /\ store' = 0
  /\ relay' = Disconnected
  /\ UNCHANGED <<prior, clock, acked>>

Crash ==
  /\ Fault("crash") /\ up # "down"
  /\ Die
  /\ UNCHANGED <<cache, media>>

\* What is left: one of the versions each file may hold, and nothing below a
\* directory that is gone.
Loose == {f \in File : Cardinality(media[f]) > 1}
Versions == UNION {media[f] : f \in Loose}

PowerLoss ==
  /\ Fault("power")
  /\ \E o \in {p \in [Loose -> Versions] : \A f \in Loose : p[f] \in media[f]} :
       LET kept == [f \in File |-> IF f \in Loose THEN o[f] ELSE
                                   CHOOSE v \in media[f] : TRUE]
       IN cache' = [f \in File |->
                     IF \A d \in {Home(f), Home(Home(f))} : kept[d] # Nothing
                       THEN kept[f] ELSE Nothing]
  /\ media' = [f \in File |-> {cache'[f]}]
  /\ Die

\* Something other than this program removes the pointer file or a block of the head.
FileDamaged ==
  /\ Fault("damage") /\ up = "down"
  /\ \E f \in {LastFile} \cup {Block(c, 1) : c \in Chain(DiskHead)} :
       /\ cache' = [cache EXCEPT ![f] = Nothing]
       /\ media' = [media EXCEPT ![f] = {Nothing}]
  /\ UNCHANGED <<prior, up, at, todo, commit, store, clock, relay, acked>>

-----------------------------------------------------------------------------
(* Subscribers: openStream, gradeCursor, sendEntries, pollLog *)

After(cursor) == InSeqOrder({e \in LogEntries : e[2] > cursor})

\* Mutant: a gap is reported only when nothing at all can be replayed.
OutdatedEmptyOnly(wanted, replay) == replay = <<>> /\ wanted < LastSeq

Outdated(wanted, replay) ==
  IF replay = <<>> THEN wanted < LastSeq ELSE replay[1][2] > wanted + 1

\* floor: what the subscriber has been told, or knows, it will not be sent.
Subscribe(r) ==
  LET me == relay[r]
      wanted == me.cursor
      replay == After(wanted)
  IN /\ Free /\ ~relay[r].on /\ wanted <= LastSeq
     /\ relay' = [relay EXCEPT ![r] =
          [me EXCEPT !.on = TRUE, !.batch = replay,
                     !.floor = IF ~Outdated(wanted, replay) THEN me.floor
                               ELSE IF replay = <<>> THEN LastSeq
                               ELSE replay[1][2] - 1]]
     /\ UNCHANGED <<cache, media, prior, up, at, todo, commit, store, clock,
                    acked, faults>>

\* A client that sends no cursor asks for the live tail.
SubscribeLive(r) ==
  /\ Free /\ ~relay[r].on
  /\ relay' = [relay EXCEPT ![r] =
       [relay[r] EXCEPT !.on = TRUE, !.cursor = LastSeq, !.floor = LastSeq]]
  /\ UNCHANGED <<cache, media, prior, up, at, todo, commit, store, clock,
                 acked, faults>>

Send(r) ==
  /\ Free /\ relay[r].batch # <<>>
  /\ LET me == relay[r]
         e == Head(me.batch)
     IN relay' = [relay EXCEPT ![r] =
          [me EXCEPT !.batch = Tail(me.batch), !.cursor = e[2],
                     !.got = me.got \cup {e}]]
  /\ UNCHANGED <<cache, media, prior, up, at, todo, commit, store, clock,
                 acked, faults>>

PollLog(r) ==
  /\ Free /\ relay[r].on /\ relay[r].batch = <<>>
  /\ LastSeq > relay[r].cursor
  /\ relay' = [relay EXCEPT ![r].batch = After(relay[r].cursor)]
  /\ UNCHANGED <<cache, media, prior, up, at, todo, commit, store, clock,
                 acked, faults>>

Leave(r) ==
  /\ Free /\ relay[r].on
  /\ relay' = [relay EXCEPT ![r].on = FALSE, ![r].batch = <<>>]
  /\ UNCHANGED <<cache, media, prior, up, at, todo, commit, store, clock,
                 acked, faults>>

-----------------------------------------------------------------------------
(* The clock, read once by a request or a start *)

\* A connected subscriber polls far more often than the window is long.
PollsAreTimely ==
  \A r \in Relay : relay[r].on =>
    \A e \in LogEntries : e[2] > relay[r].cursor => clock + 1 - e[3] <= Retention

Tick ==
  /\ at = "idle" /\ clock < MaxTime /\ PollsAreTimely
  /\ clock' = clock + 1
  /\ UNCHANGED <<cache, media, prior, up, at, todo, commit, store, relay,
                 acked, faults>>

\* The wall clock is set back.
ClockStepsBack ==
  /\ Fault("clock") /\ at = "idle" /\ clock > 0
  /\ clock' \in 0..(clock - 1)
  /\ UNCHANGED <<cache, media, prior, up, at, todo, commit, store, relay,
                 acked>>

-----------------------------------------------------------------------------
Process ==
  \/ Work \/ Recover \/ RefuseLog \/ EmitGenesis \/ Serve
  \/ PersistRepo \/ PromoteEntry \/ Answer \/ DropStaged
Operator == StartNew \/ StartAgain \/ StartRefused
Client == RequestCommit \/ RequestIdentity
Subscriber(r) ==
  Subscribe(r) \/ SubscribeLive(r) \/ Send(r) \/ PollLog(r) \/ Leave(r)
Environment ==
  DiskError \/ Crash \/ PowerLoss \/ FileDamaged \/ Tick \/ ClockStepsBack

Next == Process \/ Operator \/ Client \/ (\E r \in Relay : Subscriber(r))
          \/ Environment

Spec == Init /\ [][Next]_vars
FairSpec == Spec /\ WF_vars(Process) /\ WF_vars(Operator)

-----------------------------------------------------------------------------
(* Properties *)

\* The head never names a commit whose graph is not all on disk (persistSave
\* moves it last, behind the blocks' barriers).
HeadIsWhole == Exists(HeadFile) => GraphWhole(DiskHead)

\* The commits the log announces, or will once the pending entry is promoted.
Told == LogEntries \cup (IF Exists(Staged) /\ Owed(cache[Staged])
                           THEN {cache[Staged]} ELSE {})
CommitEvents == {e \in Told : e[1] = "commit"}
Announced == {e[4] : e \in CommitEvents}

\* An event and the commit it announces land together or not at all: at every
\* instant, on disk as it stands, the commits under the head are those the
\* log announces or owes.  Only a genesis waits for its turn in the quartet.
PairsLandTogether ==
  IF Announced = {} THEN DiskHead = 0 \/ prior[DiskHead] = 0
                    ELSE Announced = Chain(DiskHead)

\* A sequence number names one event, across restarts and power losses: no
\* second file takes a number, nor one that a subscriber was sent an event under.
SeqNamesOneEvent ==
  \A e, f \in LogEntries \cup UNION {relay[r].got : r \in Relay} : e[2] = f[2] => e = f

\* The log opens with the four genesis events, each once, before any request.
QuartetOnce ==
  /\ \A e \in LogEntries : IF e[2] <= 4 THEN e[1] = Genesis[e[2]]
                            ELSE e[1] \in {"commit", "identity"}
  /\ up = "serving" => LastSeq >= 4

\* A directory this program wrote never stops a start: neither its own log nor
\* its own graph is refused.
StartIsNeverRefused == up # "refused"

\* A commit the client was told was written is under the head for ever.
AckedIsKept == acked \subseteq Chain(DiskHead)

\* A subscriber has been sent every event up to its cursor, except the ones it
\* was told had left the window.
StreamHasNoHole ==
  \A r \in Relay : \A s \in (relay[r].floor + 1)..relay[r].cursor :
    \E e \in relay[r].got : e[2] = s

\* Whatever it died of, a restarted server finishes what is pending and serves.
RestartSettles == up = "down" ~> up = "serving"

\* On disk, commit and announcement are one step.  (The history has one value;
\* naming it as the member of a set has TLC read the log once a state for it.)
History ==
  CHOOSE h \in {[i \in DOMAIN es |-> es[i][4]] : es \in {InSeqOrder(CommitEvents)}} : TRUE
Ledger == INSTANCE RepoLedger WITH Commit <- Commits, head <- DiskHead,
                                   log <- History
ImplementsLedger == Ledger!Spec

=============================================================================
