--------------------------- MODULE AsyncScheduler ---------------------------
(***************************************************************************)
(* The cooperative scheduler behind runAsync (stdlib/async.mdk): one run   *)
(* queue kept as two lists, one park table, one round budget, on one OS    *)
(* thread.  A task is a value of Task; what its next step yields (finish,  *)
(* yield, park, spawn) is chosen freely, so every program over Task is     *)
(* covered.  The clock and descriptor readiness belong to the environment. *)
(***************************************************************************)
EXTENDS Integers, Sequences, FiniteSets

CONSTANTS
  Task,         \* every task the program may ever create
  Root,         \* the program given to runAsync
  Fd,           \* descriptor interests: a descriptor together with a direction
  Flag,         \* Ref Bool flags of the program (waitFlag)
  Deadline,     \* the instants a task may name in a deadline, in clock ticks
  MaxTime,      \* bound: the last instant of the clock
  TicksPerMs,   \* clock ticks in one millisecond
  CIntMax,      \* largest value of the C int poll(2) takes
  MaxWaits,     \* bound: waits one awaitAny call names
  Faults        \* whether a signal may cut a wait short and poll(2) may fail

ASSUME RootIsTask == Root \in Task
ASSUME NoSharedNames == Task \cap Flag = {}
ASSUME ClockUnits == /\ Deadline \subseteq Nat
                     /\ MaxTime \in Nat
                     /\ TicksPerMs \in Nat \ {0}
                     /\ CIntMax \in Nat \ {0}

VARIABLES
  front, back,  \* the run queue: popped from front, pushed newest first on back
  parked,       \* the park table, newest first
  budget,       \* tasks left in the current round
  pc,           \* what the driver is doing
  block,        \* wakeParked's argument: may this pass wait?
  until,        \* when the running sleep or poll times out
  clock, readable, flags,   \* environment: time, ready descriptors, set flags
  life,         \* where each task is in its life
  owed          \* history: tasks queued when the round began, not yet served

queueVars == <<front, back, parked, budget>>
envVars == <<clock, readable, flags>>
vars == <<front, back, parked, budget, pc, block, until,
          clock, readable, flags, life, owed>>

-----------------------------------------------------------------------------
(* Waits *)

FdWait == [fd : Fd]
FlagWait == [flag : Flag \cup Task]      \* a task handle carries a done flag
Wait == FdWait \cup [at : Deadline] \cup FlagWait

IsFdWait(w) == "fd" \in DOMAIN w
IsDeadline(w) == "at" \in DOMAIN w
IsFlagWait(w) == "flag" \in DOMAIN w

\* The flag of a task handle is set by the step that ends the task (finish).
FlagSet(x) == x \in flags \/ (x \in Task /\ life[x] = "finished")

\* Mutant: a finished task's flag is not looked at.
WaitReadyNoFlags(w) == IsDeadline(w) /\ w.at <= clock

\* waitReady: what wakeParked can see without a poll.
WaitReady(w) == \/ IsDeadline(w) /\ w.at <= clock
                \/ IsFlagWait(w) /\ FlagSet(w.flag)

WaitSatisfied(w) == IsFdWait(w) /\ w.fd \in readable

Parked == [task : Task, waits : SUBSET Wait]

ParkedDeadlines == {w.at : w \in {v \in UNION {parked[i].waits : i \in DOMAIN parked} : IsDeadline(v)}}
FdIsWatched == \E i \in DOMAIN parked : \E w \in parked[i].waits : IsFdWait(w)
Earliest == CHOOSE t \in ParkedDeadlines : \A u \in ParkedDeadlines : t <= u

-----------------------------------------------------------------------------
(* The run queue *)

Rev(s) == [i \in 1..Len(s) |-> s[Len(s) - i + 1]]
QueueOf(f, b) == f \o Rev(b)
Queue == QueueOf(front, back)
Queued == {Queue[i] : i \in DOMAIN Queue}

\* popTask: when front is dry, back is reversed into it.
CanPop == front # << >> \/ back # << >>
NextTask == IF front # << >> THEN Head(front) ELSE back[Len(back)]
FrontAfterPop == IF front # << >> THEN Tail(front) ELSE Tail(Rev(back))

BackAfterPop == IF front # << >> THEN back ELSE << >>

\* partition: the positions in I, in order, and the entries they hold.
InOrder(I) == {f \in [1..Cardinality(I) -> I] :
                 /\ \A i, j \in DOMAIN f : i < j => f[i] < f[j]
                 /\ \A k \in I : \E i \in DOMAIN f : f[i] = k}
Pick(s, f) == [i \in DOMAIN f |-> s[f[i]]]

\* Mutant: woken tasks rejoin newest first.
RejoinNewestFirst(W) ==
  \E w \in InOrder(W), s \in InOrder(DOMAIN parked \ W) :
    /\ back' = Rev([i \in DOMAIN w |-> parked[w[i]].task]) \o back
    /\ parked' = Pick(parked, s)

\* Entries at the positions W leave the park table; requeue pushes them oldest
\* first, and the table is newest first, so back grows by them as they stand.
Rejoin(W) ==
  \E w \in InOrder(W), s \in InOrder(DOMAIN parked \ W) :
    /\ back' = [i \in DOMAIN w |-> parked[w[i]].task] \o back
    /\ parked' = Pick(parked, s)

\* go (max 1 (queueLength front back)): the next round begins.
BeginRound ==
  /\ pc' = "go"
  /\ budget' = IF Queue' = << >> THEN 1 ELSE Len(Queue')
  /\ owed' = Queued'
  /\ block' = FALSE
  /\ until' = 0

-----------------------------------------------------------------------------
(* Blocking *)

Forever == MaxTime + 1

\* Mutant: the last part of a millisecond is not waited for.
MillisUntilShort(t) == IF t < clock THEN 0 ELSE (t - clock) \div TicksPerMs

MillisUntil(t) == IF t < clock THEN 0 ELSE ((t - clock) \div TicksPerMs) + 1

\* ioPoll hands poll(2) the low bits of the count as a signed C int.
CInt(ms) == ((ms + CIntMax + 1) % (2 * (CIntMax + 1))) - (CIntMax + 1)

PollTimeout ==
  IF ~block THEN 0 ELSE IF ParkedDeadlines = {} THEN -1 ELSE MillisUntil(Earliest)

PollDeadline == LET c == CInt(PollTimeout)
                IN  IF c < 0 THEN Forever ELSE clock + c * TicksPerMs

-----------------------------------------------------------------------------
Init ==
  /\ front = <<Root>> /\ back = << >> /\ parked = << >>
  /\ budget = 1
  /\ pc = "go" /\ block = FALSE /\ until = 0
  /\ clock = 0 /\ readable = {} /\ flags = {}
  /\ life = [t \in Task |-> IF t = Root THEN "live" ELSE "unborn"]
  /\ owed = {Root}

\* One task is popped and stepped: its body may use up the readiness of a
\* descriptor and write flags; what it yields is the caller's business.
Turn(t) ==
  /\ pc = "go" /\ budget > 0 /\ CanPop
  /\ t = NextTask
  /\ front' = FrontAfterPop
  /\ budget' = budget - 1
  /\ owed' = owed \ {t}
  /\ readable' \in {readable} \cup {readable \ {f} : f \in readable}
  /\ flags' \in SUBSET Flag
  /\ UNCHANGED <<pc, block, until, clock>>

TaskFinishes ==
  \E t \in Task :
    /\ Turn(t)
    /\ back' = BackAfterPop
    /\ life' = [life EXCEPT ![t] = "finished"]
    /\ UNCHANGED parked

TaskYields ==
  \E t \in Task :
    /\ Turn(t)
    /\ back' = <<t>> \o BackAfterPop
    /\ UNCHANGED <<parked, life>>

TaskParks ==
  \E t \in Task, ws \in SUBSET Wait :
    /\ Cardinality(ws) <= MaxWaits
    /\ \A w \in ws : IsFlagWait(w) => (w.flag \in Task => life[w.flag] # "unborn")
    /\ Turn(t)
    /\ back' = BackAfterPop
    /\ parked' = <<[task |-> t, waits |-> ws]>> \o parked
    /\ UNCHANGED life

\* The child goes first: it takes its turn before its parent's next one.
TaskSpawns ==
  \E t, c \in Task :
    /\ life[c] = "unborn"
    /\ Turn(t)
    /\ back' = <<t, c>> \o BackAfterPop
    /\ life' = [life EXCEPT ![c] = "live"]
    /\ UNCHANGED parked

RunTask == TaskFinishes \/ TaskYields \/ TaskParks \/ TaskSpawns

\* Mutant: a round ends without looking at the park table.
EndRoundNoWake ==
  /\ pc = "go" /\ budget <= 0
  /\ UNCHANGED <<front, back, parked, envVars, life>>
  /\ BeginRound

\* budget <= 0: the round is over and every parked task gets a chance to wake.
EndRound ==
  /\ pc = "go" /\ budget <= 0
  /\ pc' = "wake" /\ block' = FALSE
  /\ UNCHANGED <<queueVars, until, envVars, life, owed>>

\* Nothing is runnable, something is parked: a pass that may wait.
GoIdle ==
  /\ pc = "go" /\ budget > 0 /\ ~CanPop /\ parked # << >>
  /\ pc' = "wake" /\ block' = TRUE
  /\ UNCHANGED <<queueVars, until, envVars, life, owed>>

\* The driver returns: optionOrPanic wants the root's value.
Return ==
  /\ pc = "go" /\ budget > 0 /\ ~CanPop /\ parked = << >>
  /\ pc' = IF life[Root] = "finished" THEN "returned" ELSE "noValue"
  /\ UNCHANGED <<queueVars, block, until, envVars, life, owed>>

ReadyAt == {i \in DOMAIN parked : \E w \in parked[i].waits : WaitReady(w)}
SatisfiedAt == {i \in DOMAIN parked : \E w \in parked[i].waits : WaitSatisfied(w)}

\* A passed deadline or a set flag: those tasks rejoin and no poll is made.
WakeReady ==
  /\ pc = "wake" /\ ReadyAt # {}
  /\ Rejoin(ReadyAt)
  /\ UNCHANGED <<front, envVars, life>>
  /\ BeginRound

WakeNone ==
  /\ pc = "wake" /\ ReadyAt = {} /\ ~FdIsWatched /\ ~block
  /\ UNCHANGED <<front, back, parked, envVars, life>>
  /\ BeginRound

WakeSleep ==
  /\ pc = "wake" /\ ReadyAt = {} /\ ~FdIsWatched /\ block
  /\ ParkedDeadlines # {}
  /\ pc' = "sleep"
  /\ until' = clock + MillisUntil(Earliest) * TicksPerMs
  /\ UNCHANGED <<queueVars, block, envVars, life, owed>>

\* Mutant: the deadlock panic does not ask for parked deadlines.
WakeDeadlockHasty ==
  /\ pc = "wake" /\ ReadyAt = {} /\ ~FdIsWatched /\ block
  /\ pc' = "deadlock"
  /\ UNCHANGED <<queueVars, block, until, envVars, life, owed>>

\* sleepThrough: nothing parked can wake anything.
WakeDeadlock ==
  /\ pc = "wake" /\ ReadyAt = {} /\ ~FdIsWatched /\ block
  /\ ParkedDeadlines = {}
  /\ pc' = "deadlock"
  /\ UNCHANGED <<queueVars, block, until, envVars, life, owed>>

WakePoll ==
  /\ pc = "wake" /\ ReadyAt = {} /\ FdIsWatched
  /\ pc' = "poll"
  /\ until' = PollDeadline
  /\ UNCHANGED <<queueVars, block, envVars, life, owed>>

SleepReturns ==
  /\ pc = "sleep"
  /\ clock >= until \/ Faults
  /\ UNCHANGED <<front, back, parked, envVars, life>>
  /\ BeginRound

\* Mutant: a poll wakes the newest satisfied waiter only.
PollReturnsOne ==
  /\ pc = "poll"
  /\ SatisfiedAt # {} \/ clock >= until
  /\ \E W \in SUBSET SatisfiedAt :
       /\ \A i \in SatisfiedAt : \E j \in W : j <= i
       /\ Cardinality(W) <= 1
       /\ Rejoin(W)
  /\ UNCHANGED <<front, envVars, life>>
  /\ BeginRound

\* The poll answers with what is ready, or at its timeout with nothing.
PollReturns ==
  /\ pc = "poll"
  /\ SatisfiedAt # {} \/ clock >= until
  /\ Rejoin(SatisfiedAt)
  /\ UNCHANGED <<front, envVars, life>>
  /\ BeginRound

\* EINTR: every readiness word is zero.  Any other failure is a panic.
PollInterrupted ==
  /\ pc = "poll" /\ Faults
  /\ UNCHANGED <<front, back, parked, envVars, life>>
  /\ BeginRound

PollFails ==
  /\ pc = "poll" /\ Faults
  /\ pc' = "pollFailed"
  /\ UNCHANGED <<queueVars, block, until, envVars, life, owed>>

Driver == \/ RunTask \/ EndRound \/ GoIdle \/ Return
          \/ WakeReady \/ WakeNone \/ WakeSleep \/ WakeDeadlock \/ WakePoll
          \/ SleepReturns \/ PollReturns \/ PollInterrupted

Running == pc \in {"go", "wake", "sleep", "poll"}

Tick ==
  /\ clock < MaxTime /\ Running
  /\ clock' = clock + 1
  /\ UNCHANGED <<queueVars, pc, block, until, readable, flags, life, owed>>

BecomesReady ==
  /\ Running
  /\ \E f \in Fd \ readable : readable' = readable \cup {f}
  /\ UNCHANGED <<queueVars, pc, block, until, clock, flags, life, owed>>

Stopped == ~Running /\ UNCHANGED vars

Next == Driver \/ PollFails \/ Tick \/ BecomesReady \/ Stopped

Spec == Init /\ [][Next]_vars

\* The driver is one thread that is always running, and time passes.
FairSpec == Spec /\ WF_vars(Driver) /\ WF_vars(Tick)

-----------------------------------------------------------------------------
(* Safety *)

TypeOK ==
  /\ front \in Seq(Task) /\ back \in Seq(Task)
  /\ parked \in Seq(Parked)
  /\ budget \in Nat
  /\ pc \in {"go", "wake", "sleep", "poll", "returned", "noValue",
             "deadlock", "pollFailed"}
  /\ block \in BOOLEAN
  /\ until \in Int
  /\ clock \in 0..MaxTime
  /\ readable \subseteq Fd
  /\ flags \subseteq Flag
  /\ life \in [Task -> {"unborn", "live", "finished"}]
  /\ owed \subseteq Task

ParkedTasks == {parked[i].task : i \in DOMAIN parked}

\* No task is lost and none runs twice at once: a live task sits at exactly one
\* place of the run queue or the park table, and nothing else sits there.
NoTaskTwice ==
  /\ \A i, j \in DOMAIN Queue : Queue[i] = Queue[j] => i = j
  /\ \A i, j \in DOMAIN parked : parked[i].task = parked[j].task => i = j
  /\ Queued \cap ParkedTasks = {}
NoTaskLost == Queued \cup ParkedTasks = {t \in Task : life[t] = "live"}
EveryTaskHasOnePlace == NoTaskTwice /\ NoTaskLost

\* ASYNC-RUNTIME-DESIGN G7: a runnable task runs within one round.  The tasks
\* queued when the round began and not served yet are the next budget ones of
\* the queue, so when the budget is used up every one of them had its turn.
RoundServesAll ==
  /\ pc = "go" =>
       /\ owed = {Queue[i] : i \in {j \in DOMAIN Queue : j <= budget}}
       /\ Queue # << >> => budget <= Len(Queue)
  /\ pc # "go" => owed = {}

\* G4: the driver returns only when the program and every task it spawned have
\* finished, and the program's value is there then (the panic of runAsync for a
\* missing value is unreachable).
ReturnsWhenAllFinished ==
  /\ pc = "returned" => \A t \in Task : life[t] # "live"
  /\ pc # "noValue"

\* The deadlock panic is never raised over a task something could still wake:
\* every live task then waits for flags only, none of them set, and no task is
\* left that could set one.
DeadlockIsReal ==
  pc = "deadlock" =>
    \A t \in Task : life[t] = "live" =>
      \E i \in DOMAIN parked :
        /\ parked[i].task = t
        /\ \A w \in parked[i].waits : IsFlagWait(w) /\ ~FlagSet(w.flag)

\* A task finishing or a flag written in the last turn is never slept through.
NoWakeupSlept ==
  pc \in {"sleep", "poll"} =>
    \A i \in DOMAIN parked, w \in Wait :
      w \in parked[i].waits /\ IsFlagWait(w) => ~FlagSet(w.flag)

\* G6: with nothing runnable the driver waits for the exact next deadline: not
\* short of it, which would spin, and at most the rounding of one millisecond
\* past it.
WaitsForNextDeadline ==
  block /\ pc \in {"sleep", "poll"} /\ ParkedDeadlines # {} =>
    /\ Earliest <= until
    /\ until <= Earliest + TicksPerMs

-----------------------------------------------------------------------------
(* Liveness, under FairSpec *)

IsParked(t) == t \in ParkedTasks
WaitsOf(t) == UNION {parked[i].waits : i \in {j \in DOMAIN parked : parked[j].task = t}}

\* A task parked on a deadline is given a turn once the deadline has passed.
DeadlineWakes ==
  \A t \in Task :
    (\E w \in WaitsOf(t) : IsDeadline(w)) ~> (~IsParked(t) \/ ~Running)

\* A task parked on a descriptor that stays ready is given a turn, as long as
\* the driver keeps getting to poll at all.
PolledDescriptorWakes ==
  []<>(pc = "poll") =>
    \A t \in Task :
      (\E w \in WaitsOf(t) : WaitSatisfied(w))
        ~> (~IsParked(t) \/ ~Running \/ \A w \in WaitsOf(t) : ~WaitSatisfied(w))

-----------------------------------------------------------------------------
(* Refinement: the two-list queue, the rounds and the polls implement a FIFO *)
(* pool of tasks.                                                            *)

Holding == {w \in Wait : WaitReady(w) \/ WaitSatisfied(w)}

Pool == INSTANCE TaskPool WITH
  queue <- Queue,
  waiting <- Rev(parked),
  holds <- Holding,
  outcome <- IF Running THEN "running" ELSE IF pc = "returned" THEN "returned"
             ELSE "panicked"

\* Every step of the driver is a step of the pool or none: turns are FIFO, tasks
\* that wake together rejoin in the order they parked, a task never rejoins
\* while none of its waits holds, and it stops only as the pool may.
ImplementsTaskPool == Pool!PoolSpec
=============================================================================
