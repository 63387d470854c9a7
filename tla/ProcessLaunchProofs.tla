------------------------- MODULE ProcessLaunchProofs -------------------------
(***************************************************************************)
(* Proofs about ProcessLaunch, for any tickets, callers, submission slots  *)
(* and faults.                                                             *)
(*                                                                         *)
(* A ticket, its child, its submission and its root are four records of    *)
(* one launch, and an entry point changes them for one launch p alone.     *)
(* What they must say of each other is the inductive invariant.  OneMoves  *)
(* reduces a step of an entry point to the new records of p; the worker's  *)
(* and the children's steps change one record each.                        *)
(***************************************************************************)
EXTENDS ProcessLaunch, FiniteSetTheorems, TLAPS

USE SlotsExist, NoTicketIsNone DEF Slot

-----------------------------------------------------------------------------
(* The inductive invariant *)

TicketRecord ==
  [state: {"none", "SUBMITTED", "LAUNCHING", "FAILING", "ABORTING", "RUNNING",
           "REAPED", "LOST", "DISPOSED"},
   step: {"PENDING", "OWNED", "FAILED", "ABORTED", "LOST_WAIT"},
   pidfd: BOOLEAN, errfd: BOOLEAN, streams: SUBSET Piped,
   signalled: BOOLEAN, stop: BOOLEAN, slot: 0..NumSlots, gen: Nat]

SlotRecord ==
  [phase: {"FREE", "QUEUED", "WORKING", "DONE"}, stop: BOOLEAN, generation: Nat,
   owner: Ticket \cup {NoTicket},
   result: {"none", "created", "failed", "cancelled"}, carries: BOOLEAN]

Kids == {"none", "setup", "exiting", "running", "zombie", "reaped", "stolen"}

RecordsOK ==
  /\ tickets \in [Ticket -> TicketRecord] /\ slots \in [Slot -> SlotRecord]
  /\ rooted \subseteq Ticket /\ cancels \subseteq Ticket
  /\ worker \in [pc: {"waiting", "awake", "taken", "prepared", "cloning", "finishing"},
                 job: Slot, next: Slot]
  /\ child \in [Ticket -> Kids] /\ pipe \in [Ticket -> {"open", "eof", "record"}]

CallersOK ==
  /\ known \subseteq Ticket /\ jobs \in Nat
  /\ callers \in [Caller -> [pc: {"idle", "posting", "begun", "napping", "handshake", "exit"},
                             ticket: Ticket \cup {NoTicket}]]
  /\ \A c \in Caller : callers[c].pc # "idle" => callers[c].ticket \in Ticket

TypeOK == RecordsOK /\ CallersOK

\* What the state of a ticket says of its outcome, of its child (kid), of
\* what it holds and of whether it is rooted.
Waiting(t, kid, root) ==
  /\ t.state = "none" => t.step = "PENDING" /\ ~t.pidfd /\ t.slot = 0 /\ kid = "none"
  /\ t.state = "SUBMITTED" =>
       t.step = "PENDING" /\ ~t.pidfd /\ t.slot # 0 /\ kid # "reaped" /\ root
  /\ t.state \in {"LAUNCHING", "FAILING", "ABORTING"} =>
       t.step = "PENDING" /\ t.pidfd /\ kid \notin {"none", "reaped"} /\ root

Delivered(t, kid, root) ==
  /\ t.state = "RUNNING" =>
       t.step = "OWNED" /\ t.pidfd /\ t.slot = 0 /\ kid \notin {"none", "reaped"} /\ root
  /\ t.state = "DISPOSED" =>
       t.step = "OWNED" /\ ~t.pidfd /\ t.slot = 0 /\ kid \in {"reaped", "stolen"}
  /\ t.state \in {"REAPED", "LOST"} => t.step # "PENDING" /\ ~t.pidfd /\ t.slot = 0
  /\ t.state = "REAPED" =>
       /\ t.step # "LOST_WAIT"
       /\ IF t.step = "OWNED" THEN kid = "reaped" ELSE kid \in {"none", "reaped"}
  /\ t.state = "LOST" => t.step \in {"OWNED", "LOST_WAIT"} /\ kid = "stolen"
  /\ t.step \in {"FAILED", "ABORTED", "LOST_WAIT"} => ~t.errfd /\ t.streams = {} /\ ~root

\* An abort of an undecided launch is remembered, and only an abort is.
Heeded(t, cancelled) ==
  /\ cancelled /\ t.step = "PENDING" =>
       IF t.state = "SUBMITTED" THEN t.stop ELSE t.state = "ABORTING"
  /\ t.stop \/ t.state = "ABORTING" => cancelled

TicketOK(p) ==
  /\ Waiting(tickets[p], child[p], p \in rooted)
  /\ Delivered(tickets[p], child[p], p \in rooted)
  /\ Heeded(tickets[p], p \in cancels)
  /\ tickets[p].slot # 0 =>
       slots[tickets[p].slot].owner = p /\ slots[tickets[p].slot].phase # "FREE"

\* A submission in use, its owner's ticket t and child kid.
Matches(ss, s, t, kid, cancelled) ==
  /\ t.slot = s /\ t.gen = ss.generation
  /\ ss.phase # "DONE" => t.state = "SUBMITTED"
  /\ ss.phase = "QUEUED" => ss.result = "none"
  /\ ss.carries <=> ss.result = "created" /\ t.state = "SUBMITTED"
  /\ t.state = "SUBMITTED" => (kid = "none" <=> ss.result # "created")
  /\ ss.result = "cancelled" => ss.stop
  /\ ss.stop => cancelled

SlotOK(s) ==
  IF slots[s].phase = "FREE" THEN slots[s].owner = NoTicket /\ ~slots[s].carries
  ELSE /\ slots[s].owner \in Ticket
       /\ Matches(slots[s], s, tickets[slots[s].owner], child[slots[s].owner],
                  slots[s].owner \in cancels)

\* The worker holds one submission, and only while it works on it.
WorkerOK ==
  /\ \A s \in Slot : slots[s].phase = "WORKING" =>
       worker.job = s /\ worker.pc \in {"taken", "prepared", "cloning", "finishing"}
  /\ worker.pc \in {"taken", "prepared", "cloning", "finishing"} =>
       slots[worker.job].phase = "WORKING"
  /\ worker.pc \in {"taken", "prepared", "cloning"} => slots[worker.job].result = "none"

IInv ==
  /\ TypeOK
  /\ \A p \in Ticket : TicketOK(p)
  /\ \A s \in Slot : SlotOK(s)
  /\ WorkerOK

-----------------------------------------------------------------------------
(* Records *)

\* Two tickets that differ in what a launch's state says and not in its name.
Same(t, u) == t.signalled = u.signalled /\ t.stop = u.stop /\ t.gen = u.gen

LEMMA AdoptIs ==
  ASSUME NEW t \in TicketRecord
  PROVE  LET u == Adopt(t) IN
         /\ u \in TicketRecord /\ Same(u, t) /\ u.slot = t.slot /\ u.step = t.step
         /\ u.state = "LAUNCHING" /\ u.pidfd
BY DEF Adopt, TicketRecord, Same

LEMMA FailingIs ==
  ASSUME NEW t \in TicketRecord
  PROVE  LET u == Failing(t) IN
         /\ u \in TicketRecord /\ Same(u, t) /\ u.slot = t.slot /\ u.step = t.step
         /\ u.state = "FAILING" /\ u.pidfd = t.pidfd
BY DEF Failing, TicketRecord, Same

LEMMA AbortingIs ==
  ASSUME NEW t \in TicketRecord
  PROVE  LET u == Aborting(t) IN
         /\ u \in TicketRecord /\ Same(u, t) /\ u.slot = t.slot /\ u.step = t.step
         /\ u.state = "ABORTING" /\ u.pidfd = t.pidfd
BY DEF Aborting, TicketRecord, Same

LEMMA SettledIs ==
  ASSUME NEW t \in TicketRecord, NEW state \in {"REAPED", "LOST"},
         NEW step \in {"FAILED", "ABORTED", "LOST_WAIT"}
  PROVE  LET u == Settled(t, state, step) IN
         /\ u \in TicketRecord /\ Same(u, t) /\ u.slot = 0 /\ u.step = step
         /\ u.state = state /\ ~u.pidfd /\ ~u.errfd /\ u.streams = {}
<1> DEFINE a == [t EXCEPT !.state = state, !.step = step, !.pidfd = FALSE, !.errfd = FALSE]
           b == [a EXCEPT !.streams = {}]
           d == [b EXCEPT !.slot = 0]
<1>1. Settled(t, state, step) = d
  BY Zenon DEF Settled
<1>2. /\ a \in TicketRecord /\ Same(a, t) /\ a.step = step /\ a.state = state
      /\ ~a.pidfd /\ ~a.errfd
  BY DEF TicketRecord, Same
<1> HIDE DEF a
<1>3. /\ b \in TicketRecord /\ Same(b, t) /\ b.step = step
      /\ b.state = state /\ ~b.pidfd /\ ~b.errfd /\ b.streams = {}
  BY <1>2 DEF TicketRecord, Same
<1> HIDE DEF b
<1>4. /\ d \in TicketRecord /\ Same(d, t) /\ d.slot = 0 /\ d.step = step
      /\ d.state = state /\ ~d.pidfd /\ ~d.errfd /\ d.streams = {}
  BY <1>3 DEF TicketRecord, Same
<1> QED BY <1>1, <1>4

LEMMA SignalledIs ==
  ASSUME NEW t \in TicketRecord, NEW b \in BOOLEAN
  PROVE  LET u == [t EXCEPT !.signalled = b] IN
         /\ u \in TicketRecord /\ u.slot = t.slot /\ u.step = t.step /\ u.stop = t.stop
         /\ u.state = t.state /\ u.pidfd = t.pidfd /\ u.errfd = t.errfd
         /\ u.streams = t.streams /\ u.gen = t.gen
BY DEF TicketRecord

LEMMA StopIs ==
  ASSUME NEW t \in TicketRecord, NEW b \in BOOLEAN
  PROVE  LET u == [t EXCEPT !.stop = b] IN
         /\ u \in TicketRecord /\ u.slot = t.slot /\ u.step = t.step /\ u.stop = b
         /\ u.state = t.state /\ u.pidfd = t.pidfd /\ u.errfd = t.errfd
         /\ u.streams = t.streams /\ u.gen = t.gen
BY DEF TicketRecord

\* A slot that no longer carries a child, one that was asked to stop, and one
\* that is given back.
LEMMA UnloadIs ==
  ASSUME NEW ss \in [Slot -> SlotRecord], NEW k \in Slot
  PROVE  LET vv == [ss EXCEPT ![k].carries = FALSE] IN
         /\ vv \in [Slot -> SlotRecord] /\ \A s \in Slot : s # k => vv[s] = ss[s]
         /\ ~vv[k].carries /\ vv[k].phase = ss[k].phase /\ vv[k].stop = ss[k].stop
         /\ vv[k].generation = ss[k].generation /\ vv[k].owner = ss[k].owner
         /\ vv[k].result = ss[k].result
BY DEF SlotRecord

LEMMA StoppedIs ==
  ASSUME NEW ss \in [Slot -> SlotRecord], NEW k \in Slot
  PROVE  LET vv == [ss EXCEPT ![k].stop = TRUE] IN
         /\ vv \in [Slot -> SlotRecord] /\ \A s \in Slot : s # k => vv[s] = ss[s]
         /\ vv[k].carries = ss[k].carries /\ vv[k].phase = ss[k].phase /\ vv[k].stop
         /\ vv[k].generation = ss[k].generation /\ vv[k].owner = ss[k].owner
         /\ vv[k].result = ss[k].result
BY DEF SlotRecord

LEMMA ReleasedIs ==
  ASSUME NEW ss \in [Slot -> SlotRecord], NEW t \in TicketRecord
  PROVE  LET vv == Released(ss, t) IN
         /\ vv \in [Slot -> SlotRecord] /\ \A s \in Slot : s # t.slot => vv[s] = ss[s]
         /\ t.slot # 0 => /\ vv[t.slot].phase = "FREE" /\ vv[t.slot].owner = NoTicket
                          /\ vv[t.slot].carries = ss[t.slot].carries
<1>1. t.slot = 0 \/ t.slot \in Slot
  BY DEF TicketRecord
<1>2. CASE t.slot = 0
  BY <1>2 DEF Released
<1>3. CASE t.slot \in Slot
  <2> DEFINE k == t.slot
             aa == [ss EXCEPT ![k].phase = "FREE"]
             vv == [aa EXCEPT ![k].owner = NoTicket]
  <2>1. Released(ss, t) = vv
    BY <1>3 DEF Released
  <2>2. k \in Slot /\ k # 0
    BY <1>3
  <2> HIDE DEF k
  <2>3. /\ aa \in [Slot -> SlotRecord] /\ \A s \in Slot : s # k => aa[s] = ss[s]
        /\ aa[k].phase = "FREE" /\ aa[k].carries = ss[k].carries
    BY <2>2 DEF SlotRecord
  <2> HIDE DEF aa
  <2>4. /\ vv \in [Slot -> SlotRecord] /\ \A s \in Slot : s # k => vv[s] = aa[s]
        /\ vv[k].phase = aa[k].phase /\ vv[k].carries = aa[k].carries /\ vv[k].owner = NoTicket
    <3> DEFINE w == [aa[k] EXCEPT !.owner = NoTicket]
    <3>1. aa[k] \in SlotRecord /\ vv = [aa EXCEPT ![k] = w]
      BY <2>2, <2>3
    <3>2. w \in SlotRecord /\ w.phase = aa[k].phase /\ w.carries = aa[k].carries /\ w.owner = NoTicket
      BY <3>1 DEF SlotRecord
    <3> HIDE DEF w
    <3> QED BY <2>2, <2>3, <3>1, <3>2
  <2> HIDE DEF vv
  <2> QED BY <2>1, <2>2, <2>3, <2>4 DEF k
<1> QED BY <1>1, <1>2, <1>3

-----------------------------------------------------------------------------
(* One launch at a time *)

\* A step that changes the records of the launch p alone.
Moves(p) ==
  /\ \A q \in Ticket \ {p} : /\ tickets'[q] = tickets[q] /\ child'[q] = child[q]
                             /\ (q \in rooted') = (q \in rooted)
                             /\ (q \in cancels') = (q \in cancels)
  /\ \A s \in Slot : s # tickets[p].slot => slots'[s] = slots[s]

\* The worker's submission is not touched.
Beside ==
  /\ worker' = worker
  /\ \A s \in Slot : \/ slots'[s].phase = slots[s].phase /\ slots'[s].result = slots[s].result
                     \/ slots[s].phase = "DONE" /\ slots'[s].phase = "FREE"

LEMMA OneMoves ==
  ASSUME IInv, TypeOK', NEW p \in Ticket, Moves(p), Beside,
         TicketOK(p)', tickets'[p].slot \in {0, tickets[p].slot},
         \A s \in Slot : s = tickets[p].slot => SlotOK(s)'
  PROVE  IInv'
<1>1. \A q \in Ticket : tickets[q].slot \in 0..NumSlots
  BY DEF IInv, TypeOK, RecordsOK, TicketRecord
<1>2. ASSUME NEW q \in Ticket \ {p} PROVE TicketOK(q)'
  <2>1. tickets'[q] = tickets[q] /\ child'[q] = child[q] /\ (q \in rooted') = (q \in rooted)
        /\ (q \in cancels') = (q \in cancels)
    BY DEF Moves
  <2>2. TicketOK(q) /\ TicketOK(p)
    BY DEF IInv
  <2>3. tickets[q].slot # 0 => slots'[tickets[q].slot] = slots[tickets[q].slot]
    <3> SUFFICES ASSUME tickets[q].slot # 0 PROVE slots'[tickets[q].slot] = slots[tickets[q].slot]
      OBVIOUS
    <3>1. tickets[q].slot \in Slot /\ tickets[q].slot # tickets[p].slot
      BY <1>1, <2>2 DEF TicketOK
    <3> QED BY <3>1 DEF Moves
  <2> QED BY <2>1, <2>2, <2>3 DEF TicketOK
<1>3. ASSUME NEW s \in Slot, s # tickets[p].slot PROVE SlotOK(s)'
  <2>1. SlotOK(s) /\ slots'[s] = slots[s]
    BY <1>3 DEF IInv, Moves
  <2>2. CASE slots[s].phase = "FREE"
    BY <2>1, <2>2 DEF SlotOK
  <2>3. CASE slots[s].phase # "FREE"
    <3> DEFINE o == slots[s].owner
    <3>1. o \in Ticket /\ tickets[o].slot = s
      BY <2>1, <2>3 DEF SlotOK, Matches
    <3>2. o # p
      BY <1>3, <3>1
    <3>3. tickets'[o] = tickets[o] /\ child'[o] = child[o] /\ (o \in cancels') = (o \in cancels)
      BY <3>1, <3>2 DEF Moves
    <3> QED BY <2>1, <2>3, <3>1, <3>3 DEF SlotOK
  <2> QED BY <2>2, <2>3
<1>4. WorkerOK'
  BY DEF WorkerOK, IInv, Beside, TypeOK, RecordsOK
<1>5. \A q \in Ticket : TicketOK(q)'
  BY <1>2
<1>6. \A s \in Slot : SlotOK(s)'
  BY <1>3
<1> QED BY <1>4, <1>5, <1>6 DEF IInv

\* A launch whose submission, if it has one, is done with.
Ended(ss, p, t) ==
  /\ t.slot = tickets[p].slot
  /\ \A s \in Slot : s # t.slot => ss[s] = slots[s]
  /\ t.slot # 0 => /\ ss[t.slot].phase = slots[t.slot].phase
                   /\ ss[t.slot].result = slots[t.slot].result

\* A submission is given back once its launch is over.
LEMMA GivesBack ==
  ASSUME IInv, TypeOK', NEW p \in Ticket, NEW t \in TicketRecord, NEW ss \in [Slot -> SlotRecord],
         Ended(ss, p, t), t.slot # 0 => slots[t.slot].phase = "DONE" /\ ~ss[t.slot].carries,
         slots' = Released(ss, t), worker' = worker,
         \A q \in Ticket \ {p} : /\ tickets'[q] = tickets[q] /\ child'[q] = child[q]
                                 /\ (q \in rooted') = (q \in rooted)
                                 /\ (q \in cancels') = (q \in cancels),
         Waiting(tickets'[p], child'[p], p \in rooted'),
         Delivered(tickets'[p], child'[p], p \in rooted'),
         Heeded(tickets'[p], p \in cancels'), tickets'[p].slot = 0
  PROVE  IInv'
<1>1. t.slot = tickets[p].slot /\ (t.slot = 0 \/ t.slot \in Slot)
  BY DEF Ended, TicketRecord
<1>2. /\ \A s \in Slot : s # t.slot => slots'[s] = ss[s]
      /\ t.slot # 0 => /\ slots'[t.slot].phase = "FREE" /\ slots'[t.slot].owner = NoTicket
                       /\ ~slots'[t.slot].carries
  BY ReleasedIs
<1>3. Moves(p)
  BY <1>1, <1>2 DEF Moves, Ended
<1>4. Beside
  BY <1>1, <1>2 DEF Beside, Ended
<1>5. TicketOK(p)'
  BY DEF TicketOK
<1>6. \A s \in Slot : s = tickets[p].slot => SlotOK(s)'
  BY <1>1, <1>2 DEF SlotOK
<1> QED BY <1>3, <1>4, <1>5, <1>6, OneMoves

\* A launch keeps its submission, or has none.
LEMMA HoldsOn ==
  ASSUME IInv, TypeOK', NEW p \in Ticket, NEW t \in TicketRecord,
         Ended(slots', p, t), tickets'[p] = t, worker' = worker,
         \A q \in Ticket \ {p} : /\ tickets'[q] = tickets[q] /\ child'[q] = child[q]
                                 /\ (q \in rooted') = (q \in rooted)
                                 /\ (q \in cancels') = (q \in cancels),
         Waiting(t, child'[p], p \in rooted'),
         Delivered(t, child'[p], p \in rooted'),
         Heeded(t, p \in cancels'),
         t.slot # 0 => /\ slots'[t.slot].owner = p
                       /\ Matches(slots'[t.slot], t.slot, t, child'[p], p \in cancels')
  PROVE  IInv'
<1>1. t.slot = tickets[p].slot /\ (t.slot = 0 \/ t.slot \in Slot)
  BY DEF Ended, TicketRecord
<1>2. t.slot # 0 => slots[t.slot].phase # "FREE"
  BY <1>1 DEF IInv, TicketOK
<1>3. Moves(p)
  BY <1>1 DEF Moves, Ended
<1>4. Beside
  BY <1>1 DEF Beside, Ended
<1>5. TicketOK(p)'
  BY <1>1, <1>2 DEF TicketOK, Ended
<1>6. \A s \in Slot : s = tickets[p].slot => SlotOK(s)'
  <2> SUFFICES ASSUME NEW s \in Slot, s = tickets[p].slot PROVE SlotOK(s)'
    OBVIOUS
  <2>1. s = t.slot /\ t.slot # 0
    BY <1>1
  <2> QED BY <1>2, <2>1 DEF SlotOK, Ended
<1> QED BY <1>1, <1>3, <1>4, <1>5, <1>6, OneMoves

-----------------------------------------------------------------------------
(* Cleaning up *)

Others(p) ==
  \A q \in Ticket \ {p} : /\ tickets'[q] = tickets[q] /\ child'[q] = child[q]
                          /\ (q \in rooted') = (q \in rooted)
                          /\ (q \in cancels') = (q \in cancels)

\* The launch p, undecided before, has come to the outcome step.
Decided(p, step) ==
  /\ tickets'[p].step = step
  /\ \/ /\ step \in {"FAILED", "ABORTED"} /\ tickets'[p].state = "REAPED"
        /\ child[p] # "stolen"
        /\ child'[p] = IF child[p] = "none" THEN "none" ELSE "reaped"
        /\ step = "ABORTED" => p \in cancels'
     \/ /\ step = "LOST_WAIT" /\ tickets'[p].state = "LOST"
        /\ child[p] = "stolen" /\ child'[p] = child[p]

\* It is undecided still, and so is its child.
Undecided(p) ==
  tickets'[p].step = "PENDING" /\ tickets'[p].state # "none" /\ child'[p] = child[p]

\* What Cleanup is entered with: the launch p as the ticket t and the slots ss.
Failed(p, t, ss) ==
  /\ t \in TicketRecord /\ ss \in [Slot -> SlotRecord]
  /\ t.state \in {"FAILING", "ABORTING"} /\ t.step = "PENDING" /\ t.pidfd
  /\ child[p] \notin {"none", "reaped"} /\ p \in rooted
  /\ Ended(ss, p, t)
  /\ t.slot # 0 => slots[t.slot].phase = "DONE" /\ ss[t.slot].owner = p

\* It keeps the launch as it is, or ends it with its submission given back.
LEMMA CleanupKeeps ==
  ASSUME IInv, CallersOK', NEW p \in Ticket, NEW t, NEW ss, NEW r,
         Failed(p, t, ss), Cleanup(p, t, ss, r), worker' = worker,
         cancels' \subseteq Ticket, cancels' \in {cancels, cancels \cup {p}},
         Heeded(t, p \in cancels'),
         t.slot # 0 => Matches(ss[t.slot], t.slot, t, child[p], p \in cancels')
  PROVE  IInv' /\ Others(p) /\ (Undecided(p) \/ \E step \in {"FAILED", "ABORTED", "LOST_WAIT"} : Decided(p, step))
<1>1. /\ t \in TicketRecord /\ ss \in [Slot -> SlotRecord]
      /\ tickets \in [Ticket -> TicketRecord] /\ child \in [Ticket -> Kids]
      /\ pipe \in [Ticket -> {"open", "eof", "record"}] /\ rooted \subseteq Ticket
      /\ child[p] \notin {"none", "reaped"} /\ p \in rooted
  BY DEF Failed, IInv, TypeOK, RecordsOK
<1>2. PICK sent \in BOOLEAN :
         \/ /\ tickets' = [tickets EXCEPT ![p] = [t EXCEPT !.signalled = sent]]
            /\ slots' = ss /\ UNCHANGED <<child, pipe, rooted>>
         \/ /\ child[p] = "zombie" \/ child[p] \in Alive
            /\ r = IF t.state = "ABORTING" THEN "ABORTED" ELSE "FAILED"
            /\ tickets' = [tickets EXCEPT ![p] = Settled([t EXCEPT !.signalled = sent], "REAPED", r)]
            /\ slots' = Released(ss, t) /\ rooted' = rooted \ {p}
            /\ child' = [child EXCEPT ![p] = "reaped"]
            /\ pipe' = [pipe EXCEPT ![p] = IF pipe[p] = "open" THEN "eof" ELSE pipe[p]]
         \/ /\ child[p] = "stolen" /\ r = "LOST_WAIT"
            /\ tickets' = [tickets EXCEPT ![p] = Settled([t EXCEPT !.signalled = sent], "LOST", r)]
            /\ slots' = Released(ss, t) /\ rooted' = rooted \ {p}
            /\ UNCHANGED <<child, pipe>>
  BY Zenon DEF Cleanup
<1> DEFINE u == [t EXCEPT !.signalled = sent]
<1>3. /\ u \in TicketRecord /\ u.slot = t.slot /\ u.step = t.step /\ u.stop = t.stop
      /\ u.state = t.state /\ u.pidfd = t.pidfd /\ u.errfd = t.errfd
      /\ u.streams = t.streams /\ u.gen = t.gen
  BY <1>1, SignalledIs
<1> HIDE DEF u
<1>4. /\ \A q \in Ticket \ {p} : (q \in cancels') = (q \in cancels)
      /\ \A v, x : x = [tickets EXCEPT ![p] = v] =>
           /\ x[p] = v /\ \A q \in Ticket \ {p} : x[q] = tickets[q]
           /\ v \in TicketRecord => x \in [Ticket -> TicketRecord]
  BY <1>1
<1>5. ASSUME slots' \in [Slot -> SlotRecord], tickets' \in [Ticket -> TicketRecord],
             rooted' \subseteq Ticket, child' \in [Ticket -> Kids],
             pipe' \in [Ticket -> {"open", "eof", "record"}]
      PROVE  TypeOK'
  BY <1>5 DEF IInv, TypeOK, RecordsOK
<1>6. CASE /\ tickets' = [tickets EXCEPT ![p] = u]
           /\ slots' = ss /\ UNCHANGED <<child, pipe, rooted>>
  <2>1. tickets'[p] = u /\ \A q \in Ticket \ {p} : tickets'[q] = tickets[q]
    BY <1>4, <1>6
  <2>2. TypeOK'
    BY <1>1, <1>3, <1>4, <1>5, <1>6
  <2>3. Others(p)
    BY <1>4, <1>6, <2>1 DEF Others
  <2>4. Ended(slots', p, u)
    BY <1>3, <1>6 DEF Failed, Ended
  <2>5. /\ Waiting(u, child'[p], p \in rooted') /\ Delivered(u, child'[p], p \in rooted')
        /\ Heeded(u, p \in cancels')
    BY <1>1, <1>3, <1>6 DEF Failed, Waiting, Delivered, Heeded
  <2>6. u.slot # 0 => slots'[u.slot].owner = p /\ Matches(slots'[u.slot], u.slot, u, child'[p], p \in cancels')
    BY <1>3, <1>6 DEF Failed, Matches
  <2>7. IInv'
    BY <1>3, <2>1, <2>2, <2>3, <2>4, <2>5, <2>6, HoldsOn DEF Others
  <2>8. Undecided(p)
    BY <1>3, <1>6, <2>1 DEF Undecided, Failed
  <2> QED BY <2>3, <2>7, <2>8
<1>7. ASSUME NEW state \in {"REAPED", "LOST"}, NEW step \in {"FAILED", "ABORTED", "LOST_WAIT"},
             tickets' = [tickets EXCEPT ![p] = Settled(u, state, step)],
             slots' = Released(ss, t), rooted' = rooted \ {p},
             child' \in [Ticket -> Kids], pipe' \in [Ticket -> {"open", "eof", "record"}],
             \A q \in Ticket \ {p} : child'[q] = child[q],
             IF state = "REAPED" THEN step # "LOST_WAIT" /\ child'[p] = "reaped"
                                 ELSE step = "LOST_WAIT" /\ child'[p] = "stolen"
      PROVE  IInv' /\ Others(p) /\ tickets'[p].step = step /\ tickets'[p].state = state
  <2> DEFINE v == Settled(u, state, step)
  <2>1. /\ v \in TicketRecord /\ Same(v, u) /\ v.slot = 0 /\ v.step = step
        /\ v.state = state /\ ~v.pidfd /\ ~v.errfd /\ v.streams = {}
    BY <1>3, <1>7, SettledIs
  <2> HIDE DEF v
  <2>2. tickets'[p] = v /\ \A q \in Ticket \ {p} : tickets'[q] = tickets[q]
    BY <1>4, <1>7 DEF v
  <2>3. Others(p)
    BY <1>1, <1>4, <1>7, <2>2 DEF Others
  <2>4. slots' \in [Slot -> SlotRecord]
    BY <1>1, <1>7, ReleasedIs
  <2>5. TypeOK'
    BY <1>1, <1>4, <1>5, <1>7, <2>1, <2>4 DEF v
  <2>6. /\ Waiting(v, child'[p], p \in rooted') /\ Delivered(v, child'[p], p \in rooted')
        /\ Heeded(v, p \in cancels')
    BY <1>3, <1>7, <2>1 DEF Same, Failed, Waiting, Delivered, Heeded
  <2>7. t.slot # 0 => slots[t.slot].phase = "DONE" /\ ~ss[t.slot].carries
    BY DEF Failed, Matches
  <2>8. Ended(ss, p, t)
    BY DEF Failed
  <2>9. IInv'
    BY <1>1, <1>7, <2>1, <2>2, <2>3, <2>5, <2>6, <2>7, <2>8, GivesBack DEF Others
  <2> QED BY <2>1, <2>2, <2>3, <2>9
<1>8. CASE /\ child[p] = "zombie" \/ child[p] \in Alive
           /\ r = IF t.state = "ABORTING" THEN "ABORTED" ELSE "FAILED"
           /\ tickets' = [tickets EXCEPT ![p] = Settled(u, "REAPED", r)]
           /\ slots' = Released(ss, t) /\ rooted' = rooted \ {p}
           /\ child' = [child EXCEPT ![p] = "reaped"]
           /\ pipe' = [pipe EXCEPT ![p] = IF pipe[p] = "open" THEN "eof" ELSE pipe[p]]
  <2>1. /\ child' \in [Ticket -> Kids] /\ child'[p] = "reaped"
        /\ \A q \in Ticket \ {p} : child'[q] = child[q]
    BY <1>1, <1>8 DEF Kids
  <2>2. pipe' \in [Ticket -> {"open", "eof", "record"}]
    BY <1>1, <1>8
  <2>3. r \in {"FAILED", "ABORTED"} /\ (r = "ABORTED" => p \in cancels') /\ child[p] # "stolen"
    BY <1>8 DEF Heeded, Alive
  <2>4. IInv' /\ Others(p) /\ tickets'[p].step = r /\ tickets'[p].state = "REAPED"
    BY <1>7, <1>8, <2>1, <2>2, <2>3
  <2>5. Decided(p, r)
    BY <1>1, <2>1, <2>3, <2>4 DEF Decided
  <2> QED BY <2>3, <2>4, <2>5
<1>9. CASE /\ child[p] = "stolen" /\ r = "LOST_WAIT"
           /\ tickets' = [tickets EXCEPT ![p] = Settled(u, "LOST", r)]
           /\ slots' = Released(ss, t) /\ rooted' = rooted \ {p}
           /\ UNCHANGED <<child, pipe>>
  <2>1. IInv' /\ Others(p) /\ tickets'[p].step = r /\ tickets'[p].state = "LOST"
    BY <1>1, <1>7, <1>9
  <2>2. Decided(p, r)
    BY <1>9, <2>1 DEF Decided
  <2> QED BY <1>9, <2>1, <2>2
<1> QED BY <1>2, <1>6, <1>8, <1>9 DEF u

-----------------------------------------------------------------------------
(* Steps of the contract *)

Verdict(t) ==
  CASE t.state = "none" -> "none"
    [] t.state = "DISPOSED" -> "disposed"
    [] t.step = "OWNED" /\ t.state # "DISPOSED" -> "owned"
    [] t.step = "FAILED" -> "failed"
    [] t.step = "ABORTED" -> "aborted"
    [] t.step = "LOST_WAIT" -> "lost"
    [] t.step = "PENDING" /\ t.state # "none" -> "pending"

KidOf(k) == IF k \in Alive THEN "alive" ELSE IF k = "zombie" THEN "dead" ELSE k

Outcomes == [q \in Ticket |-> Verdict(tickets[q])]
KidsOf == [q \in Ticket |-> KidOf(child[q])]

LEMMA Mapping ==
  /\ [q \in Ticket |-> Outcome(q)] = Outcomes /\ [q \in Ticket |-> Kid(q)] = KidsOf
  /\ [q \in Ticket |-> Outcome(q)]' = Outcomes' /\ [q \in Ticket |-> Kid(q)]' = KidsOf'
BY DEF Outcome, Verdict, Kid, KidOf, Outcomes, KidsOf

LEMMA VerdictIs ==
  ASSUME NEW t \in TicketRecord, NEW kid, NEW root, Waiting(t, kid, root), Delivered(t, kid, root)
  PROVE  /\ t.state = "none" => Verdict(t) = "none"
         /\ t.state = "DISPOSED" => Verdict(t) = "disposed"
         /\ t.step = "OWNED" /\ t.state # "DISPOSED" => Verdict(t) = "owned"
         /\ t.step = "FAILED" => Verdict(t) = "failed"
         /\ t.step = "ABORTED" => Verdict(t) = "aborted"
         /\ t.step = "LOST_WAIT" => Verdict(t) = "lost"
         /\ t.step = "PENDING" /\ t.state # "none" => Verdict(t) = "pending"
BY DEF TicketRecord, Waiting, Delivered, Verdict

LEMMA VerdictNow ==
  ASSUME IInv, NEW p \in Ticket
  PROVE  LET t == tickets[p] IN
         /\ Outcomes[p] = Verdict(t) /\ KidsOf[p] = KidOf(child[p])
         /\ t.state = "none" => Verdict(t) = "none"
         /\ t.state = "DISPOSED" => Verdict(t) = "disposed"
         /\ t.step = "OWNED" /\ t.state # "DISPOSED" => Verdict(t) = "owned"
         /\ t.step = "FAILED" => Verdict(t) = "failed"
         /\ t.step = "ABORTED" => Verdict(t) = "aborted"
         /\ t.step = "LOST_WAIT" => Verdict(t) = "lost"
         /\ t.step = "PENDING" /\ t.state # "none" => Verdict(t) = "pending"
<1>1. /\ tickets[p] \in TicketRecord /\ Waiting(tickets[p], child[p], p \in rooted)
      /\ Delivered(tickets[p], child[p], p \in rooted)
  BY DEF IInv, TypeOK, RecordsOK, TicketOK
<1>2. Outcomes[p] = Verdict(tickets[p]) /\ KidsOf[p] = KidOf(child[p])
  BY DEF Outcomes, KidsOf
<1> QED BY <1>1, <1>2, VerdictIs

LEMMA VerdictNext ==
  ASSUME IInv', NEW p \in Ticket
  PROVE  LET t == tickets'[p] IN
         /\ t.state = "none" => Verdict(t) = "none"
         /\ t.state = "DISPOSED" => Verdict(t) = "disposed"
         /\ t.step = "OWNED" /\ t.state # "DISPOSED" => Verdict(t) = "owned"
         /\ t.step = "FAILED" => Verdict(t) = "failed"
         /\ t.step = "ABORTED" => Verdict(t) = "aborted"
         /\ t.step = "LOST_WAIT" => Verdict(t) = "lost"
         /\ t.step = "PENDING" /\ t.state # "none" => Verdict(t) = "pending"
<1>1. /\ tickets'[p] \in TicketRecord /\ Waiting(tickets'[p], child'[p], p \in rooted')
      /\ Delivered(tickets'[p], child'[p], p \in rooted')
  BY DEF IInv, TypeOK, RecordsOK, TicketOK
<1> QED BY <1>1, VerdictIs

\* Only the launch p changes for the contract.
LEMMA OneVerdict ==
  ASSUME NEW p \in Ticket, Others(p)
  PROVE  /\ Outcomes' = [Outcomes EXCEPT ![p] = Verdict(tickets'[p])]
         /\ KidsOf' = [KidsOf EXCEPT ![p] = KidOf(child'[p])]
BY DEF Others, Outcomes, KidsOf

LEMMA SameVerdict ==
  ASSUME NEW p \in Ticket, Others(p), Verdict(tickets'[p]) = Outcomes[p]
  PROVE  Outcomes' = Outcomes
<1>1. \A q \in Ticket : Verdict(tickets'[q]) = Verdict(tickets[q])
  BY DEF Others, Outcomes
<1> QED BY <1>1 DEF Outcomes

LEMMA SameKid ==
  ASSUME NEW p \in Ticket, Others(p), KidOf(child'[p]) = KidsOf[p]
  PROVE  KidsOf' = KidsOf
<1>1. \A q \in Ticket : KidOf(child'[q]) = KidOf(child[q])
  BY DEF Others, KidsOf
<1> QED BY <1>1 DEF KidsOf

Implements == [Contract!Next]_(Contract!vars)

LEMMA ContractStutters ==
  ASSUME Outcomes' = Outcomes, KidsOf' = KidsOf, cancels' = cancels PROVE Implements
BY Mapping DEF Implements, Contract!vars

\* A launch that fails, is aborted, is lost or stays undecided.
LEMMA Settles ==
  ASSUME IInv, IInv', NEW p \in Ticket, Others(p),
         tickets[p].step = "PENDING", tickets[p].state # "none",
         cancels' \in {cancels, cancels \cup {p}},
         Undecided(p) \/ \E step \in {"FAILED", "ABORTED", "LOST_WAIT"} : Decided(p, step)
  PROVE  Implements
<1>1. /\ Outcomes' = [Outcomes EXCEPT ![p] = Verdict(tickets'[p])]
      /\ KidsOf' = [KidsOf EXCEPT ![p] = KidOf(child'[p])]
  BY OneVerdict
<1>2. Outcomes[p] = "pending" /\ KidsOf[p] = KidOf(child[p]) /\ child[p] \in Kids
  BY VerdictNow DEF IInv, TypeOK, RecordsOK
<1>3. CASE Undecided(p)
  <2>1. Verdict(tickets'[p]) = "pending" /\ KidOf(child'[p]) = KidOf(child[p])
    BY <1>3, VerdictNext DEF Undecided
  <2>2. Outcomes' = Outcomes /\ KidsOf' = KidsOf
    BY <1>2, <2>1, SameVerdict, SameKid
  <2>3. CASE cancels' = cancels
    BY <2>2, <2>3, ContractStutters
  <2>4. CASE cancels' = cancels \cup {p}
    <3>1. Contract!Cancel(p)
      BY <1>2, <2>2, <2>4, Mapping DEF Contract!Cancel
    <3> QED BY <3>1 DEF Implements, Contract!Next
  <2> QED BY <2>3, <2>4
<1>4. ASSUME NEW step \in {"FAILED", "ABORTED", "LOST_WAIT"}, Decided(p, step)
      PROVE  Implements
  <2>1. CASE step = "LOST_WAIT"
    <3>1. /\ Verdict(tickets'[p]) = "lost" /\ KidOf(child'[p]) = KidOf(child[p])
          /\ KidOf(child[p]) = "stolen"
      BY <1>4, <2>1, VerdictNext DEF Decided, KidOf, Alive
    <3>2. KidsOf' = KidsOf
      BY <1>1, <1>2, <3>1 DEF KidsOf
    <3>3. Contract!GiveUp(p)
      BY <1>1, <1>2, <3>1, <3>2, Mapping DEF Contract!GiveUp
    <3> QED BY <3>3 DEF Implements, Contract!Next
  <2>2. CASE step \in {"FAILED", "ABORTED"}
    <3>1. /\ step = "FAILED" => Verdict(tickets'[p]) = "failed"
          /\ step = "ABORTED" => Verdict(tickets'[p]) = "aborted" /\ p \in cancels'
          /\ KidOf(child[p]) # "stolen"
          /\ KidOf(child'[p]) = IF KidOf(child[p]) = "none" THEN "none" ELSE "reaped"
      BY <1>4, <2>2, VerdictNext DEF Decided, KidOf, Alive
    <3>2. Contract!GiveUp(p)
      BY <1>1, <1>2, <2>2, <3>1, Mapping DEF Contract!GiveUp
    <3> QED BY <3>2 DEF Implements, Contract!Next
  <2> QED BY <2>1, <2>2
<1> QED BY <1>3, <1>4

-----------------------------------------------------------------------------
(* process_check_start *)

LEMMA OfTicket ==
  ASSUME IInv, NEW p \in Ticket
  PROVE  /\ tickets \in [Ticket -> TicketRecord] /\ tickets[p] \in TicketRecord
         /\ slots \in [Slot -> SlotRecord] /\ child[p] \in Kids
         /\ Waiting(tickets[p], child[p], p \in rooted)
         /\ Delivered(tickets[p], child[p], p \in rooted)
         /\ Heeded(tickets[p], p \in cancels)
         /\ tickets[p].slot # 0 =>
              LET k == tickets[p].slot IN
              /\ k \in Slot /\ slots[k].owner = p /\ slots[k].phase # "FREE"
              /\ Matches(slots[k], k, tickets[p], child[p], p \in cancels)
<1>1. /\ tickets \in [Ticket -> TicketRecord] /\ tickets[p] \in TicketRecord
      /\ slots \in [Slot -> SlotRecord] /\ child[p] \in Kids
      /\ TicketOK(p)
  BY DEF IInv, TypeOK, RecordsOK
<1>2. ASSUME tickets[p].slot # 0
      PROVE  LET k == tickets[p].slot IN
              /\ k \in Slot /\ slots[k].owner = p /\ slots[k].phase # "FREE"
              /\ Matches(slots[k], k, tickets[p], child[p], p \in cancels)
  <2>1. tickets[p].slot \in Slot
    BY <1>1, <1>2 DEF TicketRecord
  <2>2. SlotOK(tickets[p].slot)
    BY <2>1 DEF IInv
  <2> QED BY <1>1, <1>2, <2>1, <2>2 DEF TicketOK, SlotOK
<1> QED BY <1>1, <1>2 DEF TicketOK

\* The records of a launch that has a child, once its submission is adopted.
LEMMA CurrentIs ==
  ASSUME IInv, NEW p \in Ticket, HasChild(p)
  PROVE  LET t == Current(p)
             ss == CurrentSlots(p)
         IN  /\ t \in TicketRecord /\ ss \in [Slot -> SlotRecord]
             /\ t.state \in {"LAUNCHING", "FAILING", "ABORTING"} /\ t.step = "PENDING" /\ t.pidfd
             /\ child[p] \notin {"none", "reaped"} /\ p \in rooted
             /\ Ended(ss, p, t) /\ Heeded(t, p \in cancels)
             /\ t.slot # 0 => /\ slots[t.slot].phase = "DONE" /\ ss[t.slot].owner = p
                              /\ Matches(ss[t.slot], t.slot, t, child[p], p \in cancels)
<1> DEFINE t == tickets[p]
<1>1. /\ t \in TicketRecord /\ slots \in [Slot -> SlotRecord]
      /\ Waiting(t, child[p], p \in rooted)
      /\ Delivered(t, child[p], p \in rooted)
      /\ Heeded(t, p \in cancels)
      /\ t.slot # 0 =>
            /\ t.slot \in Slot /\ slots[t.slot].owner = p
            /\ slots[t.slot].phase # "FREE"
            /\ Matches(slots[t.slot], t.slot, t, child[p], p \in cancels)
  BY OfTicket
<1>2. t.step = "PENDING" /\ t.state # "none"
  BY DEF HasChild
<1>3. CASE t.state # "SUBMITTED"
  <2>1. Current(p) = t /\ CurrentSlots(p) = slots
    BY <1>3 DEF Current, CurrentSlots
  <2>2. /\ t.state \in {"LAUNCHING", "FAILING", "ABORTING"} /\ t.pidfd
        /\ child[p] \notin {"none", "reaped"} /\ p \in rooted
    BY <1>1, <1>2, <1>3 DEF Waiting, Delivered, TicketRecord
  <2>3. Ended(slots, p, t)
    BY DEF Ended
  <2>4. t.slot # 0 => slots[t.slot].phase = "DONE"
    BY <1>1, <1>3 DEF Matches
  <2> QED BY <1>1, <1>2, <2>1, <2>2, <2>3, <2>4
<1>4. CASE t.state = "SUBMITTED"
  <2> DEFINE k == t.slot
             ss == [slots EXCEPT ![k].carries = FALSE]
             a == Adopt(t)
             u == IF t.stop THEN Aborting(a) ELSE a
  <2>1. Current(p) = u /\ CurrentSlots(p) = ss
    BY <1>4 DEF Current, CurrentSlots, Adopted
  <2>2. k \in Slot /\ k # 0 /\ slots[k].phase = "DONE" /\ slots[k].result = "created"
        /\ ~t.pidfd /\ child[p] # "reaped" /\ p \in rooted
    BY <1>1, <1>4 DEF Waiting, HasChild, IsDone, IsCreated
  <2>3. /\ a \in TicketRecord /\ Same(a, t) /\ a.slot = t.slot /\ a.step = t.step
        /\ a.state = "LAUNCHING" /\ a.pidfd
    BY <1>1, AdoptIs
  <2> HIDE DEF a
  <2>4. /\ u \in TicketRecord /\ Same(u, t) /\ u.slot = k /\ u.step = t.step
        /\ u.state = (IF t.stop THEN "ABORTING" ELSE "LAUNCHING") /\ u.pidfd
    BY <2>3, AbortingIs DEF Same
  <2> HIDE DEF u
  <2>5. /\ ss \in [Slot -> SlotRecord] /\ \A s \in Slot : s # k => ss[s] = slots[s]
        /\ ~ss[k].carries /\ ss[k].phase = slots[k].phase /\ ss[k].stop = slots[k].stop
        /\ ss[k].generation = slots[k].generation /\ ss[k].owner = slots[k].owner
        /\ ss[k].result = slots[k].result
    BY <1>1, <2>2, UnloadIs
  <2> HIDE DEF ss
  <2>6. child[p] # "none"
    BY <1>1, <1>4, <2>2 DEF Matches
  <2>7. Ended(ss, p, u) /\ Heeded(u, p \in cancels)
    BY <1>1, <1>2, <1>4, <2>4, <2>5 DEF Ended, Heeded, Same
  <2>8. Matches(ss[k], k, u, child[p], p \in cancels)
    BY <1>1, <1>4, <2>2, <2>4, <2>5 DEF Matches, Same
  <2> QED BY <1>1, <1>2, <2>1, <2>2, <2>4, <2>5, <2>6, <2>7, <2>8
<1> QED BY <1>3, <1>4

\* What every entry point leaves alone, and its callers in order.
Quiet == CallersOK' /\ worker' = worker

LEMMA NothingChanges ==
  ASSUME IInv, Quiet, UNCHANGED <<tickets, slots, rooted, child, pipe, cancels>>
  PROVE  IInv' /\ Implements
<1>1. TypeOK'
  BY DEF IInv, TypeOK, RecordsOK, Quiet
<1>2. ASSUME NEW p \in Ticket PROVE TicketOK(p)'
  BY DEF IInv, TicketOK
<1>3. ASSUME NEW s \in Slot PROVE SlotOK(s)'
  BY DEF IInv, SlotOK
<1>4. WorkerOK'
  BY DEF IInv, WorkerOK, Quiet
<1>5. Outcomes' = Outcomes /\ KidsOf' = KidsOf
  BY DEF Outcomes, KidsOf
<1> QED BY <1>1, <1>2, <1>3, <1>4, <1>5, ContractStutters DEF IInv

LEMMA NotCreatedKeeps ==
  ASSUME IInv, Quiet, NEW p \in Ticket, NEW t \in TicketRecord, NEW ss \in [Slot -> SlotRecord], NEW r,
         NotCreated(p, t, ss, r),
         t.slot = tickets[p].slot, t.stop => p \in cancels', Ended(ss, p, t),
         t.slot # 0 => ss[t.slot].carries = slots[t.slot].carries,
         tickets[p].state = "SUBMITTED",
         cancels' \in {cancels, cancels \cup {p}}
  PROVE  IInv' /\ Implements
<1>1. /\ tickets \in [Ticket -> TicketRecord]
      /\ tickets[p] \in TicketRecord /\ slots \in [Slot -> SlotRecord]
      /\ Waiting(tickets[p], child[p], p \in rooted)
      /\ Heeded(tickets[p], p \in cancels)
      /\ t.slot \in Slot /\ t.slot # 0
      /\ Matches(slots[t.slot], t.slot, tickets[p], child[p], p \in cancels)
  BY OfTicket DEF Waiting
<1>2. /\ slots[t.slot].phase = "DONE" /\ slots[t.slot].result # "created"
      /\ r = IF ss[t.slot].result = "cancelled" THEN "ABORTED" ELSE "FAILED"
      /\ tickets' = [tickets EXCEPT ![p] = Settled(t, "REAPED", r)]
      /\ slots' = Released(ss, t) /\ rooted' = rooted \ {p}
      /\ UNCHANGED <<child, pipe>>
  BY <1>1 DEF NotCreated, IsDone, IsCreated
<1>3. child[p] = "none" /\ ~slots[t.slot].carries /\ ss[t.slot].result = slots[t.slot].result
  BY <1>1, <1>2 DEF Matches, Ended
<1>4. r \in {"FAILED", "ABORTED"} /\ (r = "ABORTED" => p \in cancels)
  BY <1>1, <1>2, <1>3 DEF Matches
<1> DEFINE u == Settled(t, "REAPED", r)
<1>5. /\ u \in TicketRecord /\ Same(u, t) /\ u.slot = 0 /\ u.step = r
      /\ u.state = "REAPED" /\ ~u.pidfd /\ ~u.errfd /\ u.streams = {}
  BY <1>4, SettledIs
<1> HIDE DEF u
<1>6. tickets'[p] = u /\ tickets' \in [Ticket -> TicketRecord]
  BY <1>1, <1>2, <1>5 DEF u
<1>7. Others(p)
  BY <1>1, <1>2 DEF Others
<1>8. slots' \in [Slot -> SlotRecord]
  BY <1>2, ReleasedIs
<1>9. TypeOK'
  BY <1>2, <1>6, <1>8 DEF IInv, TypeOK, RecordsOK, Quiet
<1>10. /\ Waiting(u, child'[p], p \in rooted') /\ Delivered(u, child'[p], p \in rooted')
       /\ Heeded(u, p \in cancels')
  BY <1>2, <1>3, <1>4, <1>5 DEF Waiting, Delivered, Heeded, Same
<1>11. IInv'
  BY <1>2, <1>3, <1>5, <1>6, <1>7, <1>9, <1>10, GivesBack DEF Others, Quiet
<1>12. Decided(p, r)
  BY <1>2, <1>3, <1>4, <1>5, <1>6 DEF Decided
<1>13. tickets[p].step = "PENDING" /\ tickets[p].state # "none"
  BY <1>1 DEF Waiting
<1> QED BY <1>4, <1>7, <1>11, <1>12, <1>13, Settles

LEMMA PendsKeeps ==
  ASSUME IInv, Quiet, NEW p \in Ticket, NEW r, CheckHandshakePends(p, r), cancels' = cancels
  PROVE  IInv' /\ Implements
<1> DEFINE t == Current(p)
           ss == CurrentSlots(p)
<1>1. /\ HasChild(p) /\ tickets' = [tickets EXCEPT ![p] = t] /\ slots' = ss
      /\ UNCHANGED <<rooted, child, pipe>> /\ t.state = "LAUNCHING"
  BY DEF CheckHandshakePends
<1>2. /\ t \in TicketRecord /\ ss \in [Slot -> SlotRecord]
      /\ t.step = "PENDING" /\ t.pidfd
      /\ child[p] \notin {"none", "reaped"} /\ p \in rooted
      /\ Ended(ss, p, t) /\ Heeded(t, p \in cancels)
      /\ t.slot # 0 => /\ ss[t.slot].owner = p
                       /\ Matches(ss[t.slot], t.slot, t, child[p], p \in cancels)
  BY <1>1, CurrentIs
<1> HIDE DEF t, ss
<1>3. tickets \in [Ticket -> TicketRecord]
  BY OfTicket
<1>4. tickets'[p] = t /\ tickets' \in [Ticket -> TicketRecord] /\ Others(p)
  BY <1>1, <1>2, <1>3 DEF Others
<1>5. TypeOK'
  BY <1>1, <1>2, <1>4 DEF IInv, TypeOK, RecordsOK, Quiet
<1>6. Waiting(t, child'[p], p \in rooted') /\ Delivered(t, child'[p], p \in rooted')
  BY <1>1, <1>2 DEF Waiting, Delivered
<1>7. Ended(slots', p, t) /\ Heeded(t, p \in cancels')
  BY <1>1, <1>2
<1>8. t.slot # 0 => /\ slots'[t.slot].owner = p
                    /\ Matches(slots'[t.slot], t.slot, t, child'[p], p \in cancels')
  BY <1>1, <1>2
<1>9. IInv'
  BY <1>2, <1>4, <1>5, <1>6, <1>7, <1>8, HoldsOn DEF Others, Quiet
<1>10. Undecided(p)
  BY <1>1, <1>2, <1>4 DEF Undecided
<1>11. tickets[p].step = "PENDING" /\ tickets[p].state # "none"
  BY <1>1 DEF HasChild
<1> QED BY <1>4, <1>9, <1>10, <1>11, Settles

\* The process becomes the program's: no cancellation was accepted before.
LEMMA TransfersKeeps ==
  ASSUME IInv, Quiet, NEW p \in Ticket, NEW r, CheckTransfers(p, r), cancels' = cancels
  PROVE  IInv' /\ Implements
<1> DEFINE t == Current(p)
           ss == CurrentSlots(p)
           u == [t EXCEPT !.state = "RUNNING", !.step = "OWNED", !.errfd = FALSE, !.slot = 0]
<1>1. /\ HasChild(p) /\ tickets' = [tickets EXCEPT ![p] = u] /\ slots' = Released(ss, t)
      /\ UNCHANGED <<rooted, child, pipe>> /\ t.state = "LAUNCHING"
  BY DEF CheckTransfers
<1>2. /\ t \in TicketRecord /\ ss \in [Slot -> SlotRecord]
      /\ t.step = "PENDING" /\ t.pidfd
      /\ child[p] \notin {"none", "reaped"} /\ p \in rooted
      /\ Ended(ss, p, t) /\ Heeded(t, p \in cancels)
      /\ t.slot # 0 => /\ slots[t.slot].phase = "DONE" /\ ss[t.slot].owner = p
                       /\ Matches(ss[t.slot], t.slot, t, child[p], p \in cancels)
  BY <1>1, CurrentIs
<1> HIDE DEF t, ss
<1>3. p \notin cancels /\ ~t.stop
  BY <1>1, <1>2 DEF Heeded
<1>4. /\ u \in TicketRecord /\ u.state = "RUNNING" /\ u.step = "OWNED" /\ u.slot = 0
      /\ u.pidfd = t.pidfd /\ u.stop = t.stop
  <2> DEFINE a == [t EXCEPT !.state = "RUNNING", !.step = "OWNED"]
             b == [a EXCEPT !.errfd = FALSE]
             d == [b EXCEPT !.slot = 0]
  <2>1. u = d
    BY Zenon
  <2>2. a \in TicketRecord /\ a.state = "RUNNING" /\ a.step = "OWNED" /\ a.pidfd = t.pidfd /\ a.stop = t.stop
    BY <1>2 DEF TicketRecord
  <2> HIDE DEF a
  <2>3. b \in TicketRecord /\ b.state = a.state /\ b.step = a.step /\ b.pidfd = a.pidfd /\ b.stop = a.stop
    BY <2>2 DEF TicketRecord
  <2> HIDE DEF b
  <2>4. d \in TicketRecord /\ d.state = b.state /\ d.step = b.step /\ d.slot = 0 /\ d.pidfd = b.pidfd /\ d.stop = b.stop
    BY <2>3 DEF TicketRecord
  <2> QED BY <2>1, <2>2, <2>3, <2>4
<1> HIDE DEF u
<1>5. tickets \in [Ticket -> TicketRecord]
  BY OfTicket
<1>6. tickets'[p] = u /\ tickets' \in [Ticket -> TicketRecord] /\ Others(p)
  BY <1>1, <1>4, <1>5 DEF Others
<1>7. slots' \in [Slot -> SlotRecord]
  BY <1>1, <1>2, ReleasedIs
<1>8. TypeOK'
  BY <1>1, <1>6, <1>7 DEF IInv, TypeOK, RecordsOK, Quiet
<1>9. /\ Waiting(u, child'[p], p \in rooted') /\ Delivered(u, child'[p], p \in rooted')
      /\ Heeded(u, p \in cancels')
  BY <1>1, <1>2, <1>3, <1>4 DEF Waiting, Delivered, Heeded
<1>10. t.slot # 0 => slots[t.slot].phase = "DONE" /\ ~ss[t.slot].carries
  BY <1>1, <1>2 DEF Matches
<1>11. IInv'
  BY <1>1, <1>2, <1>4, <1>6, <1>8, <1>9, <1>10, GivesBack DEF Others, Quiet
<1>12. /\ Outcomes' = [Outcomes EXCEPT ![p] = "owned"]
       /\ KidsOf' = [KidsOf EXCEPT ![p] = KidOf(child[p])]
  BY <1>1, <1>4, <1>6, <1>11, OneVerdict, VerdictNext
<1>13. Outcomes[p] = "pending" /\ KidsOf[p] = KidOf(child[p]) /\ KidOf(child[p]) # "none"
  BY <1>1, <1>2, VerdictNow DEF HasChild, KidOf
<1>14. KidsOf' = KidsOf
  BY <1>12, <1>13 DEF KidsOf
<1>15. Contract!HandOver(p)
  BY <1>3, <1>12, <1>13, <1>14, Mapping DEF Contract!HandOver
<1> QED BY <1>11, <1>15 DEF Implements, Contract!Next

LEMMA CleansUp ==
  ASSUME IInv, Quiet, NEW p \in Ticket, NEW t, NEW ss, NEW r, HasChild(p),
         Failed(p, t, ss), Cleanup(p, t, ss, r),
         cancels' \subseteq Ticket, cancels' \in {cancels, cancels \cup {p}},
         Heeded(t, p \in cancels'),
         t.slot # 0 => Matches(ss[t.slot], t.slot, t, child[p], p \in cancels')
  PROVE  IInv' /\ Implements
<1>1. /\ IInv' /\ Others(p)
      /\ Undecided(p) \/ \E step \in {"FAILED", "ABORTED", "LOST_WAIT"} : Decided(p, step)
  BY CleanupKeeps DEF Quiet
<1>2. tickets[p].step = "PENDING" /\ tickets[p].state # "none"
  BY DEF HasChild
<1> QED BY <1>1, <1>2, Settles

LEMMA CheckKeeps ==
  ASSUME IInv, Quiet, NEW p \in Ticket, NEW r, Check(p, r), cancels' = cancels
  PROVE  IInv' /\ Implements
<1>1. CASE CheckQueued(p, r)
  BY <1>1, NothingChanges DEF CheckQueued
<1>2. CASE CheckDecided(p, r)
  BY <1>2, NothingChanges DEF CheckDecided
<1>3. CASE CheckNotCreated(p, r)
  <2>1. NotCreated(p, tickets[p], slots, r) /\ tickets[p].state = "SUBMITTED"
    BY <1>3 DEF CheckNotCreated, NotCreated
  <2>2. /\ tickets[p] \in TicketRecord /\ slots \in [Slot -> SlotRecord]
        /\ tickets[p].stop => p \in cancels
    BY OfTicket DEF Heeded
  <2>3. Ended(slots, p, tickets[p])
    BY DEF Ended
  <2> QED BY <2>1, <2>2, <2>3, NotCreatedKeeps
<1>4. CASE CheckHandshakePends(p, r)
  BY <1>4, PendsKeeps
<1>5. CASE CheckTransfers(p, r)
  BY <1>5, TransfersKeeps
<1>6. CASE CheckSetupFailed(p, r) \/ CheckCleansUp(p, r)
  <2> DEFINE t == Current(p)
             ss == CurrentSlots(p)
  <2>1. HasChild(p) /\ \/ t.state = "LAUNCHING" /\ Cleanup(p, Failing(t), ss, r)
                       \/ t.state \in InCleanup /\ Cleanup(p, t, ss, r)
    BY <1>6 DEF CheckSetupFailed, CheckCleansUp
  <2>2. /\ t \in TicketRecord /\ ss \in [Slot -> SlotRecord]
        /\ t.state \in {"LAUNCHING", "FAILING", "ABORTING"} /\ t.step = "PENDING" /\ t.pidfd
        /\ child[p] \notin {"none", "reaped"} /\ p \in rooted
        /\ Ended(ss, p, t) /\ Heeded(t, p \in cancels)
        /\ t.slot # 0 => /\ slots[t.slot].phase = "DONE" /\ ss[t.slot].owner = p
                         /\ Matches(ss[t.slot], t.slot, t, child[p], p \in cancels)
    BY <2>1, CurrentIs
  <2> HIDE DEF t, ss
  <2>3. cancels' \subseteq Ticket
    BY DEF IInv, TypeOK, RecordsOK
  <2>4. CASE t.state = "LAUNCHING" /\ Cleanup(p, Failing(t), ss, r)
    <3> DEFINE u == Failing(t)
    <3>1. /\ u \in TicketRecord /\ Same(u, t) /\ u.slot = t.slot /\ u.step = t.step
          /\ u.state = "FAILING" /\ u.pidfd = t.pidfd
      BY <2>2, FailingIs
    <3>2. Cleanup(p, u, ss, r)
      BY <2>4
    <3> HIDE DEF u
    <3>3. Failed(p, u, ss)
      BY <2>2, <3>1 DEF Failed, Ended
    <3>4. Heeded(u, p \in cancels')
      BY <2>2, <2>4, <3>1 DEF Heeded, Same
    <3>5. u.slot # 0 => Matches(ss[u.slot], u.slot, u, child[p], p \in cancels')
      BY <2>2, <2>4, <3>1 DEF Matches, Same
    <3> QED BY <2>1, <2>3, <3>2, <3>3, <3>4, <3>5, CleansUp
  <2>5. CASE t.state \in InCleanup /\ Cleanup(p, t, ss, r)
    <3>1. Failed(p, t, ss)
      BY <2>2, <2>5 DEF Failed, InCleanup
    <3>2. Heeded(t, p \in cancels')
      BY <2>2
    <3>3. t.slot # 0 => Matches(ss[t.slot], t.slot, t, child[p], p \in cancels')
      BY <2>2
    <3> QED BY <2>1, <2>3, <2>5, <3>1, <3>2, <3>3, CleansUp
  <2> QED BY <2>1, <2>4, <2>5
<1> QED BY <1>1, <1>2, <1>3, <1>4, <1>5, <1>6 DEF Check

-----------------------------------------------------------------------------
(* mdk_process_abort_start *)

LEMMA AbortQueuedKeeps ==
  ASSUME IInv, Quiet, NEW p \in Ticket, AbortQueued(p), cancels' = cancels \cup {p}
  PROVE  IInv' /\ Implements
<1> DEFINE t == tickets[p]
           k == t.slot
           u == [t EXCEPT !.stop = TRUE]
           ss == [slots EXCEPT ![k].stop = TRUE]
<1>1. /\ t.state = "SUBMITTED" /\ tickets' = [tickets EXCEPT ![p] = u] /\ slots' = ss
      /\ UNCHANGED <<rooted, child, pipe>>
  <2>1. tickets' = [tickets EXCEPT ![p].stop = TRUE] /\ slots' = ss
    BY DEF AbortQueued, Stopped
  <2>2. [tickets EXCEPT ![p].stop = TRUE] = [tickets EXCEPT ![p] = u]
    BY Zenon
  <2> QED BY <2>1, <2>2 DEF AbortQueued
<1>2. /\ tickets \in [Ticket -> TicketRecord] /\ t \in TicketRecord
      /\ slots \in [Slot -> SlotRecord]
      /\ t.step = "PENDING" /\ ~t.pidfd /\ child[p] # "reaped" /\ p \in rooted
      /\ k \in Slot /\ k # 0 /\ slots[k].owner = p /\ slots[k].phase # "FREE"
      /\ Matches(slots[k], k, t, child[p], p \in cancels)
  BY <1>1, OfTicket DEF Waiting
<1>3. /\ u \in TicketRecord /\ u.slot = t.slot /\ u.step = t.step /\ u.stop
      /\ u.state = t.state /\ u.pidfd = t.pidfd /\ u.gen = t.gen
  BY <1>2, StopIs
<1>4. /\ ss \in [Slot -> SlotRecord] /\ \A s \in Slot : s # k => ss[s] = slots[s]
      /\ ss[k].carries = slots[k].carries /\ ss[k].phase = slots[k].phase /\ ss[k].stop
      /\ ss[k].generation = slots[k].generation /\ ss[k].owner = slots[k].owner
      /\ ss[k].result = slots[k].result
  BY <1>2, StoppedIs
<1> HIDE DEF u, ss
<1>5. tickets'[p] = u /\ tickets' \in [Ticket -> TicketRecord] /\ Others(p)
  BY <1>1, <1>2, <1>3 DEF Others
<1>6. TypeOK'
  BY <1>1, <1>4, <1>5 DEF IInv, TypeOK, RecordsOK, Quiet
<1>7. /\ Waiting(u, child'[p], p \in rooted') /\ Delivered(u, child'[p], p \in rooted')
      /\ Heeded(u, p \in cancels')
  BY <1>1, <1>2, <1>3 DEF Waiting, Delivered, Heeded
<1>8. Ended(slots', p, u)
  BY <1>1, <1>3, <1>4 DEF Ended
<1>9. u.slot # 0 => /\ slots'[u.slot].owner = p
                    /\ Matches(slots'[u.slot], u.slot, u, child'[p], p \in cancels')
  <2>1. Matches(ss[k], k, u, child[p], TRUE)
    BY <1>2, <1>3, <1>4 DEF Matches
  <2> QED BY <1>1, <1>2, <1>3, <1>4, <2>1
<1>10. IInv'
  BY <1>3, <1>5, <1>6, <1>7, <1>8, <1>9, HoldsOn DEF Others, Quiet
<1>11. Undecided(p)
  BY <1>1, <1>2, <1>3, <1>5 DEF Undecided
<1> QED BY <1>1, <1>2, <1>5, <1>10, <1>11, Settles

\* A cancellation of a launch that has a child.
LEMMA AbortLiveKeeps ==
  ASSUME IInv, Quiet, NEW p \in Ticket, AbortLive(p), cancels' = cancels \cup {p}
  PROVE  IInv' /\ Implements
<1> DEFINE c == Current(p)
           cs == CurrentSlots(p)
           submitted == tickets[p].state = "SUBMITTED"
           a == Aborting(c)
           t == [a EXCEPT !.stop = a.stop \/ submitted]
           ss == IF submitted THEN Stopped(cs, p) ELSE slots
<1>1. PICK r : HasChild(p) /\ Cleanup(p, t, ss, r)
  BY DEF AbortLive
<1>2. /\ c \in TicketRecord /\ cs \in [Slot -> SlotRecord]
      /\ c.state \in {"LAUNCHING", "FAILING", "ABORTING"} /\ c.step = "PENDING" /\ c.pidfd
      /\ child[p] \notin {"none", "reaped"} /\ p \in rooted
      /\ Ended(cs, p, c) /\ Heeded(c, p \in cancels)
      /\ c.slot # 0 => /\ slots[c.slot].phase = "DONE" /\ cs[c.slot].owner = p
                       /\ Matches(cs[c.slot], c.slot, c, child[p], p \in cancels)
  BY <1>1, CurrentIs
<1>3. ~submitted => cs = slots
  BY DEF CurrentSlots
<1>4. submitted => c.slot = tickets[p].slot /\ tickets[p].slot \in Slot /\ c.slot # 0
  BY <1>2, OfTicket DEF Ended, Waiting
<1> HIDE DEF c, cs
<1>5. /\ a \in TicketRecord /\ Same(a, c) /\ a.slot = c.slot /\ a.step = c.step
      /\ a.state = "ABORTING" /\ a.pidfd = c.pidfd
  BY <1>2, AbortingIs
<1> HIDE DEF a, submitted
<1>7. /\ t \in TicketRecord /\ t.slot = a.slot /\ t.step = a.step
      /\ t.state = a.state /\ t.pidfd = a.pidfd /\ t.gen = a.gen
  <2>1. PICK b \in BOOLEAN : b = (a.stop \/ submitted)
    BY <1>5 DEF TicketRecord, submitted
  <2> QED BY <1>5, <2>1, StopIs
<1>8. /\ ss \in [Slot -> SlotRecord] /\ \A s \in Slot : s # t.slot => ss[s] = cs[s]
      /\ t.slot # 0 => /\ ss[t.slot].carries = cs[t.slot].carries /\ ss[t.slot].phase = cs[t.slot].phase
                       /\ ss[t.slot].generation = cs[t.slot].generation
                       /\ ss[t.slot].owner = cs[t.slot].owner /\ ss[t.slot].result = cs[t.slot].result
                       /\ cs[t.slot].stop => ss[t.slot].stop
  <2>1. CASE submitted
    <3> DEFINE k == tickets[p].slot
    <3>1. ss = [cs EXCEPT ![k].stop = TRUE]
      BY <2>1 DEF Stopped
    <3>2. k \in Slot /\ t.slot = k
      BY <1>4, <1>5, <1>7, <2>1
    <3> HIDE DEF ss, t, k
    <3> QED BY <1>2, <3>1, <3>2, StoppedIs
  <2>2. CASE ~submitted
    BY <1>2, <1>3, <2>2
  <2> QED BY <2>1, <2>2
<1> HIDE DEF t, ss
<1>9. Failed(p, t, ss)
  BY <1>2, <1>5, <1>7, <1>8 DEF Failed, Ended
<1>10. Heeded(t, p \in cancels')
  BY <1>5, <1>7 DEF Heeded
<1>11. t.slot # 0 => Matches(ss[t.slot], t.slot, t, child[p], p \in cancels')
  <2> SUFFICES ASSUME t.slot # 0 PROVE Matches(ss[t.slot], t.slot, t, child[p], p \in cancels')
    OBVIOUS
  <2>1. Matches(cs[t.slot], t.slot, c, child[p], p \in cancels)
    BY <1>2, <1>5, <1>7
  <2>2. /\ t.gen = c.gen /\ t.slot = c.slot /\ t.state = "ABORTING" /\ c.state # "SUBMITTED"
        /\ p \in cancels'
    BY <1>2, <1>5, <1>7 DEF Same
  <2>3. Matches(ss[t.slot], t.slot, t, child[p], TRUE)
    <3>1. ss[t.slot].phase = "DONE"
      BY <1>9 DEF Failed, Ended
    <3>2. ss[t.slot].result = "cancelled" => ss[t.slot].stop
      BY <1>8, <2>1 DEF Matches
    <3> QED BY <1>8, <2>1, <2>2, <3>1, <3>2 DEF Matches
  <2> QED BY <2>2, <2>3
<1>12. cancels' \subseteq Ticket
  BY DEF IInv, TypeOK, RecordsOK
<1> QED BY <1>1, <1>9, <1>10, <1>11, <1>12, CleansUp

LEMMA AbortStartKeeps ==
  ASSUME IInv, Quiet, NEW p \in Ticket, tickets[p].step = "PENDING",
         \/ AbortQueued(p)
         \/ \E r \in Results :
              NotCreated(p, [tickets[p] EXCEPT !.stop = TRUE], Stopped(slots, p), r)
         \/ AbortLive(p),
         cancels' = cancels \cup {p}
  PROVE  IInv' /\ Implements
<1>1. CASE AbortQueued(p)
  BY <1>1, AbortQueuedKeeps
<1>2. CASE AbortLive(p)
  BY <1>2, AbortLiveKeeps
<1>3. ASSUME NEW r \in Results, NotCreated(p, [tickets[p] EXCEPT !.stop = TRUE], Stopped(slots, p), r)
      PROVE  IInv' /\ Implements
  <2> DEFINE t == [tickets[p] EXCEPT !.stop = TRUE]
             k == tickets[p].slot
             ss == [slots EXCEPT ![k].stop = TRUE]
  <2>1. NotCreated(p, t, ss, r)
    BY <1>3 DEF Stopped
  <2>2. /\ t \in TicketRecord /\ t.slot = k /\ t.state = tickets[p].state
        /\ slots \in [Slot -> SlotRecord]
    BY OfTicket, StopIs
  <2> HIDE DEF t, ss
  <2>3. tickets[p].state = "SUBMITTED"
    BY <2>1, <2>2 DEF NotCreated
  <2>4. k \in Slot
    BY <2>3, OfTicket DEF Waiting
  <2> HIDE DEF k
  <2>5. /\ ss \in [Slot -> SlotRecord] /\ \A s \in Slot : s # k => ss[s] = slots[s]
        /\ ss[k].carries = slots[k].carries /\ ss[k].phase = slots[k].phase
        /\ ss[k].result = slots[k].result
    BY <2>2, <2>4, StoppedIs DEF ss
  <2>6. Ended(ss, p, t)
    BY <2>2, <2>5 DEF Ended, k
  <2>7. t.stop => p \in cancels'
    OBVIOUS
  <2> QED BY <2>1, <2>2, <2>3, <2>5, <2>6, <2>7, NotCreatedKeeps DEF k
<1> QED BY <1>1, <1>2, <1>3

-----------------------------------------------------------------------------
(* Beginning a launch, and using a process *)

\* A step of the launch p, which holds no submission, to the ticket u.
Slotless(p, u) ==
  /\ tickets[p].slot = 0 /\ u.slot = 0
  /\ tickets' = [tickets EXCEPT ![p] = u] /\ UNCHANGED <<slots, pipe, cancels>>
  /\ child' \in [Ticket -> Kids] /\ rooted' \subseteq Ticket
  /\ \A q \in Ticket \ {p} : child'[q] = child[q] /\ (q \in rooted') = (q \in rooted)
  /\ Waiting(u, child'[p], p \in rooted') /\ Delivered(u, child'[p], p \in rooted')
  /\ Heeded(u, p \in cancels)

LEMMA SlotlessKeeps ==
  ASSUME IInv, Quiet, NEW p \in Ticket, NEW u \in TicketRecord, Slotless(p, u)
  PROVE  IInv' /\ Others(p) /\ tickets'[p] = u
<1>1. tickets \in [Ticket -> TicketRecord] /\ tickets' = [tickets EXCEPT ![p] = u]
  BY OfTicket DEF Slotless
<1>2. tickets'[p] = u /\ tickets' \in [Ticket -> TicketRecord] /\ Others(p)
  BY <1>1 DEF Others, Slotless
<1>3. TypeOK'
  BY <1>2 DEF IInv, TypeOK, RecordsOK, Quiet, Slotless
<1>4. Ended(slots', p, u)
  BY DEF Ended, Slotless
<1>5. /\ Waiting(u, child'[p], p \in rooted') /\ Delivered(u, child'[p], p \in rooted')
      /\ Heeded(u, p \in cancels') /\ u.slot = 0
  BY DEF Slotless
<1> QED BY <1>2, <1>3, <1>4, <1>5, HoldsOn DEF Others, Quiet

LEMMA FreshIs == Fresh \in TicketRecord
BY DEF Fresh, TicketRecord

LEMMA BeginKeeps ==
  ASSUME IInv, Quiet, NEW c \in Caller, NEW p \in Ticket, Begin(c, p)
  PROVE  IInv' /\ Implements
<1> DEFINE u == Adopt(Fresh)
<1>1. /\ tickets[p].state = "none" /\ tickets' = [tickets EXCEPT ![p] = u]
      /\ rooted' = rooted \cup {p} /\ child' = [child EXCEPT ![p] = "setup"]
      /\ UNCHANGED <<slots, pipe, cancels>>
  BY DEF Begin
<1>2. /\ tickets[p].step = "PENDING" /\ tickets[p].slot = 0 /\ child[p] = "none" /\ p \notin cancels
      /\ child \in [Ticket -> Kids] /\ rooted \subseteq Ticket
  BY <1>1, OfTicket DEF Waiting, Heeded, IInv, TypeOK, RecordsOK
<1>3. /\ u \in TicketRecord /\ ~u.stop /\ u.slot = 0 /\ u.step = "PENDING"
      /\ u.state = "LAUNCHING" /\ u.pidfd
  <2>1. Fresh.slot = 0 /\ Fresh.step = "PENDING" /\ ~Fresh.stop
    BY DEF Fresh
  <2> QED BY <2>1, FreshIs, AdoptIs DEF Same
<1> HIDE DEF u
<1>4. /\ child' \in [Ticket -> Kids] /\ child'[p] = "setup" /\ rooted' \subseteq Ticket /\ p \in rooted'
      /\ \A q \in Ticket \ {p} : child'[q] = child[q] /\ (q \in rooted') = (q \in rooted)
  BY <1>1, <1>2 DEF Kids
<1>5. Waiting(u, child'[p], p \in rooted') /\ Delivered(u, child'[p], p \in rooted') /\ Heeded(u, p \in cancels)
  BY <1>2, <1>3, <1>4 DEF Waiting, Delivered, Heeded
<1>6. IInv' /\ Others(p) /\ tickets'[p] = u
  <2>1. Slotless(p, u)
    BY <1>1, <1>2, <1>3, <1>4, <1>5 DEF Slotless
  <2> QED BY <1>3, <2>1, SlotlessKeeps
<1>7. /\ Outcomes' = [Outcomes EXCEPT ![p] = "pending"]
      /\ KidsOf' = [KidsOf EXCEPT ![p] = "alive"]
  BY <1>3, <1>4, <1>6, OneVerdict, VerdictNext DEF KidOf, Alive
<1>8. Outcomes[p] = "none"
  BY <1>1, VerdictNow
<1>9. Contract!Ask(p)
  BY <1>1, <1>7, <1>8, Mapping DEF Contract!Ask
<1> QED BY <1>6, <1>9 DEF Implements, Contract!Next

LEMMA PollExitKeeps ==
  ASSUME IInv, Quiet, NEW c \in Caller, NEW p \in Ticket, PollExit(c, p)
  PROVE  IInv' /\ Implements
<1> DEFINE t == tickets[p]
<1>1. t.state = "RUNNING" /\ UNCHANGED <<rooted, slots, pipe, cancels>>
  BY DEF PollExit
<1>2. /\ t \in TicketRecord /\ t.step = "OWNED" /\ t.slot = 0 /\ p \in rooted
      /\ Heeded(t, p \in cancels) /\ child \in [Ticket -> Kids] /\ rooted \subseteq Ticket
  BY <1>1, OfTicket DEF Delivered, IInv, TypeOK, RecordsOK
<1>3. ASSUME NEW state \in {"REAPED", "LOST"},
             tickets' = [tickets EXCEPT ![p] = [t EXCEPT !.state = state, !.pidfd = FALSE]],
             child' = [child EXCEPT ![p] = IF state = "REAPED" THEN "reaped" ELSE "stolen"]
      PROVE  IInv' /\ Others(p) /\ tickets'[p].step = "OWNED" /\ tickets'[p].state = state
  <2> DEFINE u == [t EXCEPT !.state = state, !.pidfd = FALSE]
  <2>1. /\ u \in TicketRecord /\ u.state = state /\ ~u.pidfd /\ u.step = "OWNED" /\ u.slot = 0
        /\ u.stop = t.stop
    BY <1>2 DEF TicketRecord
  <2> HIDE DEF u
  <2>2. /\ child' \in [Ticket -> Kids] /\ \A q \in Ticket \ {p} : child'[q] = child[q]
        /\ child'[p] = IF state = "REAPED" THEN "reaped" ELSE "stolen"
    BY <1>2, <1>3 DEF Kids
  <2>3. Waiting(u, child'[p], p \in rooted') /\ Delivered(u, child'[p], p \in rooted') /\ Heeded(u, p \in cancels)
    BY <1>1, <1>2, <2>1, <2>2 DEF Waiting, Delivered, Heeded
  <2>4. tickets' = [tickets EXCEPT ![p] = u] /\ tickets[p].slot = 0
    BY <1>2, <1>3 DEF u
  <2>5. Slotless(p, u)
    BY <1>1, <1>2, <2>1, <2>2, <2>3, <2>4 DEF Slotless
  <2> QED BY <2>1, <2>4, <2>5, SlotlessKeeps
<1>4. \/ /\ child[p] = "zombie" /\ child' = [child EXCEPT ![p] = "reaped"]
         /\ tickets' = [tickets EXCEPT ![p] = [t EXCEPT !.state = "REAPED", !.pidfd = FALSE]]
      \/ /\ child[p] = "stolen" /\ child' = child
         /\ tickets' = [tickets EXCEPT ![p] = [t EXCEPT !.state = "LOST", !.pidfd = FALSE]]
  <2>1. \A s \in {"REAPED", "LOST"} : [tickets EXCEPT ![p].state = s, ![p].pidfd = FALSE] =
                  [tickets EXCEPT ![p] = [t EXCEPT !.state = s, !.pidfd = FALSE]]
    <3> SUFFICES ASSUME NEW s \in {"REAPED", "LOST"}
                 PROVE  [tickets EXCEPT ![p].state = s, ![p].pidfd = FALSE] =
                        [tickets EXCEPT ![p] = [t EXCEPT !.state = s, !.pidfd = FALSE]]
      OBVIOUS
    <3> DEFINE a == [tickets EXCEPT ![p].state = s]
    <3>1. tickets \in [Ticket -> TicketRecord] /\ a = [tickets EXCEPT ![p] = [t EXCEPT !.state = s]]
      BY OfTicket
    <3> QED BY <3>1
  <2> QED BY <2>1 DEF PollExit
<1>5. Outcomes[p] = "owned" /\ KidsOf[p] = KidOf(child[p])
  BY <1>1, <1>2, VerdictNow
<1>6. CASE /\ child[p] = "zombie" /\ child' = [child EXCEPT ![p] = "reaped"]
           /\ tickets' = [tickets EXCEPT ![p] = [t EXCEPT !.state = "REAPED", !.pidfd = FALSE]]
  <2>1. IInv' /\ Others(p) /\ tickets'[p].step = "OWNED" /\ tickets'[p].state = "REAPED"
    BY <1>3, <1>6
  <2>2. Outcomes' = Outcomes
    BY <1>5, <2>1, OneVerdict, VerdictNext DEF Outcomes
  <2>3. KidsOf[p] = "dead" /\ KidsOf' = [KidsOf EXCEPT ![p] = "reaped"]
    BY <1>2, <1>5, <1>6, <2>1, OneVerdict DEF KidOf, Alive
  <2>4. Contract!Wait(p)
    BY <1>1, <1>5, <2>2, <2>3, Mapping DEF Contract!Wait
  <2> QED BY <2>1, <2>4 DEF Implements, Contract!Next
<1>7. CASE /\ child[p] = "stolen" /\ child' = child
           /\ tickets' = [tickets EXCEPT ![p] = [t EXCEPT !.state = "LOST", !.pidfd = FALSE]]
  <2>1. child' = [child EXCEPT ![p] = "stolen"]
    BY <1>2, <1>7
  <2>2. IInv' /\ Others(p) /\ tickets'[p].step = "OWNED" /\ tickets'[p].state = "LOST"
    BY <1>3, <1>7, <2>1
  <2>3. Outcomes' = Outcomes /\ KidsOf' = KidsOf
    BY <1>5, <1>7, <2>2, OneVerdict, VerdictNext DEF Outcomes, KidsOf
  <2> QED BY <1>1, <2>2, <2>3, ContractStutters
<1> QED BY <1>4, <1>6, <1>7

LEMMA CloseStdinKeeps ==
  ASSUME IInv, Quiet, NEW c \in Caller, NEW p \in Ticket, CloseStdin(c, p)
  PROVE  IInv' /\ Implements
<1> DEFINE t == tickets[p]
           u == [t EXCEPT !.streams = t.streams \ {Stdin}]
<1>1. /\ t.step = "OWNED" /\ t.state # "DISPOSED"
      /\ UNCHANGED <<slots, rooted, child, pipe, cancels>>
  BY DEF CloseStdin, MayUse
<1>2. /\ t \in TicketRecord /\ tickets \in [Ticket -> TicketRecord]
      /\ Waiting(t, child[p], p \in rooted) /\ Delivered(t, child[p], p \in rooted)
      /\ Heeded(t, p \in cancels) /\ child \in [Ticket -> Kids] /\ rooted \subseteq Ticket
  BY OfTicket DEF IInv, TypeOK, RecordsOK
<1>3. tickets' = [tickets EXCEPT ![p] = u]
  BY <1>2 DEF CloseStdin
<1>4. /\ u \in TicketRecord /\ u.slot = t.slot /\ u.step = t.step /\ u.stop = t.stop
      /\ u.state = t.state /\ u.pidfd = t.pidfd
  BY <1>2 DEF TicketRecord
<1> HIDE DEF u
<1>5. t.slot = 0
  BY <1>1, <1>2 DEF TicketRecord, Waiting, Delivered
<1>6. Waiting(u, child'[p], p \in rooted') /\ Delivered(u, child'[p], p \in rooted') /\ Heeded(u, p \in cancels)
  BY <1>1, <1>2, <1>4 DEF Waiting, Delivered, Heeded
<1>7. IInv' /\ Others(p) /\ tickets'[p] = u
  <2>1. Slotless(p, u)
    BY <1>1, <1>2, <1>3, <1>4, <1>5, <1>6 DEF Slotless, CloseStdin
  <2> QED BY <1>4, <2>1, SlotlessKeeps
<1>8. Outcomes[p] = "owned" /\ KidsOf[p] = KidOf(child[p])
  BY <1>1, VerdictNow
<1>9. Outcomes' = Outcomes /\ KidsOf' = KidsOf
  <2>1. tickets'[p].step = "OWNED" /\ tickets'[p].state # "DISPOSED" /\ child'[p] = child[p]
    BY <1>1, <1>4, <1>7
  <2>2. Verdict(tickets'[p]) = "owned"
    BY <1>7, <2>1, VerdictNext
  <2> QED BY <1>7, <1>8, <2>1, <2>2, SameVerdict, SameKid
<1> QED BY <1>1, <1>7, <1>9, ContractStutters

LEMMA DisposeKeeps ==
  ASSUME IInv, Quiet, NEW c \in Caller, NEW p \in Ticket, Dispose(c, p)
  PROVE  IInv' /\ Implements
<1> DEFINE t == tickets[p]
           u == [t EXCEPT !.state = "DISPOSED", !.pidfd = FALSE, !.streams = {}]
<1>1. /\ t.step = "OWNED" /\ t.state \notin {"DISPOSED", "RUNNING"}
      /\ rooted' = rooted \ {p}
      /\ UNCHANGED <<slots, child, pipe, cancels>>
  BY DEF Dispose, MayUse
<1>2. /\ t \in TicketRecord /\ tickets \in [Ticket -> TicketRecord]
      /\ Waiting(t, child[p], p \in rooted) /\ Delivered(t, child[p], p \in rooted)
      /\ Heeded(t, p \in cancels) /\ child \in [Ticket -> Kids] /\ rooted \subseteq Ticket
  BY OfTicket DEF IInv, TypeOK, RecordsOK
<1>3. tickets' = [tickets EXCEPT ![p] = u]
  <2> DEFINE a == [tickets EXCEPT ![p].state = "DISPOSED"]
             b == [a EXCEPT ![p].pidfd = FALSE]
  <2>1. a = [tickets EXCEPT ![p] = [t EXCEPT !.state = "DISPOSED"]]
    BY <1>2
  <2>2. b = [tickets EXCEPT ![p] = [t EXCEPT !.state = "DISPOSED", !.pidfd = FALSE]]
    BY <1>2, <2>1
  <2>3. [b EXCEPT ![p].streams = {}] = [tickets EXCEPT ![p] = u]
    BY <1>2, <2>2
  <2> QED BY <2>3 DEF Dispose
<1>4. /\ u \in TicketRecord /\ u.slot = t.slot /\ u.step = t.step /\ u.stop = t.stop
      /\ u.state = "DISPOSED" /\ ~u.pidfd
  BY <1>2 DEF TicketRecord
<1> HIDE DEF u
<1>5. t.slot = 0 /\ child[p] \in {"reaped", "stolen"}
  BY <1>1, <1>2 DEF TicketRecord, Waiting, Delivered
<1>6. Waiting(u, child'[p], p \in rooted') /\ Delivered(u, child'[p], p \in rooted') /\ Heeded(u, p \in cancels)
  BY <1>1, <1>2, <1>4, <1>5 DEF Waiting, Delivered, Heeded
<1>7. IInv' /\ Others(p) /\ tickets'[p] = u
  <2>1. /\ child' \in [Ticket -> Kids] /\ rooted' \subseteq Ticket
        /\ \A q \in Ticket \ {p} : child'[q] = child[q] /\ (q \in rooted') = (q \in rooted)
    BY <1>1, <1>2
  <2>2. Slotless(p, u)
    BY <1>1, <1>3, <1>4, <1>5, <1>6, <2>1 DEF Slotless
  <2> QED BY <1>4, <2>2, SlotlessKeeps
<1>8. Outcomes[p] = "owned" /\ KidsOf[p] \in {"reaped", "stolen"} /\ KidsOf[p] = KidOf(child[p])
  BY <1>1, <1>5, VerdictNow DEF KidOf, Alive
<1>9. Outcomes' = [Outcomes EXCEPT ![p] = "disposed"] /\ KidsOf' = KidsOf
  BY <1>1, <1>4, <1>7, <1>8, OneVerdict, VerdictNext DEF KidsOf
<1>10. Contract!GiveBack(p)
  BY <1>1, <1>8, <1>9, Mapping DEF Contract!GiveBack
<1> QED BY <1>7, <1>10 DEF Implements, Contract!Next

LEMMA LeastNat ==
  ASSUME NEW T, T \subseteq Nat, T # {}
  PROVE  \E d \in T : \A e \in T : d <= e
<1>1. PICK d \in T : \A y \in T : ~ (<<y, d>> \in OpToRel(<, Nat))
  BY NatLessThanWellFounded, WFMin, Zenon
<1>2. \A y \in T : ~ (y < d)
  BY <1>1 DEF OpToRel
<1> QED BY <1>2

\* submit takes the first free submission.
LEMMA FirstFreeIs ==
  ASSUME FreeSlot # {} PROVE FirstFree \in FreeSlot
<1>1. FreeSlot \subseteq Nat
  BY DEF FreeSlot
<1>2. \E s \in FreeSlot : \A u \in FreeSlot : s <= u
  BY <1>1, LeastNat
<1> QED BY <1>2 DEF FirstFree
LEMMA SubmitKeeps ==
  ASSUME IInv, Quiet, NEW c \in Caller, NEW p \in Ticket, Submit(c, p)
  PROVE  IInv' /\ Implements
<1> DEFINE s == FirstFree
           g == slots[s].generation + 1
           n == [phase |-> "QUEUED", stop |-> FALSE, generation |-> g, owner |-> p,
                 result |-> "none", carries |-> FALSE]
           u == [Fresh EXCEPT !.state = "SUBMITTED", !.slot = s, !.gen = g]
<1>1. /\ tickets[p].state = "none" /\ FreeSlot # {}
      /\ slots' = [slots EXCEPT ![s] = n] /\ tickets' = [tickets EXCEPT ![p] = u]
      /\ rooted' = rooted \cup {p} /\ UNCHANGED <<child, pipe, cancels>>
  BY DEF Submit
<1>2. s \in Slot /\ slots[s].phase = "FREE"
  BY <1>1, FirstFreeIs DEF FreeSlot
<1>3. /\ tickets \in [Ticket -> TicketRecord] /\ slots \in [Slot -> SlotRecord]
      /\ tickets[p].step = "PENDING" /\ tickets[p].slot = 0 /\ child[p] = "none" /\ p \notin cancels
  BY <1>1, OfTicket DEF Waiting, Heeded
<1> HIDE DEF s
<1>4. g \in Nat
  BY <1>2, <1>3 DEF SlotRecord
<1> HIDE DEF g
<1>5. /\ n \in SlotRecord /\ n.phase = "QUEUED" /\ ~n.stop /\ n.generation = g
      /\ n.owner = p /\ n.result = "none" /\ ~n.carries
  BY <1>4 DEF SlotRecord
<1>6. /\ u \in TicketRecord /\ u.state = "SUBMITTED" /\ u.slot = s /\ u.gen = g
      /\ u.step = "PENDING" /\ ~u.pidfd /\ ~u.stop /\ u.streams = {} /\ ~u.errfd
  <2> DEFINE a == [Fresh EXCEPT !.state = "SUBMITTED"]
             b == [a EXCEPT !.slot = s]
             d == [b EXCEPT !.gen = g]
  <2>1. u = d
    BY Zenon
  <2>2. /\ a \in TicketRecord /\ a.state = "SUBMITTED" /\ a.step = "PENDING"
        /\ ~a.pidfd /\ ~a.stop /\ a.streams = {} /\ ~a.errfd
    <3>1. /\ Fresh.step = "PENDING" /\ ~Fresh.pidfd /\ ~Fresh.stop /\ Fresh.streams = {}
          /\ ~Fresh.errfd
      BY DEF Fresh
    <3> QED BY <3>1, FreshIs DEF TicketRecord
  <2> HIDE DEF a
  <2>3. /\ b \in TicketRecord /\ b.state = a.state /\ b.step = a.step /\ b.pidfd = a.pidfd
        /\ b.stop = a.stop /\ b.streams = a.streams /\ b.errfd = a.errfd /\ b.slot = s
    BY <1>2, <2>2 DEF TicketRecord
  <2> HIDE DEF b
  <2>4. /\ d \in TicketRecord /\ d.state = b.state /\ d.step = b.step /\ d.pidfd = b.pidfd
        /\ d.stop = b.stop /\ d.streams = b.streams /\ d.errfd = b.errfd /\ d.slot = b.slot
        /\ d.gen = g
    BY <1>4, <2>3 DEF TicketRecord
  <2> HIDE DEF d
  <2> QED BY <2>1, <2>2, <2>3, <2>4
<1> HIDE DEF n, u
<1>7. /\ slots' \in [Slot -> SlotRecord] /\ slots'[s] = n
      /\ \A x \in Slot : x # s => slots'[x] = slots[x]
      /\ tickets' \in [Ticket -> TicketRecord] /\ tickets'[p] = u
      /\ \A q \in Ticket \ {p} : tickets'[q] = tickets[q]
  BY <1>1, <1>2, <1>3, <1>5, <1>6
<1>8. Others(p) /\ p \in rooted'
  BY <1>1, <1>7 DEF Others
<1>9. TypeOK'
  BY <1>1, <1>7 DEF IInv, TypeOK, RecordsOK, Quiet
<1>10. ASSUME NEW q \in Ticket PROVE TicketOK(q)'
  <2>1. CASE q = p
    <3>1. Waiting(u, child'[p], p \in rooted')
      BY <1>1, <1>2, <1>3, <1>6, <1>8 DEF Waiting
    <3>2. Delivered(u, child'[p], p \in rooted') /\ Heeded(u, p \in cancels')
      BY <1>1, <1>3, <1>6 DEF Delivered, Heeded
    <3> QED BY <1>5, <1>6, <1>7, <2>1, <3>1, <3>2 DEF TicketOK
  <2>2. CASE q # p
    <3>1. tickets'[q] = tickets[q] /\ TicketOK(q)
      BY <1>7, <2>2 DEF IInv
    <3>2. tickets[q].slot # 0 => slots'[tickets[q].slot] = slots[tickets[q].slot]
      BY <1>2, <1>3, <1>7, <3>1 DEF TicketOK, TicketRecord
    <3> QED BY <1>8, <2>2, <3>1, <3>2 DEF TicketOK, Others
  <2> QED BY <2>1, <2>2
<1>11. ASSUME NEW x \in Slot PROVE SlotOK(x)'
  <2>1. CASE x = s
    <3>1. Matches(n, s, u, child'[p], p \in cancels')
      BY <1>1, <1>3, <1>5, <1>6 DEF Matches
    <3> QED BY <1>5, <1>7, <2>1, <3>1 DEF SlotOK
  <2>2. CASE x # s
    <3>1. slots'[x] = slots[x] /\ SlotOK(x)
      BY <1>7, <2>2 DEF IInv
    <3>2. CASE slots[x].phase = "FREE"
      BY <3>1, <3>2 DEF SlotOK
    <3>3. CASE slots[x].phase # "FREE"
      <4> DEFINE o == slots[x].owner
      <4>1. o \in Ticket /\ tickets[o].slot = x /\ x # 0
        BY <3>1, <3>3 DEF SlotOK, Matches
      <4>2. o # p
        BY <1>3, <4>1
      <4>3. tickets'[o] = tickets[o] /\ child'[o] = child[o] /\ (o \in cancels') = (o \in cancels)
        BY <1>8, <4>1, <4>2 DEF Others
      <4> QED BY <3>1, <3>3, <4>1, <4>3 DEF SlotOK
    <3> QED BY <3>2, <3>3
  <2> QED BY <2>1, <2>2
<1>12. WorkerOK'
  <2>1. worker' = worker /\ WorkerOK /\ worker.job \in Slot
    BY DEF IInv, TypeOK, RecordsOK, Quiet
  <2>2. \A x \in Slot : slots[x].phase = "WORKING" => x # s
    BY <1>2
  <2>3. \A x \in Slot : slots'[x].phase = "WORKING" => slots[x].phase = "WORKING"
    BY <1>5, <1>7
  <2>4. slots[worker.job].phase = "WORKING" => slots'[worker.job] = slots[worker.job]
    BY <1>7, <2>1, <2>2
  <2> QED BY <2>1, <2>3, <2>4 DEF WorkerOK
<1>13. IInv'
  BY <1>9, <1>10, <1>11, <1>12 DEF IInv
<1>14. Verdict(tickets'[p]) = "pending"
  BY <1>6, <1>7, <1>13, VerdictNext
<1>15. Outcomes' = [Outcomes EXCEPT ![p] = "pending"] /\ KidsOf' = KidsOf
  BY <1>1, <1>8, <1>14, OneVerdict DEF KidsOf
<1>16. Outcomes[p] = "none"
  BY <1>1, VerdictNow
<1>17. Contract!Ask(p)
  BY <1>1, <1>15, <1>16, Mapping DEF Contract!Ask
<1> QED BY <1>13, <1>17 DEF Implements, Contract!Next
-----------------------------------------------------------------------------
(* The worker and the children *)

\* The worker changes the submission k it holds, and may make its child.
LEMMA WorkerKeeps ==
  ASSUME IInv, TypeOK', WorkerOK', NEW k \in Slot, slots[k].phase \in {"QUEUED", "WORKING"},
         slots'[k].phase # "FREE", slots'[k].owner = slots[k].owner,
         \A s \in Slot : s # k => slots'[s] = slots[s],
         UNCHANGED <<tickets, rooted, cancels>>,
         \A q \in Ticket : child'[q] = child[q] \/ (q = slots[k].owner /\ child'[q] = "setup"),
         Matches(slots'[k], k, tickets[slots[k].owner], child'[slots[k].owner],
                 slots[k].owner \in cancels)
  PROVE  IInv'
<1> DEFINE o == slots[k].owner
<1>1. o \in Ticket /\ tickets[o].slot = k /\ tickets[o].state = "SUBMITTED"
  BY DEF IInv, SlotOK, Matches
<1>2. ASSUME NEW q \in Ticket PROVE TicketOK(q)'
  <2>1. TicketOK(q)
    BY DEF IInv
  <2>2. tickets[q].slot # 0 => /\ slots'[tickets[q].slot].owner = q
                               /\ slots'[tickets[q].slot].phase # "FREE"
    <3> SUFFICES ASSUME tickets[q].slot # 0
                 PROVE  /\ slots'[tickets[q].slot].owner = q
                        /\ slots'[tickets[q].slot].phase # "FREE"
      OBVIOUS
    <3>1. /\ tickets[q].slot \in Slot /\ slots[tickets[q].slot].owner = q
          /\ slots[tickets[q].slot].phase # "FREE"
      BY OfTicket
    <3>2. CASE tickets[q].slot = k
      BY <3>1, <3>2
    <3>3. CASE tickets[q].slot # k
      BY <3>1, <3>3
    <3> QED BY <3>2, <3>3
  <2>3. CASE child'[q] = child[q]
    BY <2>1, <2>2, <2>3 DEF TicketOK
  <2>4. CASE q = o /\ child'[q] = "setup"
    BY <1>1, <2>1, <2>2, <2>4 DEF TicketOK, Waiting, Delivered
  <2> QED BY <2>3, <2>4
<1>3. ASSUME NEW s \in Slot PROVE SlotOK(s)'
  <2>1. CASE s = k
    BY <1>1, <2>1 DEF SlotOK
  <2>2. CASE s # k
    <3>1. slots'[s] = slots[s] /\ SlotOK(s)
      BY <2>2 DEF IInv
    <3>2. CASE slots[s].phase = "FREE"
      BY <3>1, <3>2 DEF SlotOK
    <3>3. CASE slots[s].phase # "FREE"
      <4> DEFINE x == slots[s].owner
      <4>1. x \in Ticket /\ tickets[x].slot = s
        BY <3>1, <3>3 DEF SlotOK, Matches
      <4>2. child'[x] = child[x]
        BY <1>1, <2>2, <4>1
      <4> QED BY <3>1, <3>3, <4>1, <4>2 DEF SlotOK
    <3> QED BY <3>2, <3>3
  <2> QED BY <2>1, <2>2
<1> QED BY <1>2, <1>3 DEF IInv

\* The submission the worker holds.
LEMMA HeldIs ==
  ASSUME IInv, worker.pc \in {"taken", "prepared", "cloning", "finishing"}
  PROVE  LET k == worker.job IN
         /\ k \in Slot /\ slots[k] \in SlotRecord /\ slots[k].phase = "WORKING"
         /\ slots[k].owner \in Ticket /\ child \in [Ticket -> Kids]
         /\ slots \in [Slot -> SlotRecord]
         /\ Matches(slots[k], k, tickets[slots[k].owner], child[slots[k].owner],
                    slots[k].owner \in cancels)
<1>1. worker.job \in Slot /\ slots[worker.job].phase = "WORKING"
  BY DEF IInv, TypeOK, RecordsOK, WorkerOK
<1>2. slots \in [Slot -> SlotRecord] /\ child \in [Ticket -> Kids] /\ SlotOK(worker.job)
  BY <1>1 DEF IInv, TypeOK, RecordsOK
<1> QED BY <1>1, <1>2 DEF SlotOK

\* Where the worker goes.
LEMMA WorkerAt ==
  ASSUME IInv, NEW to \in {"waiting", "awake", "taken", "prepared", "cloning", "finishing"},
         NEW k \in Slot, NEW n \in Slot
  PROVE  /\ LET w == [worker EXCEPT !.pc = to] IN
            w.pc = to /\ w.job = worker.job /\ w \in
              [pc: {"waiting", "awake", "taken", "prepared", "cloning", "finishing"}, job: Slot, next: Slot]
         /\ LET w == [worker EXCEPT !.pc = to, !.job = k] IN
            w.pc = to /\ w.job = k /\ w \in
              [pc: {"waiting", "awake", "taken", "prepared", "cloning", "finishing"}, job: Slot, next: Slot]
         /\ LET w == [worker EXCEPT !.pc = to, !.next = n] IN
            w.pc = to /\ w.job = worker.job /\ w \in
              [pc: {"waiting", "awake", "taken", "prepared", "cloning", "finishing"}, job: Slot, next: Slot]
BY DEF IInv, TypeOK, RecordsOK

\* A child that is there moves on, whoever its launch belongs to by now.
LEMMA ChildKeeps ==
  ASSUME IInv, CallersOK', NEW p \in Ticket, NEW to \in Alive \cup {"zombie", "stolen"},
         child[p] \in Alive \cup {"zombie"}, child' = [child EXCEPT ![p] = to],
         pipe' \in [Ticket -> {"open", "eof", "record"}],
         UNCHANGED <<tickets, rooted, slots, worker, cancels>>
  PROVE  IInv' /\ Outcomes' = Outcomes /\ KidsOf' = [KidsOf EXCEPT ![p] = KidOf(to)]
<1>1. /\ child' \in [Ticket -> Kids] /\ child'[p] = to
      /\ \A q \in Ticket \ {p} : child'[q] = child[q]
  BY DEF IInv, TypeOK, RecordsOK, Kids, Alive
<1>2. TypeOK'
  BY <1>1 DEF IInv, TypeOK, RecordsOK
<1>3. ASSUME NEW q \in Ticket PROVE TicketOK(q)'
  <2>1. TicketOK(q)
    BY DEF IInv
  <2>2. CASE q # p
    BY <1>1, <2>1, <2>2 DEF TicketOK
  <2>3. CASE q = p
    BY <1>1, <2>1, <2>3 DEF TicketOK, Waiting, Delivered, Alive
  <2> QED BY <2>2, <2>3
<1>4. ASSUME NEW s \in Slot PROVE SlotOK(s)'
  <2>1. SlotOK(s)
    BY DEF IInv
  <2>2. \A q \in Ticket : (child'[q] = "none") <=> (child[q] = "none")
    BY <1>1 DEF Alive
  <2>3. CASE slots[s].phase # "FREE"
    <3>1. slots[s].owner \in Ticket
      BY <2>1, <2>3 DEF SlotOK
    <3> QED BY <2>1, <2>2, <2>3, <3>1 DEF SlotOK, Matches
  <2>4. CASE slots[s].phase = "FREE"
    BY <2>1, <2>4 DEF SlotOK
  <2> QED BY <2>3, <2>4
<1>5. WorkerOK'
  BY DEF IInv, WorkerOK
<1>6. Outcomes' = Outcomes /\ KidsOf' = [KidsOf EXCEPT ![p] = KidOf(to)]
  BY <1>1 DEF Outcomes, KidsOf
<1> QED BY <1>2, <1>3, <1>4, <1>5, <1>6 DEF IInv
LEMMA WorkerTakesKeeps ==
  ASSUME IInv, CallersOK', WorkerTakes
  PROVE  IInv' /\ Implements
<1>1. /\ UNCHANGED <<tickets, rooted, child, pipe, cancels>> /\ worker.pc = "awake"
      /\ \A s \in Slot : slots[s].phase # "WORKING"
  BY DEF WorkerTakes, IInv, WorkerOK
<1>2. Outcomes' = Outcomes /\ KidsOf' = KidsOf
  BY <1>1 DEF Outcomes, KidsOf
<1>3. CASE worker' = [worker EXCEPT !.pc = "waiting"] /\ UNCHANGED slots
  <2>1. /\ worker'.pc = "waiting" /\ worker' \in
             [pc: {"waiting", "awake", "taken", "prepared", "cloning", "finishing"}, job: Slot, next: Slot]
    BY <1>3 DEF IInv, TypeOK, RecordsOK
  <2>2. TypeOK' /\ WorkerOK'
    BY <1>1, <1>3, <2>1 DEF IInv, TypeOK, RecordsOK, WorkerOK
  <2>3. ASSUME NEW p \in Ticket PROVE TicketOK(p)'
    BY <1>1, <1>3 DEF IInv, TicketOK
  <2>4. ASSUME NEW s \in Slot PROVE SlotOK(s)'
    BY <1>1, <1>3 DEF IInv, SlotOK
  <2> QED BY <1>1, <1>2, <2>2, <2>3, <2>4, ContractStutters DEF IInv
<1>4. ASSUME NEW s \in Slot, slots[s].phase = "QUEUED",
             slots' = [slots EXCEPT ![s].phase = "WORKING"],
             worker' = [worker EXCEPT !.pc = "taken", !.job = s]
      PROVE  IInv' /\ Implements
  <2>1. /\ worker'.pc = "taken" /\ worker'.job = s /\ worker' \in
             [pc: {"waiting", "awake", "taken", "prepared", "cloning", "finishing"}, job: Slot, next: Slot]
    BY <1>4 DEF IInv, TypeOK, RecordsOK
  <2>2. slots \in [Slot -> SlotRecord] /\ SlotOK(s)
    BY DEF IInv, TypeOK, RecordsOK
  <2>3. /\ slots' \in [Slot -> SlotRecord] /\ \A x \in Slot : x # s => slots'[x] = slots[x]
        /\ slots'[s].phase = "WORKING" /\ slots'[s].stop = slots[s].stop
        /\ slots'[s].generation = slots[s].generation /\ slots'[s].owner = slots[s].owner
        /\ slots'[s].result = slots[s].result /\ slots'[s].carries = slots[s].carries
    BY <1>4, <2>2 DEF SlotRecord
  <2>4. /\ slots[s].owner \in Ticket
        /\ Matches(slots[s], s, tickets[slots[s].owner], child[slots[s].owner],
                   slots[s].owner \in cancels)
    BY <1>4, <2>2 DEF SlotOK
  <2>5. TypeOK'
    BY <1>1, <2>1, <2>3 DEF IInv, TypeOK, RecordsOK
  <2>6. slots[s].result = "none"
    BY <1>4, <2>4 DEF Matches
  <2>7. WorkerOK'
    BY <1>1, <2>1, <2>3, <2>6 DEF WorkerOK
  <2>8. Matches(slots'[s], s, tickets[slots[s].owner], child'[slots[s].owner],
                slots[s].owner \in cancels)
    BY <1>1, <1>4, <2>3, <2>4 DEF Matches
  <2>9. IInv'
    BY <1>1, <1>4, <2>3, <2>5, <2>7, <2>8, WorkerKeeps
  <2> QED BY <1>1, <1>2, <2>9, ContractStutters
<1>5. \/ worker' = [worker EXCEPT !.pc = "waiting"] /\ UNCHANGED slots
      \/ \E s \in Slot : /\ slots[s].phase = "QUEUED"
                         /\ slots' = [slots EXCEPT ![s].phase = "WORKING"]
                         /\ worker' = [worker EXCEPT !.pc = "taken", !.job = s]
  BY DEF WorkerTakes, Queued
<1> QED BY <1>3, <1>4, <1>5

LEMMA WorkerWakesKeeps ==
  ASSUME IInv, CallersOK', WorkerWakes
  PROVE  IInv' /\ Implements
<1>1. /\ UNCHANGED <<tickets, rooted, slots, child, pipe, cancels>> /\ worker.pc = "waiting"
      /\ worker' = [worker EXCEPT !.pc = "awake"]
  BY DEF WorkerWakes
<1>2. /\ worker'.pc = "awake" /\ worker' \in
           [pc: {"waiting", "awake", "taken", "prepared", "cloning", "finishing"}, job: Slot, next: Slot]
  BY <1>1 DEF IInv, TypeOK, RecordsOK
<1>3. TypeOK' /\ WorkerOK'
  BY <1>1, <1>2 DEF IInv, TypeOK, RecordsOK, WorkerOK
<1>4. ASSUME NEW p \in Ticket PROVE TicketOK(p)'
  BY <1>1 DEF IInv, TicketOK
<1>5. ASSUME NEW s \in Slot PROVE SlotOK(s)'
  BY <1>1 DEF IInv, SlotOK
<1>6. Outcomes' = Outcomes /\ KidsOf' = KidsOf
  BY <1>1 DEF Outcomes, KidsOf
<1> QED BY <1>1, <1>3, <1>4, <1>5, <1>6, ContractStutters DEF IInv

\* A step of the worker on the submission it holds that makes no child.
LEMMA WorkerStepKeeps ==
  ASSUME IInv, CallersOK', UNCHANGED <<tickets, rooted, child, pipe, cancels>>,
         worker.pc \in {"taken", "prepared", "cloning", "finishing"},
         worker' \in [pc: {"waiting", "awake", "taken", "prepared", "cloning", "finishing"},
                      job: Slot, next: Slot],
         worker'.job = worker.job,
         slots' \in [Slot -> SlotRecord],
         \A s \in Slot : s # worker.job => slots'[s] = slots[s],
         LET k == worker.job IN
           /\ slots'[k].owner = slots[k].owner /\ slots'[k].generation = slots[k].generation
           /\ slots'[k].carries = slots[k].carries /\ slots'[k].stop = slots[k].stop
           /\ \/ /\ slots'[k].phase = "WORKING" /\ worker'.pc \in {"prepared", "cloning"}
                 /\ slots'[k].result = slots[k].result /\ worker.pc \in {"taken", "prepared"}
              \/ /\ slots'[k].phase = "WORKING" /\ worker'.pc = "finishing"
                 /\ worker.pc # "finishing"
                 /\ slots'[k].result \in {"failed", "cancelled"}
                 /\ slots'[k].result = "cancelled" => slots[k].stop
              \/ /\ slots'[k].phase = "DONE" /\ worker'.pc = "waiting"
                 /\ slots'[k].result = slots[k].result
  PROVE  IInv' /\ Implements
<1> DEFINE k == worker.job
<1>1. /\ k \in Slot /\ slots[k].phase = "WORKING" /\ slots[k].owner \in Ticket
      /\ Matches(slots[k], k, tickets[slots[k].owner], child[slots[k].owner],
                 slots[k].owner \in cancels)
  BY HeldIs
<1>2. TypeOK'
  BY DEF IInv, TypeOK, RecordsOK
<1>3. /\ \A s \in Slot : slots[s].phase = "WORKING" => s = k
      /\ worker.pc # "finishing" => slots[k].result = "none"
  BY DEF IInv, WorkerOK
<1>4. WorkerOK'
  BY <1>1, <1>3 DEF WorkerOK
<1>5. Matches(slots'[k], k, tickets[slots[k].owner], child'[slots[k].owner],
              slots[k].owner \in cancels)
  BY <1>1, <1>3 DEF Matches
<1>6. slots[k].phase \in {"QUEUED", "WORKING"} /\ slots'[k].phase # "FREE" /\ slots'[k].owner = slots[k].owner
  BY <1>1
<1> HIDE DEF k
<1>7. \A s \in Slot : s # k => slots'[s] = slots[s]
  BY DEF k
<1>8. IInv'
  BY <1>1, <1>2, <1>4, <1>5, <1>6, <1>7, WorkerKeeps
<1>9. Outcomes' = Outcomes /\ KidsOf' = KidsOf
  BY DEF Outcomes, KidsOf
<1> QED BY <1>8, <1>9, ContractStutters
LEMMA WorkerGivesUpKeeps ==
  ASSUME IInv, CallersOK', WorkerGivesUp
  PROVE  IInv' /\ Implements
<1>1. PICK from \in {"taken", "prepared", "cloning"}, why \in {"failed", "cancelled"} :
         /\ why = "cancelled" => slots[worker.job].stop
         /\ WorkerMoves(from, "finishing")
         /\ slots' = [slots EXCEPT ![worker.job].result = why]
         /\ UNCHANGED child
  BY DEF WorkerGivesUp
<1>2. /\ worker.pc = from /\ worker' = [worker EXCEPT !.pc = "finishing"]
      /\ UNCHANGED <<tickets, rooted, child, pipe, cancels>>
  BY <1>1 DEF WorkerMoves
<1> DEFINE k == worker.job
<1>3. k \in Slot /\ slots \in [Slot -> SlotRecord] /\ slots[k].phase = "WORKING"
  BY <1>2, HeldIs
<1>4. /\ worker'.pc = "finishing" /\ worker'.job = worker.job /\ worker' \in
           [pc: {"waiting", "awake", "taken", "prepared", "cloning", "finishing"}, job: Slot, next: Slot]
  BY <1>2 DEF IInv, TypeOK, RecordsOK
<1>5. /\ slots' \in [Slot -> SlotRecord] /\ \A x \in Slot : x # k => slots'[x] = slots[x]
      /\ slots'[k].phase = "WORKING" /\ slots'[k].stop = slots[k].stop
      /\ slots'[k].generation = slots[k].generation /\ slots'[k].owner = slots[k].owner
      /\ slots'[k].result = why /\ slots'[k].carries = slots[k].carries
  BY <1>1, <1>3 DEF SlotRecord
<1> QED BY <1>1, <1>2, <1>4, <1>5, WorkerStepKeeps

LEMMA WorkerGoesOnKeeps ==
  ASSUME IInv, CallersOK', WorkerPrepares \/ WorkerCommits
  PROVE  IInv' /\ Implements
<1>1. PICK to \in {"prepared", "cloning"} :
        /\ worker.pc \in {"taken", "prepared"} /\ worker' = [worker EXCEPT !.pc = to]
        /\ UNCHANGED <<tickets, rooted, slots, child, pipe, cancels>>
  BY DEF WorkerPrepares, WorkerCommits, WorkerMoves
<1>2. slots \in [Slot -> SlotRecord] /\ slots[worker.job].phase = "WORKING"
  BY <1>1, HeldIs
<1>3. /\ worker'.pc = to /\ worker'.job = worker.job /\ worker' \in
           [pc: {"waiting", "awake", "taken", "prepared", "cloning", "finishing"}, job: Slot, next: Slot]
  BY <1>1 DEF IInv, TypeOK, RecordsOK
<1> QED BY <1>1, <1>2, <1>3, WorkerStepKeeps

LEMMA WorkerFinishesKeeps ==
  ASSUME IInv, CallersOK', WorkerFinishes
  PROVE  IInv' /\ Implements
<1> DEFINE k == worker.job
           n == (k % NumSlots) + 1
<1>1. /\ worker.pc = "finishing" /\ UNCHANGED <<tickets, rooted, child, pipe, cancels>>
      /\ slots' = [slots EXCEPT ![k].phase = "DONE"]
      /\ worker' = [worker EXCEPT !.pc = "waiting", !.next = n]
  BY DEF WorkerFinishes
<1>2. k \in Slot /\ slots \in [Slot -> SlotRecord]
  BY <1>1, HeldIs
<1>3. n \in Slot
  <2>1. k \in Nat /\ NumSlots \in Nat \ {0}
    BY <1>2
  <2> HIDE DEF k
  <2>2. k % NumSlots \in 0..NumSlots - 1
    BY <2>1
  <2> QED BY <2>1, <2>2
<1> HIDE DEF n
<1>4. /\ worker'.pc = "waiting" /\ worker'.job = worker.job /\ worker' \in
           [pc: {"waiting", "awake", "taken", "prepared", "cloning", "finishing"}, job: Slot, next: Slot]
  BY <1>1, <1>3 DEF IInv, TypeOK, RecordsOK
<1>5. /\ slots' \in [Slot -> SlotRecord] /\ \A x \in Slot : x # k => slots'[x] = slots[x]
      /\ slots'[k].phase = "DONE" /\ slots'[k].stop = slots[k].stop
      /\ slots'[k].generation = slots[k].generation /\ slots'[k].owner = slots[k].owner
      /\ slots'[k].result = slots[k].result /\ slots'[k].carries = slots[k].carries
  BY <1>1, <1>2 DEF SlotRecord
<1> QED BY <1>1, <1>4, <1>5, WorkerStepKeeps

LEMMA WorkerClonesKeeps ==
  ASSUME IInv, CallersOK', WorkerClones
  PROVE  IInv' /\ Implements
<1> DEFINE k == worker.job
           p == slots[k].owner
<1>1. /\ worker.pc = "cloning" /\ worker' = [worker EXCEPT !.pc = "finishing"]
      /\ UNCHANGED <<tickets, rooted, pipe, cancels>>
      /\ slots' = [slots EXCEPT ![k].result = "created", ![k].carries = TRUE]
      /\ child' = [child EXCEPT ![p] = "setup"]
  BY DEF WorkerClones, WorkerMoves
<1>2. /\ k \in Slot /\ slots[k] \in SlotRecord /\ slots[k].phase = "WORKING" /\ p \in Ticket
      /\ child \in [Ticket -> Kids] /\ slots \in [Slot -> SlotRecord]
      /\ Matches(slots[k], k, tickets[p], child[p], p \in cancels)
  BY <1>1, HeldIs
<1>3. slots[k].result = "none" /\ \A s \in Slot : slots[s].phase = "WORKING" => s = k
  BY <1>1 DEF IInv, WorkerOK
<1>4. tickets[p].state = "SUBMITTED" /\ child[p] = "none"
  BY <1>2, <1>3 DEF Matches
<1>5. /\ worker'.pc = "finishing" /\ worker'.job = worker.job /\ worker' \in
           [pc: {"waiting", "awake", "taken", "prepared", "cloning", "finishing"}, job: Slot, next: Slot]
  BY <1>1 DEF IInv, TypeOK, RecordsOK
<1>6. /\ slots' \in [Slot -> SlotRecord] /\ \A x \in Slot : x # k => slots'[x] = slots[x]
      /\ slots'[k].phase = "WORKING" /\ slots'[k].stop = slots[k].stop
      /\ slots'[k].generation = slots[k].generation /\ slots'[k].owner = p
      /\ slots'[k].result = "created" /\ slots'[k].carries
  <2> DEFINE a == [slots EXCEPT ![k].result = "created"]
  <2>1. /\ a \in [Slot -> SlotRecord] /\ \A x \in Slot : x # k => a[x] = slots[x]
        /\ a[k].phase = "WORKING" /\ a[k].stop = slots[k].stop
        /\ a[k].generation = slots[k].generation /\ a[k].owner = p
        /\ a[k].result = "created"
    BY <1>2 DEF SlotRecord
  <2>2. slots' = [a EXCEPT ![k].carries = TRUE]
    BY <1>1
  <2> DEFINE w == [a[k] EXCEPT !.carries = TRUE]
  <2> HIDE DEF a, k
  <2>3. a[k] \in SlotRecord /\ slots' = [a EXCEPT ![k] = w]
    BY <1>2, <2>1, <2>2
  <2>4. /\ w \in SlotRecord /\ w.phase = a[k].phase /\ w.stop = a[k].stop
        /\ w.generation = a[k].generation /\ w.owner = a[k].owner
        /\ w.result = a[k].result /\ w.carries
    BY <2>3 DEF SlotRecord
  <2> HIDE DEF w
  <2> QED BY <1>2, <2>1, <2>3, <2>4
<1>7. /\ child' \in [Ticket -> Kids] /\ child'[p] = "setup"
      /\ \A q \in Ticket \ {p} : child'[q] = child[q]
  BY <1>1, <1>2 DEF Kids
<1>8. TypeOK'
  BY <1>1, <1>5, <1>6, <1>7 DEF IInv, TypeOK, RecordsOK
<1>9. WorkerOK'
  BY <1>2, <1>3, <1>5, <1>6 DEF WorkerOK
<1>10. Matches(slots'[k], k, tickets[p], child'[p], p \in cancels)
  BY <1>2, <1>4, <1>6, <1>7 DEF Matches
<1>11. /\ slots[k].phase \in {"QUEUED", "WORKING"} /\ slots'[k].phase # "FREE"
       /\ slots'[k].owner = slots[k].owner
       /\ \A q \in Ticket : child'[q] = child[q] \/ (q = slots[k].owner /\ child'[q] = "setup")
  BY <1>2, <1>6, <1>7
<1>12. IInv'
  <2> HIDE DEF k
  <2> QED BY <1>1, <1>2, <1>6, <1>8, <1>9, <1>10, <1>11, WorkerKeeps
<1>13. Outcomes[p] = "pending" /\ KidsOf[p] = "none"
  <2>1. tickets[p].step = "PENDING"
    BY <1>2, <1>4, OfTicket DEF Waiting
  <2> QED BY <1>2, <1>4, <2>1, VerdictNow DEF KidOf, Alive
<1>14. Outcomes' = Outcomes /\ KidsOf' = [KidsOf EXCEPT ![p] = "alive"]
  BY <1>1, <1>2, <1>7 DEF Outcomes, KidsOf, KidOf, Alive
<1>15. Contract!Make(p)
  BY <1>1, <1>13, <1>14, Mapping DEF Contract!Make
<1> QED BY <1>2, <1>12, <1>15 DEF Implements, Contract!Next

LEMMA WorkerActs ==
  ASSUME IInv, CallersOK', Worker
  PROVE  IInv' /\ Implements
BY WorkerWakesKeeps, WorkerTakesKeeps, WorkerGivesUpKeeps, WorkerGoesOnKeeps,
   WorkerClonesKeeps, WorkerFinishesKeeps DEF Worker

LEMMA ChildActs ==
  ASSUME IInv, CallersOK', Child
  PROVE  IInv' /\ Implements
<1>1. PICK p \in Ticket : \/ ChildExecs(p) \/ ChildReports(p)
                          \/ ChildDies(p) \/ StatusStolen(p)
  BY DEF Child
<1>2. /\ child \in [Ticket -> Kids] /\ pipe \in [Ticket -> {"open", "eof", "record"}]
      /\ KidsOf[p] = KidOf(child[p])
  BY DEF IInv, TypeOK, RecordsOK, KidsOf
<1>3. CASE ChildExecs(p) \/ ChildReports(p)
  <2>1. PICK to \in {"running", "exiting"} :
          /\ child[p] = "setup" /\ child' = [child EXCEPT ![p] = to]
          /\ pipe' \in [Ticket -> {"open", "eof", "record"}]
          /\ UNCHANGED <<tickets, rooted, slots, worker, cancels>>
    BY <1>2, <1>3 DEF ChildExecs, ChildReports, ChildMoves
  <2>2. IInv' /\ Outcomes' = Outcomes /\ KidsOf' = [KidsOf EXCEPT ![p] = KidOf(to)]
    BY <2>1, ChildKeeps DEF Alive
  <2>3. KidsOf' = KidsOf
    BY <1>2, <2>1, <2>2 DEF KidOf, Alive, KidsOf
  <2> QED BY <2>1, <2>2, <2>3, ContractStutters
<1>4. CASE ChildDies(p)
  <2>1. /\ child[p] \in Alive /\ child' = [child EXCEPT ![p] = "zombie"]
        /\ pipe' \in [Ticket -> {"open", "eof", "record"}]
        /\ UNCHANGED <<tickets, rooted, slots, worker, cancels>>
    BY <1>2, <1>4 DEF ChildDies, ChildMoves
  <2>2. IInv' /\ Outcomes' = Outcomes /\ KidsOf' = [KidsOf EXCEPT ![p] = KidOf("zombie")]
    BY <2>1, ChildKeeps
  <2>3. Contract!End(p)
    BY <1>2, <2>1, <2>2, Mapping DEF Contract!End, KidOf, Alive
  <2> QED BY <2>2, <2>3 DEF Implements, Contract!Next
<1>5. CASE StatusStolen(p)
  <2>1. /\ child[p] = "zombie" /\ child' = [child EXCEPT ![p] = "stolen"]
        /\ pipe' \in [Ticket -> {"open", "eof", "record"}]
        /\ UNCHANGED <<tickets, rooted, slots, worker, cancels>>
    BY <1>2, <1>5 DEF StatusStolen, ChildMoves
  <2>2. IInv' /\ Outcomes' = Outcomes /\ KidsOf' = [KidsOf EXCEPT ![p] = KidOf("stolen")]
    BY <2>1, ChildKeeps
  <2>3. Contract!Steal(p)
    BY <1>2, <2>1, <2>2, Mapping DEF Contract!Steal, KidOf, Alive
  <2> QED BY <2>2, <2>3 DEF Implements, Contract!Next
<1> QED BY <1>1, <1>3, <1>4, <1>5
-----------------------------------------------------------------------------
(* Every step *)

LEMMA InitHolds == ASSUME Init PROVE IInv /\ Contract!Init
<1>1. /\ \A p \in Ticket : tickets[p] = Fresh /\ child[p] = "none" /\ p \notin rooted
                           /\ p \notin cancels
      /\ \A s \in Slot : slots[s] = FreshSlot
  BY DEF Init
<1>2. /\ Fresh.state = "none" /\ Fresh.step = "PENDING" /\ ~Fresh.pidfd /\ Fresh.slot = 0
      /\ ~Fresh.stop
  BY DEF Fresh
<1>3. /\ FreshSlot \in SlotRecord /\ FreshSlot.phase = "FREE" /\ FreshSlot.owner = NoTicket
      /\ ~FreshSlot.carries
  BY DEF FreshSlot, SlotRecord
<1>4. RecordsOK
  <2>1. tickets \in [Ticket -> TicketRecord] /\ slots \in [Slot -> SlotRecord]
    BY <1>3, FreshIs DEF Init
  <2>2. /\ rooted \subseteq Ticket /\ cancels \subseteq Ticket
        /\ child \in [Ticket -> Kids] /\ pipe \in [Ticket -> {"open", "eof", "record"}]
    BY DEF Init, Kids
  <2>3. worker \in [pc: {"waiting", "awake", "taken", "prepared", "cloning", "finishing"},
                    job: Slot, next: Slot]
    BY DEF Init
  <2> QED BY <2>1, <2>2, <2>3 DEF RecordsOK
<1>5. CallersOK
  BY DEF Init, CallersOK
<1>6. ASSUME NEW p \in Ticket PROVE TicketOK(p)
  BY <1>1, <1>2 DEF TicketOK, Waiting, Delivered, Heeded
<1>7. ASSUME NEW s \in Slot PROVE SlotOK(s)
  BY <1>1, <1>3 DEF SlotOK
<1>8. WorkerOK
  BY <1>1, <1>3 DEF Init, WorkerOK
<1>9. Outcomes = [p \in Ticket |-> "none"] /\ KidsOf = [p \in Ticket |-> "none"] /\ cancels = {}
  <2>1. Verdict(Fresh) = "none" /\ KidOf("none") = "none"
    BY <1>2 DEF Verdict, KidOf, Alive
  <2> QED BY <1>1, <2>1 DEF Outcomes, KidsOf, Init
<1>10. Contract!Init
  BY <1>9, Mapping DEF Contract!Init
<1> QED BY <1>4, <1>5, <1>6, <1>7, <1>8, <1>10 DEF IInv, TypeOK

\* A calling thread goes on to wait for p, or is done.
LEMMA CallerMoves ==
  ASSUME IInv, NEW c \in Caller, NEW p \in Ticket,
         \/ callers' = callers
         \/ callers' = [callers EXCEPT ![c] = [pc |-> "idle", ticket |-> NoTicket]]
         \/ \E x \in {"posting", "begun", "napping", "handshake", "exit"} :
              callers' = [callers EXCEPT ![c] = [pc |-> x, ticket |-> p]],
         known' \in {known, known \cup {p}}, jobs' \in {jobs, jobs + 1}, worker' = worker
  PROVE  Quiet
<1>1. known' \subseteq Ticket /\ jobs' \in Nat
  BY DEF IInv, TypeOK, CallersOK
<1>2. /\ callers' \in [Caller -> [pc: {"idle", "posting", "begun", "napping", "handshake", "exit"},
                                  ticket: Ticket \cup {NoTicket}]]
      /\ \A d \in Caller : callers'[d].pc # "idle" => callers'[d].ticket \in Ticket
  BY DEF IInv, TypeOK, CallersOK
<1> QED BY <1>1, <1>2 DEF Quiet, CallersOK

LEMMA Waiter ==
  ASSUME IInv, NEW c \in Caller, callers[c].pc # "idle" PROVE callers[c].ticket \in Ticket
BY DEF IInv, TypeOK, CallersOK

\* One round of drive_start.
LEMMA DriveKeeps ==
  ASSUME IInv, NEW c \in Caller, NEW p \in Ticket, NEW r, Drive(c, p, r)
  PROVE  IInv' /\ Implements
<1>1. /\ Check(p, r) /\ UNCHANGED <<jobs, worker, cancels>>
      /\ \E w \in WaitFor(p, r) :
           IF w = "return"
           THEN /\ callers' = [callers EXCEPT ![c] = [pc |-> "idle", ticket |-> NoTicket]]
                /\ known' = known \cup {p}
           ELSE /\ callers' = [callers EXCEPT ![c] = [pc |-> w, ticket |-> p]]
                /\ UNCHANGED known
  BY DEF Drive
<1>2. WaitFor(p, r) \subseteq {"return", "napping", "handshake", "exit"}
  BY DEF WaitFor
<1>3. Quiet
  BY <1>1, <1>2, CallerMoves
<1> QED BY <1>1, <1>3, CheckKeeps

LEMMA CallActs ==
  ASSUME IInv, Call
  PROVE  IInv' /\ Implements
<1>1. PICK c \in Caller :
        \/ \E p \in Ticket : \/ Submit(c, p) \/ Begin(c, p) \/ RetryStart(c, p)
                             \/ CheckStart(c, p) \/ AbortStart(c, p)
                             \/ PollExit(c, p) \/ CloseStdin(c, p) \/ Dispose(c, p)
        \/ PostJob(c) \/ StartDrives(c) \/ Resume(c) \/ PollFails(c)
  BY DEF Call
<1>2. ASSUME NEW p \in Ticket, Submit(c, p) PROVE IInv' /\ Implements
  <2>1. Quiet
    BY <1>2, CallerMoves DEF Submit
  <2> QED BY <1>2, <2>1, SubmitKeeps
<1>3. ASSUME NEW p \in Ticket, Begin(c, p) PROVE IInv' /\ Implements
  <2>1. Quiet
    BY <1>3, CallerMoves DEF Begin
  <2> QED BY <1>3, <2>1, BeginKeeps
<1>4. ASSUME NEW p \in Ticket, RetryStart(c, p) PROVE IInv' /\ Implements
  BY <1>4, DriveKeeps DEF RetryStart
<1>5. ASSUME NEW p \in Ticket, CheckStart(c, p) PROVE IInv' /\ Implements
  <2>1. Quiet
    BY <1>5, CallerMoves DEF CheckStart
  <2> QED BY <1>5, <2>1, CheckKeeps DEF CheckStart
<1>6. ASSUME NEW p \in Ticket, AbortStart(c, p) PROVE IInv' /\ Implements
  <2>1. Quiet
    BY <1>6, CallerMoves DEF AbortStart
  <2>2. /\ tickets[p].step = "PENDING" /\ cancels' = cancels \cup {p}
        /\ \/ AbortQueued(p)
           \/ \E r \in Results :
                NotCreated(p, [tickets[p] EXCEPT !.stop = TRUE], Stopped(slots, p), r)
           \/ AbortLive(p)
    BY <1>6 DEF AbortStart
  <2> QED BY <2>1, <2>2, AbortStartKeeps
<1>7. ASSUME NEW p \in Ticket, PollExit(c, p) PROVE IInv' /\ Implements
  <2>1. Quiet
    BY <1>7, CallerMoves DEF PollExit
  <2> QED BY <1>7, <2>1, PollExitKeeps
<1>8. ASSUME NEW p \in Ticket, CloseStdin(c, p) PROVE IInv' /\ Implements
  <2>1. Quiet
    BY <1>8, CallerMoves DEF CloseStdin
  <2> QED BY <1>8, <2>1, CloseStdinKeeps
<1>9. ASSUME NEW p \in Ticket, Dispose(c, p) PROVE IInv' /\ Implements
  <2>1. Quiet
    BY <1>9, CallerMoves DEF Dispose
  <2> QED BY <1>9, <2>1, DisposeKeeps
<1>10. CASE PostJob(c)
  <2>1. callers[c].ticket \in Ticket
    BY <1>10, Waiter DEF PostJob
  <2>2. Quiet
    BY <1>10, <2>1, CallerMoves DEF PostJob
  <2> QED BY <1>10, <2>2, NothingChanges DEF PostJob
<1>11. CASE StartDrives(c)
  <2>1. callers[c].ticket \in Ticket
    BY <1>11, Waiter DEF StartDrives
  <2> QED BY <1>11, <2>1, DriveKeeps DEF StartDrives
<1>12. CASE Resume(c)
  <2>1. callers[c].ticket \in Ticket
    BY <1>12, Waiter DEF Resume, Readable
  <2> QED BY <1>12, <2>1, DriveKeeps DEF Resume
<1>13. CASE PollFails(c)
  <2>1. callers[c].ticket \in Ticket
    BY <1>13, Waiter DEF PollFails
  <2>2. Quiet
    BY <1>13, <2>1, CallerMoves DEF PollFails
  <2> QED BY <1>13, <2>2, NothingChanges DEF PollFails
<1> QED BY <1>1, <1>2, <1>3, <1>4, <1>5, <1>6, <1>7, <1>8, <1>9, <1>10, <1>11, <1>12, <1>13

LEMMA StepKeeps == ASSUME IInv, [Next]_vars PROVE IInv' /\ Implements
<1>1. CASE Call
  BY <1>1, CallActs
<1>2. CASE Worker
  <2>1. CallersOK'
    <3>1. known' = known /\ callers' = callers /\ jobs' \in {jobs} \cup {n \in Nat : jobs = n + 1}
      <4>1. /\ known' = known /\ callers' = callers
            /\ jobs' = jobs \/ (jobs > 0 /\ jobs' = jobs - 1)
        BY <1>2 DEF Worker, WorkerWakes, WorkerTakes, WorkerGivesUp, WorkerPrepares,
                    WorkerCommits, WorkerClones, WorkerFinishes, WorkerMoves
      <4> QED BY <4>1 DEF IInv, TypeOK, CallersOK
    <3> QED BY <3>1 DEF IInv, TypeOK, CallersOK
  <2> QED BY <1>2, <2>1, WorkerActs
<1>3. CASE Child
  <2>1. CallersOK'
    BY <1>3 DEF Child, ChildExecs, ChildReports, ChildDies, StatusStolen, ChildMoves,
                IInv, TypeOK, CallersOK
  <2> QED BY <1>3, <2>1, ChildActs
<1>4. CASE UNCHANGED vars
  <2>1. Quiet
    BY <1>4 DEF vars, Quiet, IInv, TypeOK, CallersOK
  <2> QED BY <1>4, <2>1, NothingChanges DEF vars
<1> QED BY <1>1, <1>2, <1>3, <1>4 DEF Next

-----------------------------------------------------------------------------
(* The theorems *)

\* The records of every launch, of its child and of its submission agree, in
\* every state of every interleaving of callers, worker, children and faults.
THEOREM Invariance == Spec => []IInv
<1>1. Init => IInv
  BY InitHolds
<1>2. IInv /\ [Next]_vars => IInv'
  BY StepKeeps
<1> QED BY <1>1, <1>2, PTL DEF Spec

\* The abort() calls of release_submission and adopt_submission are never
\* reached: a permit is held by the ticket it was given to, through reuse of
\* its slot, and is returned only when the worker is done with it.
THEOREM PermitChecks == Spec => []PermitChecksHold
<1>1. IInv => PermitChecksHold
  <2> SUFFICES ASSUME IInv PROVE PermitChecksHold
    OBVIOUS
  <2>1. ASSUME NEW p \in Ticket, tickets[p].slot # 0
        PROVE  /\ slots[tickets[p].slot].owner = p
               /\ slots[tickets[p].slot].generation = tickets[p].gen
               /\ tickets[p].state # "SUBMITTED" => slots[tickets[p].slot].phase = "DONE"
    BY <2>1, OfTicket DEF Matches
  <2>2. ASSUME NEW s \in Slot
        PROVE  IF slots[s].phase = "FREE" THEN slots[s].owner = NoTicket
               ELSE slots[s].owner \in Ticket /\ tickets[slots[s].owner].slot = s
    BY DEF IInv, SlotOK, Matches
  <2> QED BY <2>1, <2>2 DEF PermitChecksHold
<1> QED BY <1>1, Invariance, PTL

\* No child is lost track of, nor owned twice: until it is waited for its
\* pidfd is either with its ticket or with the submission of its ticket, and
\* the ticket is rooted.
THEOREM ChildIsOwned == Spec => []ChildHasOwner
<1>1. IInv => ChildHasOwner
  <2> SUFFICES ASSUME IInv, NEW p \in Ticket, child[p] \in Alive \cup {"zombie"}
               PROVE  /\ p \in rooted
                      /\ tickets[p].pidfd <=> ~(\E s \in Slot : slots[s].carries /\ slots[s].owner = p)
    BY DEF ChildHasOwner
  <2>1. /\ tickets[p] \in TicketRecord
        /\ Waiting(tickets[p], child[p], p \in rooted)
        /\ Delivered(tickets[p], child[p], p \in rooted)
        /\ tickets[p].slot # 0 =>
              LET k == tickets[p].slot IN
              /\ k \in Slot /\ slots[k].owner = p /\ slots[k].phase # "FREE"
              /\ Matches(slots[k], k, tickets[p], child[p], p \in cancels)
    BY OfTicket
  <2>2. \/ tickets[p].state = "SUBMITTED" /\ ~tickets[p].pidfd /\ tickets[p].slot # 0
        \/ tickets[p].state # "SUBMITTED" /\ tickets[p].pidfd
    BY <2>1 DEF TicketRecord, Waiting, Delivered, Alive
  <2>3. p \in rooted
    BY <2>1 DEF TicketRecord, Waiting, Delivered, Alive
  <2>4. ASSUME tickets[p].state = "SUBMITTED", tickets[p].slot # 0
        PROVE  \E s \in Slot : slots[s].carries /\ slots[s].owner = p
    <3>1. slots[tickets[p].slot].carries /\ slots[tickets[p].slot].owner = p
      BY <2>1, <2>4 DEF Matches, Alive
    <3> QED BY <2>1, <2>4, <3>1
  <2>5. ASSUME NEW s \in Slot, slots[s].carries, slots[s].owner = p
        PROVE  tickets[p].state = "SUBMITTED"
    BY <2>5 DEF IInv, SlotOK, Matches
  <2> QED BY <2>2, <2>3, <2>4, <2>5
<1> QED BY <1>1, Invariance, PTL

\* A launch that fails, is aborted or is lost leaves no child that could be
\* waited for, no descriptor, no permit and no root behind.
THEOREM UndeliveredIsClean == Spec => []UndeliveredLaunchIsClean
<1>1. IInv => UndeliveredLaunchIsClean
  <2> SUFFICES ASSUME IInv, NEW p \in Ticket
               PROVE  LET t == tickets[p] IN
                 /\ t.step \in {"FAILED", "ABORTED"} => child[p] \in {"none", "reaped"}
                 /\ t.step = "LOST_WAIT" => child[p] = "stolen"
                 /\ t.step \in {"FAILED", "ABORTED", "LOST_WAIT"} =>
                      ~t.pidfd /\ ~t.errfd /\ t.streams = {} /\ t.slot = 0 /\ p \notin rooted
    BY DEF UndeliveredLaunchIsClean
  <2>1. /\ tickets[p] \in TicketRecord
        /\ Waiting(tickets[p], child[p], p \in rooted)
        /\ Delivered(tickets[p], child[p], p \in rooted)
    BY OfTicket
  <2>2. tickets[p].step \in {"FAILED", "ABORTED", "LOST_WAIT"} => tickets[p].state \in {"REAPED", "LOST"}
    BY <2>1 DEF TicketRecord, Waiting, Delivered
  <2> QED BY <2>1, <2>2 DEF Delivered
<1> QED BY <1>1, Invariance, PTL

\* Callers, worker and children together implement the contract of the launch
\* API, step by step: one outcome per launch, no hand-over after an accepted
\* cancellation, and no child of an undelivered launch left unwaited for.
THEOREM Refinement == Spec => KeepsContract
<1>1. Init => Contract!Init
  BY InitHolds
<1>2. IInv /\ [Next]_vars => [Contract!Next]_(Contract!vars)
  BY StepKeeps DEF Implements
<1> QED BY <1>1, <1>2, Invariance, PTL DEF Spec, KeepsContract, Contract!Spec
=============================================================================
