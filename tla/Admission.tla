----------------------------- MODULE Admission -----------------------------
(***************************************************************************)
(* What a PDS connection has to be admitted to before it may go on         *)
(* (pds/shell/server.mdk): the connection and un-framed ceilings at accept *)
(* (acceptStep), the budget of buffered request bytes before every read    *)
(* (BufferCensus), a slot before a proxied call (ProxyCensus), the budget  *)
(* of upstream answers while one arrives (EgressCensus).  The last three   *)
(* are queues whose waiters are granted by whoever releases, and abandon   *)
(* by themselves when their wait runs out.                                 *)
(*                                                                         *)
(* The server is one cooperative thread: a step below is what one task     *)
(* runs between two parks.  What a request is (how long its header, which  *)
(* body, where it ends) is left open, and so is which wait runs out when.  *)
(***************************************************************************)
EXTENDS Integers, Sequences, FiniteSets, FiniteSetsExt

CONSTANTS
  Conn,           \* the sockets
  Gone,           \* stands in a queue for a waiter that gave up
  Ceiling,        \* maxInFlightRequestBytes
  Chunk,          \* readChunkBytes
  MaxHeader,      \* the bytes an unterminated header section may reach
  MaxRequest,     \* maxHttpRequestBytes
  MaxQueuedReads, \* maxQueuedBufferedReads
  MaxActive,      \* maxConcurrentConnections
  MaxUnframed,    \* maxUnframedConnections
  MaxCalls,       \* maxConcurrentProxiedCalls
  MaxQueuedCalls, \* maxQueuedProxiedCalls
  Answer,         \* maxHttpClientWireBytes
  EgressCeiling,  \* maxInFlightEgressBytes
  MaxQueue        \* bound on a queue's list, abandoned waiters included

ASSUME AdmissionConstants ==
  /\ IsFiniteSet(Conn) /\ Gone \notin Conn
  /\ {Chunk, MaxHeader, MaxRequest, MaxActive, MaxUnframed, MaxCalls, Answer} \subseteq Nat \ {0}
  /\ {Ceiling, MaxQueuedReads, MaxQueuedCalls, EgressCeiling, MaxQueue} \subseteq Nat
  \* the source's numbers: 64 * 131072 + 6356992 <= 33554432
  /\ MaxQueuedReads * (MaxHeader + Chunk) + MaxRequest + Chunk <= Ceiling
  /\ Answer <= EgressCeiling

VARIABLES
  conn,     \* per socket: where its task is parked, its buffer, scan and charges
  active,   \* the connections in flight
  unframed, \* the un-framed census
  budget,   \* the BufferCensus
  slots,    \* the ProxyCensus
  egress    \* the EgressCensus

vars == <<conn, active, unframed, budget, slots, egress>>

Smaller(a, b) == IF a < b THEN a ELSE b

-----------------------------------------------------------------------------
(* The three censuses: what is held, how many wait, the list of waiters,   *)
(* and whose granted flag is up.                                           *)

BufferWaiter == [who: Conn \cup {Gone}, bytes: Nat]
Census == [held: Nat, waiting: Nat, queue: Seq(BufferWaiter), granted: SUBSET Conn]
newCensus == [held |-> 0, waiting |-> 0, queue |-> <<>>, granted |-> {}]
Waiter(c, n) == [who |-> c, bytes |-> n]

Live(q) == {i \in DOMAIN q : q[i].who # Gone}
BytesOf(q, k) == SumFunctionOnSet([i \in DOMAIN q |-> q[i].bytes], 1..k)

Claims(census, n, ceiling) == census.held + n <= ceiling
Claim(census, n) == [census EXCEPT !.held = @ + n]
Enqueue(census, c, n) ==
  [held |-> census.held, waiting |-> census.waiting + 1,
   queue |-> Append(census.queue, Waiter(c, n)), granted |-> census.granted]

\* Mutant: one waiter is offered what was freed, as with a slot.
GrantOneWithin(ceiling, census) ==
  LET q == census.queue
      k == IF Live(q) = {} THEN Len(q)
           ELSE IF census.held + q[Min(Live(q))].bytes <= ceiling THEN Min(Live(q))
           ELSE Min(Live(q)) - 1
      woken == {q[i].who : i \in Live(q) \cap 1..k}
  IN  [held |-> census.held + BytesOf(q, k),
       waiting |-> census.waiting - Cardinality(woken),
       queue |-> SubSeq(q, k + 1, Len(q)),
       granted |-> census.granted \cup woken]

\* From the front of the queue, for as long as the first live waiter fits.
GrantWithin(ceiling, census) ==
  LET q == census.queue
      k == Max({j \in 0..Len(q) :
                  \A i \in Live(q) : i <= j => census.held + BytesOf(q, i) <= ceiling})
      woken == {q[i].who : i \in Live(q) \cap 1..k}
  IN  [held |-> census.held + BytesOf(q, k),
       waiting |-> census.waiting - Cardinality(woken),
       queue |-> SubSeq(q, k + 1, Len(q)),
       granted |-> census.granted \cup woken]

Release(census, n, ceiling) == GrantWithin(ceiling, [census EXCEPT !.held = @ - n])

\* Mutant: the slot is freed although the first waiter is let go too.
ReleaseSlotTwice(census) ==
  LET q == census.queue
  IN  IF Live(q) = {} THEN [census EXCEPT !.queue = <<>>, !.held = @ - 1]
      ELSE LET k == Min(Live(q))
           IN  [held |-> census.held - 1, queue |-> SubSeq(q, k + 1, Len(q)),
                waiting |-> census.waiting - 1, granted |-> census.granted \cup {q[k].who}]

\* A slot is handed on to the first live waiter, or given back.
ReleaseSlot(census) ==
  LET q == census.queue
  IN  IF Live(q) = {} THEN [held |-> census.held - 1, waiting |-> census.waiting,
                            queue |-> <<>>, granted |-> census.granted]
      ELSE LET k == Min(Live(q))
           IN  [held |-> census.held, waiting |-> census.waiting - 1,
                queue |-> SubSeq(q, k + 1, Len(q)),
                granted |-> census.granted \cup {q[k].who}]

\* What a woken waiter does: take what was granted, or leave the queue.
Taken(census, c) == [census EXCEPT !.granted = @ \ {c}]
Abandon(census, c) ==
  [held |-> census.held, waiting |-> census.waiting - 1,
   queue |-> [i \in DOMAIN census.queue |->
                IF census.queue[i].who = c THEN Waiter(Gone, 0) ELSE census.queue[i]],
   granted |-> census.granted]

-----------------------------------------------------------------------------
(* One connection.  at is the park its task is in; charged is its share of *)
(* the budget; phase and end are its scan; held is UnframedSlot's flag.    *)

Parks == {"closed", "accepted", "reading", "waiting", "refused", "rejected",
          "answering", "queued", "calling", "room"}
Charge == {"uncharged", "held", "refused"}
ConnState == [at: Parks, len: Nat, charged: Nat, phase: {"header", "fixed", "chunked"},
              end: Nat, held: BOOLEAN, charge: Charge]
Closed == [at |-> "closed", len |-> 0, charged |-> 0, phase |-> "header",
           end |-> 0, held |-> FALSE, charge |-> "uncharged"]

Init ==
  /\ conn = [c \in Conn |-> Closed]
  /\ active = 0 /\ unframed = 0
  /\ budget = newCensus /\ slots = newCensus /\ egress = newCensus

\* Mutant: a body is charged for one read at a time.
readBufferTargetByRead(s) == s.len + Chunk

readBufferTarget(s) ==
  CASE s.phase = "header" -> s.len + Chunk
    [] s.phase = "fixed" -> Smaller(MaxRequest + Chunk, s.end)
    [] OTHER -> MaxRequest + Chunk

\* Mutant: a read in a body is not capped at what the body still needs.
readSizeForUncapped(s) == Chunk

readSizeFor(s) == IF s.phase = "fixed" THEN Smaller(Chunk, s.end - s.len) ELSE Chunk

\* What scanning a buffer whose last fresh bytes are new can come to.
NeedsMore(s) ==
  CASE s.phase = "header" ->
         {r \in {s} : s.len <= MaxHeader}
         \cup {[s EXCEPT !.phase = "fixed", !.end = e, !.held = FALSE] :
                 e \in {n \in s.len + 1 .. MaxRequest : s.len > 0}}
         \cup {r \in {[s EXCEPT !.phase = "chunked", !.held = FALSE]} : s.len \in 1..MaxRequest}
    [] s.phase = "fixed" -> {r \in {s} : s.len < s.end}
    [] OTHER -> {r \in {s} : s.len <= MaxRequest}
Boundaries(s, fresh) ==
  IF s.phase = "fixed" THEN {s.end} \cap {s.len}
  ELSE (s.len - fresh + 1 .. s.len) \cap 1..MaxRequest
Fails(s) == s.phase # "fixed" /\ s.len > 0

\* What the connection's task leaves behind, and its un-framed charge with it.
Becomes(c, s) ==
  /\ conn' = [conn EXCEPT ![c] = s]
  /\ unframed' = IF conn[c].held /\ ~s.held THEN unframed - 1 ELSE unframed
  /\ active' = IF s.at = "closed" THEN active - 1 ELSE active

\* A.close, then retireConnection; b is the budget as the turn has left it.
Retire(c, s, b) ==
  /\ Becomes(c, Closed)
  /\ budget' = Release(b, s.charged, Ceiling)
  /\ UNCHANGED slots

refuseOverBudget(c, s, b) ==
  IF s.phase = "header" THEN Retire(c, s, b)
  ELSE /\ Becomes(c, [s EXCEPT !.at = "refused"])
       /\ budget' = b
       /\ UNCHANGED slots

readMore(c, s) ==
  LET owed == readBufferTarget(s) - s.charged
  IN  \/ /\ owed <= 0
         /\ Becomes(c, [s EXCEPT !.at = "reading"])
         /\ UNCHANGED <<budget, slots>>
      \/ /\ owed > 0 /\ Claims(budget, owed, Ceiling)
         /\ Becomes(c, [s EXCEPT !.at = "reading", !.charged = @ + owed])
         /\ budget' = Claim(budget, owed)
         /\ UNCHANGED slots
      \/ /\ owed > 0 /\ ~Claims(budget, owed, Ceiling)
         /\ budget.waiting >= MaxQueuedReads
         /\ refuseOverBudget(c, s, budget)
      \/ /\ owed > 0 /\ ~Claims(budget, owed, Ceiling)
         /\ budget.waiting < MaxQueuedReads /\ Len(budget.queue) < MaxQueue
         /\ Becomes(c, [s EXCEPT !.at = "waiting"])
         /\ budget' = Enqueue(budget, c, owed)
         /\ UNCHANGED slots

\* The charge is rebased on the leftover; then the request is answered here,
\* or forwarded once a slot is had.
respond(c, s, boundary) ==
  LET keep == s.len - boundary
      rest == [s EXCEPT !.len = keep, !.charged = keep, !.phase = "header",
                        !.end = 0, !.held = FALSE]
      On(at) == Becomes(c, [rest EXCEPT !.at = at])
  IN  /\ budget' = Release(budget, s.charged - keep, Ceiling)
      /\ \/ On("answering") /\ UNCHANGED slots
         \/ /\ Claims(slots, 1, MaxCalls)
            /\ On("calling") /\ slots' = Claim(slots, 1)
         \/ /\ ~Claims(slots, 1, MaxCalls)
            /\ slots.waiting < MaxQueuedCalls /\ Len(slots.queue) < MaxQueue
            /\ On("queued") /\ slots' = Enqueue(slots, c, 1)

frameLoop(c, s, fresh) ==
  \/ \E b \in Boundaries(s, fresh) : respond(c, s, b)
  \/ /\ Fails(s)
     /\ Becomes(c, [s EXCEPT !.at = "rejected", !.held = FALSE])
     /\ UNCHANGED <<budget, slots>>
  \/ \E r \in NeedsMore(s) : readMore(c, r)

-----------------------------------------------------------------------------
(* The turns of a connection's task.                                       *)

\* Past either ceiling the socket is closed unread, which changes nothing.
Accept(c) ==
  /\ conn[c].at = "closed"
  /\ active < MaxActive /\ unframed < MaxUnframed
  /\ conn' = [conn EXCEPT ![c] = [Closed EXCEPT !.at = "accepted", !.held = TRUE]]
  /\ active' = active + 1 /\ unframed' = unframed + 1
  /\ UNCHANGED <<budget, slots, egress>>

\* A connection whose turn comes when the server is stopping ends at once.
Serve(c) ==
  /\ conn[c].at = "accepted"
  /\ Retire(c, conn[c], budget) \/ frameLoop(c, conn[c], 0)
  /\ UNCHANGED egress

Receive(c) ==
  /\ conn[c].at = "reading"
  /\ \E n \in 1..readSizeFor(conn[c]) :
       frameLoop(c, [conn[c] EXCEPT !.len = @ + n], n)
  /\ UNCHANGED egress

\* The peer closes or falls silent, or one of the two deadlines has passed.
ReadEnds(c) ==
  /\ conn[c].at = "reading"
  /\ Retire(c, conn[c], budget)
  /\ UNCHANGED egress

ReadAdmitted(c) ==
  /\ conn[c].at = "waiting" /\ c \in budget.granted
  /\ Becomes(c, [conn[c] EXCEPT !.at = "reading", !.charged = readBufferTarget(conn[c])])
  /\ budget' = Taken(budget, c)
  /\ UNCHANGED <<slots, egress>>

ReadWaitRunsOut(c) ==
  /\ conn[c].at = "waiting" /\ c \notin budget.granted
  /\ refuseOverBudget(c, conn[c], Abandon(budget, c))
  /\ UNCHANGED egress

\* The refusal of an unreadable or unaffordable request has been sent.
RefusalEnds(c) ==
  /\ conn[c].at \in {"refused", "rejected"}
  /\ Retire(c, conn[c], budget)
  /\ UNCHANGED egress

\* The answer has been sent, or could not be: an egress charge is given back,
\* and the next request is framed from what is left or the connection closes.
AnswerEnds(c) ==
  LET s == [conn[c] EXCEPT !.charge = "uncharged"]
  IN  /\ conn[c].at = "answering"
      /\ egress' = IF conn[c].charge = "held" THEN Release(egress, Answer, EgressCeiling)
                   ELSE egress
      /\ Retire(c, s, budget) \/ frameLoop(c, s, s.len)

CallAdmitted(c) ==
  /\ conn[c].at = "queued" /\ c \in slots.granted
  /\ Becomes(c, [conn[c] EXCEPT !.at = "calling"])
  /\ slots' = Taken(slots, c)
  /\ UNCHANGED <<budget, egress>>

\* Answered 503, as a call that finds the queue full is.
CallWaitRunsOut(c) ==
  /\ conn[c].at = "queued" /\ c \notin slots.granted
  /\ Becomes(c, [conn[c] EXCEPT !.at = "answering"])
  /\ slots' = Abandon(slots, c)
  /\ UNCHANGED <<budget, egress>>

\* The answer outgrows what a call may hold uncharged (egressMayHold).
AnswerGrows(c) ==
  /\ conn[c].at = "calling" /\ conn[c].charge = "uncharged"
  /\ \/ /\ Claims(egress, Answer, EgressCeiling)
        /\ Becomes(c, [conn[c] EXCEPT !.charge = "held"])
        /\ egress' = Claim(egress, Answer)
     \/ /\ ~Claims(egress, Answer, EgressCeiling) /\ Len(egress.queue) < MaxQueue
        /\ Becomes(c, [conn[c] EXCEPT !.at = "room"])
        /\ egress' = Enqueue(egress, c, Answer)
  /\ UNCHANGED <<budget, slots>>

RoomAdmitted(c) ==
  /\ conn[c].at = "room" /\ c \in egress.granted
  /\ Becomes(c, [conn[c] EXCEPT !.at = "calling", !.charge = "held"])
  /\ egress' = Taken(egress, c)
  /\ UNCHANGED <<budget, slots>>

\* Mutant: the wait that ran out is taken for one that was granted too late.
RoomWaitRunsOutCharged(c) ==
  /\ conn[c].at = "room" /\ c \notin egress.granted
  /\ Becomes(c, [conn[c] EXCEPT !.at = "answering", !.charge = "held"])
  /\ egress' = Abandon(egress, c)
  /\ slots' = ReleaseSlot(slots)
  /\ UNCHANGED budget

\* The call is given up, so its slot is released and a 503 sent.
RoomWaitRunsOut(c) ==
  /\ conn[c].at = "room" /\ c \notin egress.granted
  /\ Becomes(c, [conn[c] EXCEPT !.at = "answering", !.charge = "refused"])
  /\ egress' = Abandon(egress, c)
  /\ slots' = ReleaseSlot(slots)
  /\ UNCHANGED budget

\* The call has its answer or has failed; the slot goes before the answer does.
CallEnds(c) ==
  /\ conn[c].at = "calling"
  /\ Becomes(c, [conn[c] EXCEPT !.at = "answering"])
  /\ slots' = ReleaseSlot(slots)
  /\ UNCHANGED <<budget, egress>>

Ends(c) == ReadEnds(c) \/ RefusalEnds(c) \/ AnswerEnds(c) \/ CallEnds(c)
Admitted(c) == ReadAdmitted(c) \/ CallAdmitted(c) \/ RoomAdmitted(c)
RunsOut(c) == ReadWaitRunsOut(c) \/ CallWaitRunsOut(c) \/ RoomWaitRunsOut(c)

Next == \E c \in Conn :
  \/ Accept(c) \/ Serve(c) \/ Receive(c) \/ AnswerGrows(c)
  \/ Ends(c) \/ Admitted(c) \/ RunsOut(c)

Spec == Init /\ [][Next]_vars

-----------------------------------------------------------------------------
TypeOK ==
  /\ conn \in [Conn -> ConnState]
  /\ active \in Nat /\ unframed \in Nat
  /\ budget \in Census /\ slots \in Census /\ egress \in Census

\* The granted waiters that have not resumed yet.
Resuming(at, census) == {c \in Conn : conn[c].at = at /\ c \in census.granted}
Owed(c) == readBufferTarget(conn[c]) - conn[c].charged

(* The budget is what the connections are charged for and what was granted to
   reads that have not resumed, and never past its ceiling; a charge covers
   the buffered bytes and the read in flight (readBufferCharged, readSizeFor). *)
ChargesCoverBuffers ==
  /\ budget.held <= Ceiling
  /\ budget.held = SumFunctionOnSet([c \in Conn |-> conn[c].charged], Conn)
                     + SumFunctionOnSet([c \in Conn |-> Owed(c)], Resuming("waiting", budget))
  /\ \A c \in Conn :
       conn[c].charged >= conn[c].len + (IF conn[c].at = "reading" THEN readSizeFor(conn[c]) ELSE 0)

(* A read is left waiting beside headroom it would fit in only while the
   refusal of a read that stood before it is still being sent: the retirement
   that follows makes the offer (refuseOverBudget, grantBufferHeadroom). *)
HeadroomIsOffered ==
  LET live == Live(budget.queue)
  IN  /\ budget.waiting = Cardinality(live)
      /\ (live # {} /\ Claims(budget, budget.queue[Min(live)].bytes, Ceiling))
           => \E c \in Conn : conn[c].at = "refused"

(* A saturated budget is a wait and never a deadlock: while a read waits, some
   other connection has a charge, or was granted one, and is not waiting
   (releaseBufferBytes). *)
SaturatedIsAWait ==
  Live(budget.queue) # {} =>
    \E c \in Conn : IF conn[c].at = "waiting" THEN c \in budget.granted ELSE conn[c].charged > 0

(* A slot is held by the calls in flight and the calls it was handed to, and
   none is idle while a call waits (releaseProxiedCall). *)
SlotsAreOwned ==
  /\ slots.held = Cardinality({c \in Conn : conn[c].at \in {"calling", "room"}})
                    + Cardinality(Resuming("queued", slots))
  /\ slots.held <= MaxCalls
  /\ slots.waiting = Cardinality(Live(slots.queue))
  /\ slots.waiting > 0 => slots.held = MaxCalls

(* What calls are charged for their answers is held by as many calls, each to
   the end of its send, never past the ceiling, and never idle while a call
   waits for it with its slot (settleEgressCharge, egressMayHold). *)
AnswersAreCharged ==
  /\ egress.held = Answer * (Cardinality({c \in Conn : conn[c].charge = "held"})
                               + Cardinality(Resuming("room", egress)))
  /\ egress.held <= EgressCeiling
  /\ egress.waiting = Cardinality(Live(egress.queue)) /\ egress.waiting <= MaxCalls
  /\ egress.waiting > 0 => ~Claims(egress, Answer, EgressCeiling)
=============================================================================
