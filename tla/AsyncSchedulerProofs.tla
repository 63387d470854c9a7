------------------------ MODULE AsyncSchedulerProofs ------------------------
(***************************************************************************)
(* Safety of the scheduler for every set of tasks, descriptors, flags and  *)
(* deadlines.  The lemmas on the run queue show that the two lists behave  *)
(* as the one sequence Queue; the invariants are then argued over Queue.   *)
(***************************************************************************)
EXTENDS AsyncScheduler, TLAPS, SequenceTheorems, FiniteSetTheorems,
        WellFoundedInduction

-----------------------------------------------------------------------------
(* The two-list run queue *)

\* Reversal keeps the elements and swaps the ends.
LEMMA RevType ==
  ASSUME NEW S, NEW s \in Seq(S)
  PROVE  /\ Rev(s) \in Seq(S)
         /\ Len(Rev(s)) = Len(s)
         /\ \A i \in 1..Len(s) : Rev(s)[i] = s[Len(s) - i + 1]
<1>1. \A i \in 1..Len(s) : s[Len(s) - i + 1] \in S
  BY LenProperties, ElementOfSeq
<1>2. Rev(s) \in [1..Len(s) -> S]
  BY <1>1 DEF Rev
<1>3. Len(s) \in Nat
  BY LenProperties
<1> QED BY <1>2, <1>3 DEF Rev


\* What the queue q of a front f and a back b holds.
Reads(S, q, f, b) ==
  /\ q \in Seq(S) /\ Len(q) = Len(f) + Len(b)
  /\ \A i \in 1..Len(f) : q[i] = f[i]
  /\ \A j \in 1..Len(b) : q[Len(f) + j] = b[Len(b) - j + 1]

\* What is left of the queue q in r once its head is gone.
IsTail(r, q) ==
  /\ Len(q) > 0 /\ Len(r) = Len(q) - 1
  /\ \A i \in 1..(Len(q) - 1) : r[i] = q[i + 1]

\* r is q with n pushed, what stands first in n last.
IsPushed(S, r, q, n) ==
  /\ r \in Seq(S) /\ Len(r) = Len(q) + Len(n)
  /\ \A i \in 1..Len(q) : r[i] = q[i]
  /\ \A j \in 1..Len(n) : r[Len(q) + j] = n[Len(n) - j + 1]

\* Reading the queue of two lists: first the front, then the back from its end.
LEMMA QueueReads ==
  ASSUME NEW S, NEW f \in Seq(S), NEW b \in Seq(S)
  PROVE  Reads(S, QueueOf(f, b), f, b)
<1>1. Rev(b) \in Seq(S) /\ Len(Rev(b)) = Len(b)
  BY RevType
<1>2. \A j \in 1..Len(b) : Rev(b)[j] = b[Len(b) - j + 1]
  BY RevType
<1>3. /\ QueueOf(f, b) \in Seq(S)
      /\ Len(QueueOf(f, b)) = Len(f) + Len(Rev(b))
      /\ \A i \in 1..Len(f) : QueueOf(f, b)[i] = f[i]
      /\ \A j \in 1..Len(Rev(b)) : QueueOf(f, b)[Len(f) + j] = Rev(b)[j]
  BY <1>1 DEF QueueOf
<1> QED BY <1>1, <1>2, <1>3 DEF Reads

\* popTask takes the head of the queue and leaves the others where they were.
LEMMA PopIsHead ==
  ASSUME front \in Seq(Task), back \in Seq(Task), CanPop
  PROVE  /\ Len(Queue) > 0
         /\ NextTask = Queue[1] /\ NextTask \in Task
         /\ FrontAfterPop \in Seq(Task) /\ BackAfterPop \in Seq(Task)
         /\ IsTail(QueueOf(FrontAfterPop, BackAfterPop), Queue)
<1>1. Len(front) \in Nat /\ Len(back) \in Nat
  BY LenProperties
<1>2. /\ Queue \in Seq(Task)
      /\ Len(Queue) = Len(front) + Len(back)
      /\ \A i \in 1..Len(front) : Queue[i] = front[i]
      /\ \A j \in 1..Len(back) : Queue[Len(front) + j] = back[Len(back) - j + 1]
  <2>1. Reads(Task, Queue, front, back)
    BY QueueReads DEF Queue
  <2> QED BY <2>1 DEF Reads
<1>3. CASE front # << >>
  <2>1. /\ Head(front) = front[1] /\ Head(front) \in Task /\ Tail(front) \in Seq(Task)
        /\ Len(Tail(front)) = Len(front) - 1
        /\ \A i \in 1..Len(Tail(front)) : Tail(front)[i] = front[i + 1]
    BY <1>3, HeadTailProperties
  <2>2. Len(front) > 0
    BY <1>3, <1>1, EmptySeq
  <2>3. /\ Len(QueueOf(Tail(front), back)) = Len(Tail(front)) + Len(back)
        /\ \A i \in 1..Len(Tail(front)) : QueueOf(Tail(front), back)[i] = Tail(front)[i]
        /\ \A j \in 1..Len(back) :
             QueueOf(Tail(front), back)[Len(Tail(front)) + j] = back[Len(back) - j + 1]
    <3>1. Reads(Task, QueueOf(Tail(front), back), Tail(front), back)
      BY <2>1, QueueReads
    <3> QED BY <3>1 DEF Reads
  <2>4. ASSUME NEW i \in 1..(Len(Queue) - 1)
        PROVE  QueueOf(Tail(front), back)[i] = Queue[i + 1]
    <3>1. CASE i <= Len(front) - 1
      BY <3>1, <2>1, <2>2, <2>3, <1>1, <1>2
    <3>2. CASE ~(i <= Len(front) - 1)
      <4>1. i + 1 - Len(front) \in 1..Len(back)
        BY <3>2, <1>1, <1>2
      <4>2. /\ i = Len(Tail(front)) + (i + 1 - Len(front))
            /\ i + 1 = Len(front) + (i + 1 - Len(front))
        BY <2>1, <1>1
      <4>3. QueueOf(Tail(front), back)[Len(Tail(front)) + (i + 1 - Len(front))]
              = back[Len(back) - (i + 1 - Len(front)) + 1]
        BY <4>1, <2>3, Zenon
      <4>4. Queue[Len(front) + (i + 1 - Len(front))]
              = back[Len(back) - (i + 1 - Len(front)) + 1]
        BY <4>1, <1>2, Zenon
      <4> QED BY <4>2, <4>3, <4>4, Zenon
    <3> QED BY <3>1, <3>2
  <2>5. NextTask = Head(front) /\ FrontAfterPop = Tail(front) /\ BackAfterPop = back
    BY <1>3 DEF NextTask, FrontAfterPop, BackAfterPop
  <2> QED BY <2>1, <2>2, <2>3, <2>4, <2>5, <1>1, <1>2 DEF IsTail
<1>4. CASE front = << >>
  <2>1. Len(front) = 0 /\ Len(back) > 0
    BY <1>4, <1>1, EmptySeq DEF CanPop
  <2>2. Rev(back) \in Seq(Task) /\ Len(Rev(back)) = Len(back) /\ Rev(back) # << >>
    BY <2>1, RevType, EmptySeq
  <2>3. /\ Tail(Rev(back)) \in Seq(Task)
        /\ Len(Tail(Rev(back))) = Len(back) - 1
        /\ \A i \in 1..(Len(back) - 1) : Tail(Rev(back))[i] = Rev(back)[i + 1]
    BY <2>2, HeadTailProperties
  <2>4. << >> \in Seq(Task) /\ Len(<< >>) = 0
    BY EmptySeq
  <2>5. /\ Len(QueueOf(Tail(Rev(back)), << >>)) = Len(back) - 1
        /\ \A i \in 1..(Len(back) - 1) :
             QueueOf(Tail(Rev(back)), << >>)[i] = Tail(Rev(back))[i]
    <3>1. /\ Len(QueueOf(Tail(Rev(back)), << >>)) = Len(Tail(Rev(back))) + Len(<< >>)
          /\ \A i \in 1..Len(Tail(Rev(back))) :
               QueueOf(Tail(Rev(back)), << >>)[i] = Tail(Rev(back))[i]
      <4>1. Reads(Task, QueueOf(Tail(Rev(back)), << >>), Tail(Rev(back)), << >>)
        BY <2>3, <2>4, QueueReads
      <4> QED BY <4>1 DEF Reads
    <3> QED BY <3>1, <2>3, <2>4, <1>1
  <2>6. ASSUME NEW i \in 1..(Len(Queue) - 1)
        PROVE  QueueOf(Tail(Rev(back)), << >>)[i] = Queue[i + 1]
    <3>1. i \in 1..(Len(back) - 1) /\ i + 1 \in 1..Len(back) /\ Len(front) + (i + 1) = i + 1
      BY <2>1, <1>1, <1>2
    <3>2. Rev(back)[i + 1] = back[Len(back) - (i + 1) + 1]
      BY <3>1, RevType
    <3>3. Queue[i + 1] = back[Len(back) - (i + 1) + 1]
      BY <3>1, <1>2
    <3> QED BY <3>1, <3>2, <3>3, <2>3, <2>5
  <2>7. Queue[1] = back[Len(back)] /\ back[Len(back)] \in Task
    <3>1. 1 \in 1..Len(back) /\ Len(back) \in 1..Len(back) /\ Len(front) + 1 = 1
          /\ Len(back) - 1 + 1 = Len(back)
      BY <2>1, <1>1
    <3> QED BY <3>1, <1>2, ElementOfSeq
  <2>8. NextTask = back[Len(back)] /\ FrontAfterPop = Tail(Rev(back)) /\ BackAfterPop = << >>
    BY <1>4 DEF NextTask, FrontAfterPop, BackAfterPop
  <2> QED BY <2>1, <2>3, <2>4, <2>5, <2>6, <2>7, <2>8, <1>1, <1>2 DEF IsTail
<1> QED BY <1>3, <1>4

\* pushBack, once or several times, appends to the queue: what is pushed last
\* stands first in back and last in the queue.
LEMMA PushIsAppend ==
  ASSUME NEW S, NEW f \in Seq(S), NEW b \in Seq(S), NEW n \in Seq(S),
         NEW m, m = n \o b
  PROVE  m \in Seq(S) /\ IsPushed(S, QueueOf(f, m), QueueOf(f, b), n)
<1>1. /\ m \in Seq(S) /\ Len(m) = Len(n) + Len(b)
      /\ \A i \in 1..Len(n) : m[i] = n[i]
      /\ \A j \in 1..Len(b) : m[Len(n) + j] = b[j]
  OBVIOUS
<1>2. Len(f) \in Nat /\ Len(b) \in Nat /\ Len(n) \in Nat
  BY LenProperties
<1>3. /\ QueueOf(f, m) \in Seq(S) /\ Len(QueueOf(f, m)) = Len(f) + Len(m)
      /\ \A i \in 1..Len(f) : QueueOf(f, m)[i] = f[i]
      /\ \A j \in 1..Len(m) : QueueOf(f, m)[Len(f) + j] = m[Len(m) - j + 1]
  <2>1. Reads(S, QueueOf(f, m), f, m)
    BY <1>1, QueueReads
  <2> QED BY <2>1 DEF Reads
<1>4. /\ Len(QueueOf(f, b)) = Len(f) + Len(b)
      /\ \A i \in 1..Len(f) : QueueOf(f, b)[i] = f[i]
      /\ \A j \in 1..Len(b) : QueueOf(f, b)[Len(f) + j] = b[Len(b) - j + 1]
  <2>1. Reads(S, QueueOf(f, b), f, b)
    BY QueueReads
  <2> QED BY <2>1 DEF Reads
<1>5. ASSUME NEW i \in 1..Len(QueueOf(f, b))
      PROVE  QueueOf(f, m)[i] = QueueOf(f, b)[i]
  <2>1. CASE i <= Len(f)
    BY <2>1, <1>2, <1>3, <1>4
  <2>2. CASE ~(i <= Len(f))
    <3>1. /\ i - Len(f) \in 1..Len(b) /\ i - Len(f) \in 1..Len(m)
          /\ i = Len(f) + (i - Len(f))
      BY <2>2, <1>1, <1>2, <1>4
    <3>2. QueueOf(f, m)[i] = m[Len(m) - (i - Len(f)) + 1]
      BY <3>1, <1>3
    <3>3. QueueOf(f, b)[i] = b[Len(b) - (i - Len(f)) + 1]
      BY <3>1, <1>4
    <3>4. /\ Len(m) - (i - Len(f)) + 1 = Len(n) + (Len(b) - (i - Len(f)) + 1)
          /\ Len(b) - (i - Len(f)) + 1 \in 1..Len(b)
      BY <3>1, <1>1, <1>2
    <3> QED BY <3>2, <3>3, <3>4, <1>1
  <2> QED BY <2>1, <2>2
<1>6. ASSUME NEW j \in 1..Len(n)
      PROVE  QueueOf(f, m)[Len(QueueOf(f, b)) + j] = n[Len(n) - j + 1]
  <2>1. /\ Len(b) + j \in 1..Len(m)
        /\ Len(QueueOf(f, b)) + j = Len(f) + (Len(b) + j)
        /\ Len(m) - (Len(b) + j) + 1 = Len(n) - j + 1
        /\ Len(n) - j + 1 \in 1..Len(n)
    BY <1>1, <1>2, <1>4
  <2>2. QueueOf(f, m)[Len(f) + (Len(b) + j)] = m[Len(m) - (Len(b) + j) + 1]
    BY <2>1, <1>3
  <2> QED BY <2>1, <2>2, <1>1
<1> QED BY <1>1, <1>2, <1>3, <1>4, <1>5, <1>6 DEF IsPushed

\* A turn takes the head of the queue and appends what the step pushes.
LEMMA TurnShifts ==
  ASSUME TypeOK, NEW t \in Task, Turn(t), NEW n \in Seq(Task),
         back' = n \o BackAfterPop
  PROVE  /\ t = Queue[1] /\ Len(Queue) > 0
         /\ front' \in Seq(Task) /\ back' \in Seq(Task)
         /\ Queue' \in Seq(Task)
         /\ Len(Queue') = Len(Queue) - 1 + Len(n)
         /\ \A i \in 1..(Len(Queue) - 1) : Queue'[i] = Queue[i + 1]
         /\ \A j \in 1..Len(n) : Queue'[Len(Queue) - 1 + j] = n[Len(n) - j + 1]
<1>1. front \in Seq(Task) /\ back \in Seq(Task) /\ CanPop
  BY DEF TypeOK, Turn
<1>2. /\ NextTask = Queue[1]
      /\ FrontAfterPop \in Seq(Task) /\ BackAfterPop \in Seq(Task)
      /\ IsTail(QueueOf(FrontAfterPop, BackAfterPop), Queue)
  BY <1>1, PopIsHead
<1>3. /\ back' \in Seq(Task)
      /\ IsPushed(Task, QueueOf(FrontAfterPop, back'),
                  QueueOf(FrontAfterPop, BackAfterPop), n)
  BY <1>2, PushIsAppend
<1>4. front' = FrontAfterPop /\ t = NextTask
  BY DEF Turn
<1>5. Queue' = QueueOf(FrontAfterPop, back')
  BY <1>4, Zenon DEF Queue
<1> QED BY <1>2, <1>3, <1>4, <1>5 DEF IsTail, IsPushed

\* The tasks owed a turn in this round stay the next ones of the queue.
LEMMA TurnKeepsRound ==
  ASSUME TypeOK, EveryTaskHasOnePlace, RoundServesAll,
         NEW t \in Task, Turn(t), NEW n \in Seq(Task), back' = n \o BackAfterPop
  PROVE  RoundServesAll'
<1>1. /\ t = Queue[1] /\ Len(Queue) > 0
      /\ Queue' \in Seq(Task)
      /\ Len(Queue') = Len(Queue) - 1 + Len(n)
      /\ \A i \in 1..(Len(Queue) - 1) : Queue'[i] = Queue[i + 1]
  BY TurnShifts
<1>2. /\ pc = "go" /\ pc' = "go" /\ budget' = budget - 1
      /\ owed' = owed \ {t} /\ budget > 0 /\ budget \in Nat
  BY DEF Turn, TypeOK
<1>3. /\ Queue \in Seq(Task) /\ Len(Queue) \in Nat /\ Len(n) \in Nat
      /\ DOMAIN Queue = 1..Len(Queue)
  <2>1. Queue \in Seq(Task)
    BY QueueReads DEF TypeOK, Queue, Reads
  <2> QED BY <2>1, LenProperties
<1>4. /\ owed = {Queue[i] : i \in {j \in DOMAIN Queue : j <= budget}}
      /\ budget <= Len(Queue)
  BY <1>1, <1>2, EmptySeq DEF RoundServesAll
<1>5. \A i, j \in DOMAIN Queue : Queue[i] = Queue[j] => i = j
  BY DEF EveryTaskHasOnePlace, NoTaskTwice
<1>6. DOMAIN Queue' = 1..Len(Queue')
  BY <1>1, LenProperties
<1>7. ASSUME NEW x
      PROVE  x \in owed' <=> \E i \in {j \in DOMAIN Queue' : j <= budget'} : x = Queue'[i]
  <2>1. ASSUME x \in owed'
        PROVE  \E i \in {j \in DOMAIN Queue' : j <= budget'} : x = Queue'[i]
    <3>1. PICK i \in 1..Len(Queue) : i <= budget /\ x = Queue[i]
      BY <2>1, <1>2, <1>3, <1>4
    <3>2. i # 1
      BY <2>1, <3>1, <1>1, <1>2
    <3>3. i - 1 \in 1..(Len(Queue) - 1) /\ (i - 1) + 1 = i
      BY <3>1, <3>2, <1>3
    <3>4. x = Queue'[i - 1]
      BY <3>1, <3>3, <1>1
    <3>5. i - 1 \in DOMAIN Queue' /\ i - 1 <= budget'
      BY <3>1, <3>3, <1>1, <1>2, <1>3, <1>6
    <3> QED BY <3>4, <3>5
  <2>2. ASSUME NEW i \in DOMAIN Queue', i <= budget', x = Queue'[i]
        PROVE  x \in owed'
    <3>1. i \in 1..(Len(Queue) - 1) /\ i + 1 \in 1..Len(Queue) /\ i + 1 <= budget /\ i + 1 # 1
      BY <2>2, <1>1, <1>2, <1>3, <1>4, <1>6
    <3>2. x = Queue[i + 1]
      BY <3>1, <2>2, <1>1
    <3>3. 1 \in DOMAIN Queue
      BY <3>1, <1>3
    <3>4. x # t
      BY <3>1, <3>2, <3>3, <1>1, <1>3, <1>5
    <3>5. x \in owed
      BY <3>1, <3>2, <1>3, <1>4
    <3> QED BY <3>4, <3>5, <1>2
  <2> QED BY <2>1, <2>2
<1>8. owed' = {Queue'[i] : i \in {j \in DOMAIN Queue' : j <= budget'}}
  BY <1>7
<1>9. budget' <= Len(Queue')
  BY <1>1, <1>2, <1>3, <1>4
<1> QED BY <1>2, <1>8, <1>9 DEF RoundServesAll

-----------------------------------------------------------------------------
(* Turns *)

\* The tasks of n are different ones and none of them is in S.
Fresh(n, S) == /\ \A i, j \in 1..Len(n) : n[i] = n[j] => i = j
               /\ \A j \in 1..Len(n) : n[j] \notin S

\* A turn takes its task out of the queue and puts in what the step pushes; no
\* task comes to stand in the queue twice.
LEMMA TurnPlaces ==
  ASSUME TypeOK, EveryTaskHasOnePlace,
         NEW t \in Task, Turn(t), NEW n \in Seq(Task), back' = n \o BackAfterPop,
         Fresh(n, Queued \ {t})
  PROVE  /\ t \in Queued
         /\ Queued' = (Queued \ {t}) \cup {n[j] : j \in 1..Len(n)}
         /\ \A i, j \in DOMAIN Queue' : Queue'[i] = Queue'[j] => i = j
<1>1. /\ t = Queue[1] /\ Len(Queue) > 0
      /\ Queue' \in Seq(Task)
      /\ Len(Queue') = Len(Queue) - 1 + Len(n)
      /\ \A i \in 1..(Len(Queue) - 1) : Queue'[i] = Queue[i + 1]
      /\ \A j \in 1..Len(n) : Queue'[Len(Queue) - 1 + j] = n[Len(n) - j + 1]
  BY TurnShifts
<1>2. /\ Queue \in Seq(Task) /\ Len(Queue) \in Nat /\ Len(n) \in Nat
      /\ DOMAIN Queue = 1..Len(Queue)
  <2>1. Queue \in Seq(Task)
    BY QueueReads DEF TypeOK, Queue, Reads
  <2> QED BY <2>1, LenProperties
<1>3. DOMAIN Queue' = 1..Len(Queue')
  BY <1>1, LenProperties
<1>4. \A i, j \in 1..Len(Queue) : Queue[i] = Queue[j] => i = j
  BY <1>2 DEF EveryTaskHasOnePlace, NoTaskTwice
<1>f. /\ \A i, j \in 1..Len(n) : n[i] = n[j] => i = j
      /\ \A j \in 1..Len(n) : n[j] \notin Queued \ {t}
  BY DEF Fresh
<1>5. t \in Queued
  BY <1>1, <1>2 DEF Queued
<1>6. ASSUME NEW i \in 1..(Len(Queue) - 1)
      PROVE  Queue'[i] \in Queued \ {t}
  <2>1. i + 1 \in 1..Len(Queue) /\ 1 \in 1..Len(Queue) /\ i + 1 # 1
    BY <1>1, <1>2
  <2>2. Queue'[i] = Queue[i + 1]
    BY <1>1
  <2>3. Queue[i + 1] \in Queued
    BY <2>1, <1>2 DEF Queued
  <2>4. Queue[i + 1] # Queue[1]
    BY <2>1, <1>4
  <2> QED BY <2>2, <2>3, <2>4, <1>1
<1>7. ASSUME NEW i \in DOMAIN Queue', ~(i <= Len(Queue) - 1)
      PROVE  /\ i - (Len(Queue) - 1) \in 1..Len(n)
             /\ Len(n) - (i - (Len(Queue) - 1)) + 1 \in 1..Len(n)
             /\ Queue'[i] = n[Len(n) - (i - (Len(Queue) - 1)) + 1]
  <2>1. i - (Len(Queue) - 1) \in 1..Len(n) /\ i = Len(Queue) - 1 + (i - (Len(Queue) - 1))
    BY <1>1, <1>2, <1>3, <1>7
  <2>2. Len(n) - (i - (Len(Queue) - 1)) + 1 \in 1..Len(n)
    BY <2>1, <1>2
  <2>3. Queue'[Len(Queue) - 1 + (i - (Len(Queue) - 1))]
          = n[Len(n) - (i - (Len(Queue) - 1)) + 1]
    BY <2>1, <1>1, Zenon
  <2> QED BY <2>1, <2>2, <2>3
<1>8. ASSUME NEW i \in DOMAIN Queue', NEW j \in DOMAIN Queue', Queue'[i] = Queue'[j]
      PROVE  i = j
  <2>1. CASE i <= Len(Queue) - 1 /\ j <= Len(Queue) - 1
    <3>1. /\ i \in 1..(Len(Queue) - 1) /\ j \in 1..(Len(Queue) - 1)
          /\ i + 1 \in 1..Len(Queue) /\ j + 1 \in 1..Len(Queue)
      BY <2>1, <1>1, <1>2, <1>3
    <3>2. Queue[i + 1] = Queue[j + 1]
      BY <3>1, <1>8, <1>1
    <3>3. i + 1 = j + 1
      BY <3>1, <3>2, <1>4
    <3> QED BY <3>1, <3>3
  <2>2. CASE i <= Len(Queue) - 1 /\ ~(j <= Len(Queue) - 1)
    <3>1. i \in 1..(Len(Queue) - 1)
      BY <2>2, <1>1, <1>2, <1>3
    <3> QED BY <3>1, <2>2, <1>6, <1>7, <1>8, <1>f
  <2>3. CASE ~(i <= Len(Queue) - 1) /\ j <= Len(Queue) - 1
    <3>1. j \in 1..(Len(Queue) - 1)
      BY <2>3, <1>1, <1>2, <1>3
    <3> QED BY <3>1, <2>3, <1>6, <1>7, <1>8, <1>f
  <2>4. CASE ~(i <= Len(Queue) - 1) /\ ~(j <= Len(Queue) - 1)
    <3>1. Len(n) - (i - (Len(Queue) - 1)) + 1 = Len(n) - (j - (Len(Queue) - 1)) + 1
      <4> DEFINE p(k) == Len(n) - (k - (Len(Queue) - 1)) + 1
      <4>1. p(i) \in 1..Len(n) /\ p(j) \in 1..Len(n) /\ n[p(i)] = n[p(j)]
        BY <2>4, <1>7, <1>8
      <4> HIDE DEF p
      <4>2. p(i) = p(j)
        BY <4>1, <1>f
      <4> QED BY <4>2 DEF p
    <3> QED BY <3>1, <1>1, <1>2, <1>3
  <2> QED BY <2>1, <2>2, <2>3, <2>4
<1>9. ASSUME NEW x
      PROVE  x \in Queued' <=> x \in (Queued \ {t}) \cup {n[j] : j \in 1..Len(n)}
  <2>1. ASSUME x \in Queued'
        PROVE  x \in (Queued \ {t}) \cup {n[j] : j \in 1..Len(n)}
    <3>1. PICK i \in DOMAIN Queue' : x = Queue'[i]
      BY <2>1 DEF Queued
    <3>2. CASE i <= Len(Queue) - 1
      <4>1. i \in 1..(Len(Queue) - 1)
        BY <3>2, <1>2, <1>3
      <4> QED BY <4>1, <3>1, <1>6
    <3>3. CASE ~(i <= Len(Queue) - 1)
      BY <3>1, <3>3, <1>7
    <3> QED BY <3>2, <3>3
  <2>2. ASSUME x \in Queued \ {t}
        PROVE  x \in Queued'
    <3>1. PICK i \in 1..Len(Queue) : x = Queue[i]
      BY <2>2, <1>2 DEF Queued
    <3>2. i # 1
      BY <2>2, <3>1, <1>1
    <3>3. i - 1 \in 1..(Len(Queue) - 1) /\ i - 1 + 1 = i /\ i - 1 \in DOMAIN Queue'
      BY <3>1, <3>2, <1>1, <1>2, <1>3
    <3>4. Queue'[i - 1] = x
      BY <3>1, <3>3, <1>1
    <3> QED BY <3>3, <3>4 DEF Queued
  <2>3. ASSUME NEW j \in 1..Len(n), x = n[j]
        PROVE  x \in Queued'
    <3>1. /\ Len(n) - j + 1 \in 1..Len(n)
          /\ Len(n) - (Len(n) - j + 1) + 1 = j
          /\ Len(Queue) - 1 + (Len(n) - j + 1) \in DOMAIN Queue'
      BY <1>1, <1>2, <1>3
    <3>2. Queue'[Len(Queue) - 1 + (Len(n) - j + 1)] = n[Len(n) - (Len(n) - j + 1) + 1]
      BY <3>1, <1>1, Zenon
    <3> QED BY <3>1, <3>2, <2>3 DEF Queued
  <2> QED BY <2>1, <2>2, <2>3
<1> QED BY <1>5, <1>8, <1>9

-----------------------------------------------------------------------------
(* Wake passes *)

\* The positions of I in increasing order: each once, none left out.
LEMMA InOrderFacts ==
  ASSUME NEW I \in SUBSET Nat, IsFiniteSet(I), NEW f \in InOrder(I)
  PROVE  /\ Cardinality(I) \in Nat
         /\ f \in [1..Cardinality(I) -> I]
         /\ \A i, j \in 1..Cardinality(I) : f[i] = f[j] => i = j
         /\ \A k \in I : \E i \in 1..Cardinality(I) : f[i] = k
<1>1. Cardinality(I) \in Nat
  BY FS_CardinalityType
<1>2. /\ f \in [1..Cardinality(I) -> I]
      /\ \A i, j \in 1..Cardinality(I) : i < j => f[i] < f[j]
      /\ \A k \in I : \E i \in 1..Cardinality(I) : f[i] = k
  BY DEF InOrder
<1>3. ASSUME NEW i \in 1..Cardinality(I), NEW j \in 1..Cardinality(I), f[i] = f[j]
      PROVE  i = j
  <2>1. f[i] \in Nat /\ f[j] \in Nat /\ i \in Nat /\ j \in Nat
    <3>1. f[i] \in I /\ f[j] \in I
      BY <1>2
    <3>2. I \subseteq Nat
      OBVIOUS
    <3>3. i \in Nat /\ j \in Nat
      BY <1>1
    <3> QED BY <3>1, <3>2, <3>3
  <2>2. ~(i < j) /\ ~(j < i)
    BY <2>1, <1>2, <1>3
  <2> QED BY <2>1, <2>2
<1> QED BY <1>1, <1>2, <1>3

\* A wake pass moves tasks from the park table to the queue and loses none.
LEMMA RejoinPlaces ==
  ASSUME TypeOK, EveryTaskHasOnePlace, NEW W \in SUBSET (DOMAIN parked),
         Rejoin(W), front' = front
  PROVE  /\ back' \in Seq(Task) /\ parked' \in Seq(Parked) /\ Queue' \in Seq(Task)
         /\ NoTaskTwice'
         /\ Queued' \cup ParkedTasks' = Queued \cup ParkedTasks
<1>1. /\ front \in Seq(Task) /\ back \in Seq(Task) /\ parked \in Seq(Parked)
      /\ Queue \in Seq(Task) /\ Len(Queue) \in Nat /\ DOMAIN Queue = 1..Len(Queue)
      /\ Len(parked) \in Nat /\ DOMAIN parked = 1..Len(parked)
      /\ \A i \in DOMAIN parked : parked[i] \in Parked
  <2>1. Queue \in Seq(Task)
    BY QueueReads DEF TypeOK, Queue, Reads
  <2> QED BY <2>1, LenProperties, ElementOfSeq DEF TypeOK
<1>2. PICK w \in InOrder(W), s \in InOrder(DOMAIN parked \ W) :
        /\ back' = [i \in DOMAIN w |-> parked[w[i]].task] \o back
        /\ parked' = Pick(parked, s)
  BY DEF Rejoin
<1>3. IsFiniteSet(W) /\ IsFiniteSet(DOMAIN parked \ W) /\ W \subseteq Nat
      /\ DOMAIN parked \ W \subseteq Nat
  <2>1. IsFiniteSet(DOMAIN parked)
    BY <1>1, FS_Interval
  <2> QED BY <2>1, <1>1, FS_Subset
<1> DEFINE k == Cardinality(W)
           l == Cardinality(DOMAIN parked \ W)
           n == [i \in DOMAIN w |-> parked[w[i]].task]
<1>4. /\ k \in Nat /\ w \in [1..k -> W]
      /\ \A i, j \in 1..k : w[i] = w[j] => i = j
      /\ \A p \in W : \E i \in 1..k : w[i] = p
  BY <1>3, InOrderFacts
<1>5. /\ l \in Nat /\ s \in [1..l -> DOMAIN parked \ W]
      /\ \A i, j \in 1..l : s[i] = s[j] => i = j
      /\ \A p \in DOMAIN parked \ W : \E i \in 1..l : s[i] = p
  BY <1>3, InOrderFacts
<1> HIDE DEF k, l
<1>6. /\ n \in Seq(Task) /\ Len(n) = k
      /\ \A i \in 1..k : n[i] = parked[w[i]].task
  <2>1. \A i \in 1..k : parked[w[i]].task \in Task
    BY <1>1, <1>4 DEF Parked
  <2>2. n = [i \in 1..k |-> parked[w[i]].task]
    BY <1>4
  <2> QED BY <2>1, <2>2, <1>4
<1>7. back' = n \o back
  BY <1>2
<1> HIDE DEF n
<1>8. back' \in Seq(Task) /\ IsPushed(Task, Queue', Queue, n)
  <2>1. back' \in Seq(Task) /\ IsPushed(Task, QueueOf(front, back'), QueueOf(front, back), n)
    BY <1>1, <1>6, <1>7, PushIsAppend
  <2> QED BY <2>1, Zenon DEF Queue
<1>9. /\ parked' \in Seq(Parked) /\ DOMAIN parked' = 1..l
      /\ \A i \in 1..l : parked'[i] = parked[s[i]]
  <2>1. parked' = [i \in 1..l |-> parked[s[i]]]
    BY <1>2, <1>5 DEF Pick
  <2>2. \A i \in 1..l : parked[s[i]] \in Parked
    BY <1>1, <1>5
  <2> QED BY <2>1, <2>2, <1>5
<1>10. /\ Queue' \in Seq(Task) /\ Len(Queue') = Len(Queue) + k
       /\ DOMAIN Queue' = 1..(Len(Queue) + k)
       /\ \A i \in 1..Len(Queue) : Queue'[i] = Queue[i]
       /\ \A j \in 1..k : Queue'[Len(Queue) + j] = n[k - j + 1]
  BY <1>6, <1>8, LenProperties DEF IsPushed
<1>11. /\ \A i, j \in DOMAIN Queue : Queue[i] = Queue[j] => i = j
       /\ \A i, j \in DOMAIN parked : parked[i].task = parked[j].task => i = j
       /\ Queued \cap ParkedTasks = {}
  BY DEF EveryTaskHasOnePlace, NoTaskTwice
<1>12. /\ \A i \in 1..Len(Queue) : Queue[i] \in Queued
       /\ \A i \in DOMAIN parked : parked[i].task \in ParkedTasks
  BY <1>1 DEF Queued, ParkedTasks
<1>13. \A i, j \in 1..k : n[i] = n[j] => i = j
  <2> SUFFICES ASSUME NEW i \in 1..k, NEW j \in 1..k, n[i] = n[j]
               PROVE  i = j
    OBVIOUS
  <2>1. w[i] \in DOMAIN parked /\ w[j] \in DOMAIN parked
    BY <1>4
  <2>2. parked[w[i]].task = parked[w[j]].task
    BY <1>6
  <2>3. w[i] = w[j]
    BY <2>1, <2>2, <1>11, Zenon
  <2> QED BY <2>3, <1>4
\* What stands behind the old queue.
<1>14. ASSUME NEW i \in DOMAIN Queue', ~(i <= Len(Queue))
       PROVE  /\ k - (i - Len(Queue)) + 1 \in 1..k
              /\ Queue'[i] = n[k - (i - Len(Queue)) + 1]
              /\ \E p \in W : Queue'[i] = parked[p].task
  <2>1. /\ i - Len(Queue) \in 1..k /\ i = Len(Queue) + (i - Len(Queue))
        /\ k - (i - Len(Queue)) + 1 \in 1..k
    BY <1>1, <1>4, <1>10, <1>14
  <2>2. Queue'[Len(Queue) + (i - Len(Queue))] = n[k - (i - Len(Queue)) + 1]
    BY <2>1, <1>10, Zenon
  <2>3. w[k - (i - Len(Queue)) + 1] \in W
    BY <2>1, <1>4
  <2> QED BY <2>1, <2>2, <2>3, <1>6
<1>15. ASSUME NEW i \in DOMAIN Queue', NEW j \in DOMAIN Queue', Queue'[i] = Queue'[j]
       PROVE  i = j
  <2>1. CASE i <= Len(Queue) /\ j <= Len(Queue)
    <3>1. i \in DOMAIN Queue /\ j \in DOMAIN Queue
      BY <2>1, <1>1, <1>4, <1>10
    <3> QED BY <3>1, <1>1, <1>10, <1>11, <1>15
  <2>2. CASE i <= Len(Queue) /\ ~(j <= Len(Queue))
    <3>1. i \in DOMAIN Queue
      BY <2>2, <1>1, <1>4, <1>10
    <3>2. Queue'[i] \in Queued /\ Queue'[j] \in ParkedTasks
      BY <3>1, <2>2, <1>1, <1>10, <1>12, <1>14
    <3> QED BY <3>2, <1>11, <1>15
  <2>3. CASE ~(i <= Len(Queue)) /\ j <= Len(Queue)
    <3>1. j \in DOMAIN Queue
      BY <2>3, <1>1, <1>4, <1>10
    <3>2. Queue'[j] \in Queued /\ Queue'[i] \in ParkedTasks
      BY <3>1, <2>3, <1>1, <1>10, <1>12, <1>14
    <3> QED BY <3>2, <1>11, <1>15
  <2>4. CASE ~(i <= Len(Queue)) /\ ~(j <= Len(Queue))
    <3> DEFINE p(x) == k - (x - Len(Queue)) + 1
    <3>1. p(i) \in 1..k /\ p(j) \in 1..k /\ n[p(i)] = n[p(j)]
      BY <2>4, <1>14, <1>15
    <3> HIDE DEF p
    <3>2. p(i) = p(j)
      BY <3>1, <1>13
    <3> QED BY <3>2, <1>1, <1>4, <1>10 DEF p
  <2> QED BY <2>1, <2>2, <2>3, <2>4
<1>16. ASSUME NEW i \in 1..l, NEW j \in 1..l, parked'[i].task = parked'[j].task
       PROVE  i = j
  <2>1. s[i] \in DOMAIN parked /\ s[j] \in DOMAIN parked
    BY <1>5
  <2>2. parked[s[i]].task = parked[s[j]].task
    BY <1>9, <1>16
  <2>3. s[i] = s[j]
    BY <2>1, <2>2, <1>11, Zenon
  <2> QED BY <2>3, <1>5
<1>17. Queued' \cap ParkedTasks' = {}
  <2> SUFFICES ASSUME NEW i \in DOMAIN Queue', NEW j \in 1..l,
                      Queue'[i] = parked'[j].task
               PROVE  FALSE
    BY <1>9 DEF Queued, ParkedTasks
  <2>1. /\ s[j] \in DOMAIN parked /\ s[j] \notin W
        /\ Queue'[i] = parked[s[j]].task
    BY <1>5, <1>9
  <2>2. CASE i <= Len(Queue)
    <3>1. i \in DOMAIN Queue
      BY <2>2, <1>1, <1>4, <1>10
    <3>2. Queue'[i] \in Queued
      BY <3>1, <1>1, <1>10, <1>12
    <3> QED BY <3>2, <2>1, <1>11, <1>12
  <2>3. CASE ~(i <= Len(Queue))
    <3>1. PICK p \in W : Queue'[i] = parked[p].task
      BY <2>3, <1>14
    <3>2. p = s[j]
      BY <3>1, <2>1, <1>11
    <3> QED BY <3>2, <2>1
  <2> QED BY <2>2, <2>3
<1>18. ASSUME NEW x
       PROVE  x \in Queued' \cup ParkedTasks' <=> x \in Queued \cup ParkedTasks
  <2>1. ASSUME x \in Queued'
        PROVE  x \in Queued \cup ParkedTasks
    <3>1. PICK i \in DOMAIN Queue' : x = Queue'[i]
      BY <2>1 DEF Queued
    <3>2. CASE i <= Len(Queue)
      <4>1. i \in DOMAIN Queue
        BY <3>2, <1>1, <1>4, <1>10
      <4> QED BY <4>1, <3>1, <1>1, <1>10, <1>12
    <3>3. CASE ~(i <= Len(Queue))
      BY <3>1, <3>3, <1>12, <1>14
    <3> QED BY <3>2, <3>3
  <2>2. ASSUME x \in ParkedTasks'
        PROVE  x \in ParkedTasks
    <3>1. PICK j \in 1..l : x = parked'[j].task
      BY <2>2, <1>9 DEF ParkedTasks
    <3> QED BY <3>1, <1>5, <1>9, <1>12
  <2>3. ASSUME x \in Queued
        PROVE  x \in Queued'
    <3>1. PICK i \in 1..Len(Queue) : x = Queue[i]
      BY <2>3, <1>1 DEF Queued
    <3>2. i \in DOMAIN Queue' /\ Queue'[i] = x
      BY <3>1, <1>1, <1>4, <1>10
    <3> QED BY <3>2 DEF Queued
  <2>4. ASSUME x \in ParkedTasks
        PROVE  x \in Queued' \cup ParkedTasks'
    <3>1. PICK p \in DOMAIN parked : x = parked[p].task
      BY <2>4 DEF ParkedTasks
    <3>2. CASE p \in W
      <4>1. PICK j \in 1..k : w[j] = p
        BY <3>2, <1>4
      <4>2. /\ k - j + 1 \in 1..k /\ k - (k - j + 1) + 1 = j
            /\ Len(Queue) + (k - j + 1) \in DOMAIN Queue'
        BY <1>1, <1>4, <1>10
      <4>3. Queue'[Len(Queue) + (k - j + 1)] = n[k - (k - j + 1) + 1]
        BY <4>2, <1>10, Zenon
      <4>4. x \in Queued'
        BY <4>1, <4>2, <4>3, <3>1, <1>6 DEF Queued
      <4> QED BY <4>4
    <3>3. CASE p \notin W
      <4>1. PICK j \in 1..l : s[j] = p
        BY <3>3, <1>5
      <4>2. x = parked'[j].task /\ j \in DOMAIN parked'
        BY <4>1, <3>1, <1>9
      <4>3. x \in ParkedTasks'
        BY <4>2 DEF ParkedTasks
      <4> QED BY <4>3
    <3> QED BY <3>2, <3>3
  <2> QED BY <2>1, <2>2, <2>3, <2>4
<1>19. NoTaskTwice'
  BY <1>9, <1>15, <1>16, <1>17 DEF NoTaskTwice
<1> QED BY <1>8, <1>9, <1>10, <1>18, <1>19

\* The round that begins after a pass owes a turn to the whole queue.
LEMMA RoundBegins ==
  ASSUME BeginRound, Queue' \in Seq(Task)
  PROVE  /\ budget' \in Nat /\ owed' \subseteq Task
         /\ pc' \in {"go"} /\ block' \in BOOLEAN /\ until' \in Int
         /\ RoundServesAll'
<1>1. Len(Queue') \in Nat /\ DOMAIN Queue' = 1..Len(Queue')
      /\ \A i \in 1..Len(Queue') : Queue'[i] \in Task
  BY LenProperties, ElementOfSeq
<1>2. /\ budget' = IF Queue' = << >> THEN 1 ELSE Len(Queue')
      /\ owed' = {Queue'[i] : i \in DOMAIN Queue'}
      /\ pc' = "go" /\ block' = FALSE /\ until' = 0
  BY DEF BeginRound, Queued
<1>3. owed' = {Queue'[i] : i \in {j \in DOMAIN Queue' : j <= budget'}}
  <2>1. CASE Queue' = << >>
    <3>1. DOMAIN Queue' = {}
      BY <2>1, <1>1, EmptySeq
    <3> QED BY <3>1, <1>2
  <2>2. CASE Queue' # << >>
    <3>1. DOMAIN Queue' = {j \in DOMAIN Queue' : j <= budget'}
      BY <2>2, <1>1, <1>2
    <3> QED BY <3>1, <1>2
  <2> QED BY <2>1, <2>2
<1>4. block' \in BOOLEAN
  BY <1>2, Zenon
<1> QED BY <1>1, <1>2, <1>3, <1>4 DEF RoundServesAll

\* A non-empty park table with deadlines has a nearest one.
LEMMA EarliestExists ==
  ASSUME TypeOK, ParkedDeadlines # {}
  PROVE  Earliest \in Deadline /\ Earliest \in Nat /\ Earliest \in ParkedDeadlines
<1>1. \A i \in DOMAIN parked : parked[i].waits \subseteq Wait
  <2>1. \A i \in DOMAIN parked : parked[i] \in Parked
    BY LenProperties, ElementOfSeq DEF TypeOK
  <2> QED BY <2>1 DEF Parked
<1>2. \A w \in Wait : IsDeadline(w) => w.at \in Deadline
  BY DEF Wait, FdWait, FlagWait, IsDeadline
<1>3. ParkedDeadlines \subseteq Deadline
  BY <1>1, <1>2 DEF ParkedDeadlines
<1>4. ParkedDeadlines \subseteq Nat
  BY <1>3, ClockUnits
<1>5. PICK t \in ParkedDeadlines : \A u \in ParkedDeadlines : <<u, t>> \notin OpToRel(<, Nat)
  BY <1>4, NatLessThanWellFounded, WFMin
<1>6. \A u \in ParkedDeadlines : t <= u
  <2> SUFFICES ASSUME NEW u \in ParkedDeadlines PROVE t <= u
    OBVIOUS
  <2>1. ~(u < t)
    BY <1>4, <1>5 DEF OpToRel
  <2> QED BY <2>1, <1>4
<1>7. Earliest \in ParkedDeadlines
  BY <1>6 DEF Earliest
<1> QED BY <1>3, <1>4, <1>7

-----------------------------------------------------------------------------
(* The inductive invariant *)

IInv == TypeOK /\ EveryTaskHasOnePlace /\ RoundServesAll

LEMMA InitEstablishes == Init => IInv
<1> SUFFICES ASSUME Init PROVE IInv
  OBVIOUS
<1>1. /\ front = <<Root>> /\ back = << >> /\ parked = << >>
      /\ life = [t \in Task |-> IF t = Root THEN "live" ELSE "unborn"]
      /\ budget = 1 /\ owed = {Root} /\ pc = "go" /\ block = FALSE /\ until = 0
      /\ clock = 0 /\ readable = {} /\ flags = {}
  BY DEF Init
<1>2. Queue = <<Root>>
  BY <1>1 DEF Queue, QueueOf, Rev
<1>3. TypeOK
  <2>1. front \in Seq(Task) /\ back \in Seq(Task) /\ parked \in Seq(Parked)
    BY <1>1, RootIsTask, EmptySeq
  <2>2. life \in [Task -> {"unborn", "live", "finished"}] /\ owed \subseteq Task
    BY <1>1, RootIsTask
  <2>3. 0 \in 0..MaxTime
    BY ClockUnits
  <2>4. /\ budget \in Nat /\ pc \in {"go"} /\ until \in Int
        /\ clock \in 0..MaxTime /\ readable \subseteq Fd /\ flags \subseteq Flag
    BY <1>1, <2>3
  <2>5. block \in BOOLEAN
    BY <1>1, Zenon
  <2> QED BY <2>1, <2>2, <2>4, <2>5 DEF TypeOK
<1>4. Queued = {Root} /\ ParkedTasks = {}
  BY <1>1, <1>2 DEF Queued, ParkedTasks
<1>5. EveryTaskHasOnePlace
  BY <1>1, <1>2, <1>4, RootIsTask DEF EveryTaskHasOnePlace, NoTaskTwice, NoTaskLost
<1>6. RoundServesAll
  BY <1>1, <1>2 DEF RoundServesAll
<1> QED BY <1>3, <1>5, <1>6 DEF IInv

\* What every turn leaves alone or in range.
LEMMA TurnType ==
  ASSUME TypeOK, NEW t \in Task, Turn(t)
  PROVE  /\ budget' \in Nat /\ owed' \subseteq Task
         /\ readable' \subseteq Fd /\ flags' \subseteq Flag
         /\ pc' \in {"go"} /\ block' \in BOOLEAN /\ until' \in Int
         /\ clock' \in 0..MaxTime
BY DEF TypeOK, Turn

\* The steps that leave the queue, the park table and the lives alone.
LEMMA StillPlaces ==
  ASSUME EveryTaskHasOnePlace, UNCHANGED <<front, back, parked, life>>
  PROVE  EveryTaskHasOnePlace' /\ Queue' = Queue /\ Queued' = Queued
<1>1. Queue' = Queue
  BY DEF Queue
<1>2. Queued' = Queued /\ ParkedTasks' = ParkedTasks
  BY <1>1 DEF Queued, ParkedTasks
<1>3. NoTaskTwice'
  BY <1>1, <1>2 DEF EveryTaskHasOnePlace, NoTaskTwice
<1>4. NoTaskLost'
  BY <1>2 DEF EveryTaskHasOnePlace, NoTaskLost
<1> QED BY <1>1, <1>2, <1>3, <1>4 DEF EveryTaskHasOnePlace

\* Parking a task that was not parked adds it to the park table.
LEMMA ParkAdds ==
  ASSUME parked \in Seq(Parked), NEW e \in Parked, parked' = <<e>> \o parked,
         e.task \notin ParkedTasks,
         \A i, j \in DOMAIN parked : parked[i].task = parked[j].task => i = j
  PROVE  /\ parked' \in Seq(Parked)
         /\ ParkedTasks' = ParkedTasks \cup {e.task}
         /\ \A i, j \in DOMAIN parked' : parked'[i].task = parked'[j].task => i = j
<1>1. /\ parked' \in Seq(Parked) /\ Len(parked') = Len(parked) + 1
      /\ Len(parked) \in Nat /\ DOMAIN parked = 1..Len(parked)
      /\ DOMAIN parked' = 1..(Len(parked) + 1)
      /\ parked'[1] = e
      /\ \A i \in 2..(Len(parked) + 1) : parked'[i] = parked[i - 1]
  OBVIOUS
<1>2. \A i \in DOMAIN parked : parked[i].task \in ParkedTasks
  BY DEF ParkedTasks
<1>3. ASSUME NEW i \in DOMAIN parked', NEW j \in DOMAIN parked',
             parked'[i].task = parked'[j].task
      PROVE  i = j
  <2>1. CASE i = 1 /\ j = 1
    BY <2>1
  <2>2. CASE i = 1 /\ j # 1
    <3>1. j - 1 \in DOMAIN parked /\ parked'[j] = parked[j - 1]
      BY <1>1, <2>2
    <3> QED BY <3>1, <2>2, <1>1, <1>2, <1>3
  <2>3. CASE i # 1 /\ j = 1
    <3>1. i - 1 \in DOMAIN parked /\ parked'[i] = parked[i - 1]
      BY <1>1, <2>3
    <3> QED BY <3>1, <2>3, <1>1, <1>2, <1>3
  <2>4. CASE i # 1 /\ j # 1
    <3>1. /\ i - 1 \in DOMAIN parked /\ parked'[i] = parked[i - 1]
          /\ j - 1 \in DOMAIN parked /\ parked'[j] = parked[j - 1]
      BY <1>1, <2>4
    <3>2. i - 1 = j - 1
      BY <3>1, <1>3
    <3> QED BY <3>2, <1>1
  <2> QED BY <2>1, <2>2, <2>3, <2>4
<1>4. ASSUME NEW x
      PROVE  x \in ParkedTasks' <=> x \in ParkedTasks \cup {e.task}
  <2>1. ASSUME x \in ParkedTasks'
        PROVE  x \in ParkedTasks \cup {e.task}
    <3>1. PICK i \in DOMAIN parked' : x = parked'[i].task
      BY <2>1 DEF ParkedTasks
    <3>2. CASE i = 1
      BY <3>1, <3>2, <1>1
    <3>3. CASE i # 1
      <4>1. i - 1 \in DOMAIN parked /\ parked'[i] = parked[i - 1]
        BY <1>1, <3>3
      <4> QED BY <4>1, <3>1, <1>2
    <3> QED BY <3>2, <3>3
  <2>2. ASSUME x \in ParkedTasks
        PROVE  x \in ParkedTasks'
    <3>1. PICK i \in DOMAIN parked : x = parked[i].task
      BY <2>2 DEF ParkedTasks
    <3>2. i + 1 \in DOMAIN parked' /\ parked'[i + 1] = parked[i]
      BY <1>1
    <3> QED BY <3>1, <3>2 DEF ParkedTasks
  <2>3. e.task \in ParkedTasks'
    <3>1. 1 \in DOMAIN parked' /\ parked'[1].task = e.task
      BY <1>1
    <3> QED BY <3>1 DEF ParkedTasks
  <2> QED BY <2>1, <2>2, <2>3
<1> QED BY <1>1, <1>3, <1>4

\* A turn preserves the invariant, whatever the step yields.
LEMMA TurnPreserves ==
  ASSUME IInv, RunTask
  PROVE  IInv'
<1> USE DEF IInv
<1>q. \A t \in Task : life[t] = "live" <=> t \in Queued \cup ParkedTasks
  BY DEF EveryTaskHasOnePlace, NoTaskLost
<1>d. Queued \cap ParkedTasks = {}
  BY DEF EveryTaskHasOnePlace, NoTaskTwice
<1>p. /\ ParkedTasks \subseteq Task
      /\ \A i, j \in DOMAIN parked : parked[i].task = parked[j].task => i = j
  BY DEF EveryTaskHasOnePlace, NoTaskLost, NoTaskTwice
<1>1. CASE TaskFinishes
  <2>1. PICK t \in Task : /\ Turn(t) /\ back' = BackAfterPop
                          /\ life' = [life EXCEPT ![t] = "finished"]
                          /\ UNCHANGED parked
    BY <1>1 DEF TaskFinishes
  <2>2. << >> \in Seq(Task) /\ Len(<< >>) = 0 /\ back' = << >> \o BackAfterPop
    <3>1. BackAfterPop \in Seq(Task)
      BY <2>1, PopIsHead DEF TypeOK, Turn
    <3> QED BY <3>1, <2>1
  <2>3. RoundServesAll'
    BY <2>1, <2>2, TurnKeepsRound
  <2>4. /\ t \in Queued /\ Queued' = Queued \ {t}
        /\ \A i, j \in DOMAIN Queue' : Queue'[i] = Queue'[j] => i = j
    <3>1. Fresh(<< >>, Queued \ {t})
      BY DEF Fresh
    <3>2. /\ t \in Queued
          /\ Queued' = (Queued \ {t}) \cup {<< >>[j] : j \in 1..Len(<< >>)}
          /\ \A i, j \in DOMAIN Queue' : Queue'[i] = Queue'[j] => i = j
      BY <2>1, <2>2, <3>1, TurnPlaces, Zenon
    <3> QED BY <3>2
  <2>5. front' \in Seq(Task) /\ back' \in Seq(Task)
    BY <2>1, <2>2, TurnShifts
  <2>6. TypeOK'
    BY <2>1, <2>5, TurnType DEF TypeOK
  <2>7. ParkedTasks' = ParkedTasks
    BY <2>1 DEF ParkedTasks
  <2>8. NoTaskTwice'
    BY <2>1, <2>4, <2>7, <1>d, <1>p DEF NoTaskTwice
  <2>9. NoTaskLost'
    BY <2>1, <2>4, <2>7, <1>q, <1>d DEF NoTaskLost, TypeOK, EveryTaskHasOnePlace
  <2> QED BY <2>3, <2>6, <2>8, <2>9 DEF EveryTaskHasOnePlace
<1>2. CASE TaskYields
  <2>1. PICK t \in Task : /\ Turn(t) /\ back' = <<t>> \o BackAfterPop
                          /\ UNCHANGED <<parked, life>>
    BY <1>2 DEF TaskYields
  <2>2. <<t>> \in Seq(Task) /\ Len(<<t>>) = 1 /\ <<t>>[1] = t
    OBVIOUS
  <2>3. RoundServesAll'
    BY <2>1, <2>2, TurnKeepsRound
  <2>4. /\ t \in Queued /\ Queued' = (Queued \ {t}) \cup {<<t>>[j] : j \in 1..Len(<<t>>)}
        /\ \A i, j \in DOMAIN Queue' : Queue'[i] = Queue'[j] => i = j
    <3>1. Fresh(<<t>>, Queued \ {t})
      BY <2>2 DEF Fresh
    <3> QED BY <2>1, <2>2, <3>1, TurnPlaces, Zenon
  <2>5. front' \in Seq(Task) /\ back' \in Seq(Task)
    BY <2>1, <2>2, TurnShifts
  <2>6. TypeOK'
    BY <2>1, <2>5, TurnType DEF TypeOK
  <2>7. ParkedTasks' = ParkedTasks /\ Queued' = Queued
    BY <2>1, <2>2, <2>4 DEF ParkedTasks
  <2>8. NoTaskTwice'
    BY <2>1, <2>4, <2>7, <1>d, <1>p DEF NoTaskTwice
  <2>9. NoTaskLost'
    BY <2>1, <2>7 DEF NoTaskLost, EveryTaskHasOnePlace
  <2> QED BY <2>3, <2>6, <2>8, <2>9 DEF EveryTaskHasOnePlace
<1>3. CASE TaskParks
  <2>1. PICK t \in Task, ws \in SUBSET Wait :
          /\ Turn(t) /\ back' = BackAfterPop
          /\ parked' = <<[task |-> t, waits |-> ws]>> \o parked
          /\ UNCHANGED life
    BY <1>3 DEF TaskParks
  <2>2. << >> \in Seq(Task) /\ Len(<< >>) = 0 /\ back' = << >> \o BackAfterPop
    <3>1. BackAfterPop \in Seq(Task)
      BY <2>1, PopIsHead DEF TypeOK, Turn
    <3> QED BY <3>1, <2>1
  <2>3. RoundServesAll'
    BY <2>1, <2>2, TurnKeepsRound
  <2>4. /\ t \in Queued /\ Queued' = Queued \ {t}
        /\ \A i, j \in DOMAIN Queue' : Queue'[i] = Queue'[j] => i = j
    <3>1. Fresh(<< >>, Queued \ {t})
      BY DEF Fresh
    <3>2. /\ t \in Queued
          /\ Queued' = (Queued \ {t}) \cup {<< >>[j] : j \in 1..Len(<< >>)}
          /\ \A i, j \in DOMAIN Queue' : Queue'[i] = Queue'[j] => i = j
      BY <2>1, <2>2, <3>1, TurnPlaces, Zenon
    <3> QED BY <3>2
  <2>5. front' \in Seq(Task) /\ back' \in Seq(Task)
    BY <2>1, <2>2, TurnShifts
  <2>6. /\ parked' \in Seq(Parked) /\ t \notin ParkedTasks
        /\ ParkedTasks' = ParkedTasks \cup {t}
        /\ \A i, j \in DOMAIN parked' : parked'[i].task = parked'[j].task => i = j
    <3>1. [task |-> t, waits |-> ws] \in Parked /\ t \notin ParkedTasks
      BY <2>4, <1>d DEF Parked
    <3> QED BY <2>1, <3>1, <1>p, ParkAdds DEF TypeOK
  <2>7. TypeOK'
    BY <2>1, <2>5, <2>6, TurnType DEF TypeOK
  <2>8. NoTaskTwice'
    BY <2>4, <2>6, <1>d DEF NoTaskTwice
  <2>9. NoTaskLost'
    BY <2>1, <2>4, <2>6, <1>q DEF NoTaskLost, EveryTaskHasOnePlace
  <2> QED BY <2>3, <2>7, <2>8, <2>9 DEF EveryTaskHasOnePlace
<1>4. CASE TaskSpawns
  <2>1. PICK t \in Task, c \in Task :
          /\ life[c] = "unborn" /\ Turn(t) /\ back' = <<t, c>> \o BackAfterPop
          /\ life' = [life EXCEPT ![c] = "live"]
          /\ UNCHANGED parked
    BY <1>4 DEF TaskSpawns
  <2>2. /\ <<t, c>> \in Seq(Task) /\ Len(<<t, c>>) = 2
        /\ <<t, c>>[1] = t /\ <<t, c>>[2] = c
    OBVIOUS
  <2>3. RoundServesAll'
    BY <2>1, <2>2, TurnKeepsRound
  <2>4. t \in Queued
    <3>1. t = Queue[1] /\ Len(Queue) > 0
      BY <2>1, <2>2, TurnShifts
    <3>2. Queue \in Seq(Task)
      BY QueueReads DEF TypeOK, Queue, Reads
    <3> QED BY <3>1, <3>2, LenProperties DEF Queued
  <2>5. c \notin Queued /\ c \notin ParkedTasks /\ c # t
    BY <2>1, <2>4, <1>q
  <2>6. /\ Queued' = (Queued \ {t}) \cup {<<t, c>>[j] : j \in 1..Len(<<t, c>>)}
        /\ \A i, j \in DOMAIN Queue' : Queue'[i] = Queue'[j] => i = j
    <3>1. Fresh(<<t, c>>, Queued \ {t})
      BY <2>2, <2>5 DEF Fresh
    <3> QED BY <2>1, <2>2, <3>1, TurnPlaces, Zenon
  <2>7. Queued' = Queued \cup {c} /\ ParkedTasks' = ParkedTasks
    <3>1. {<<t, c>>[j] : j \in 1..Len(<<t, c>>)} = {t, c}
      BY <2>2
    <3> QED BY <2>1, <2>4, <2>6, <3>1 DEF ParkedTasks
  <2>8. front' \in Seq(Task) /\ back' \in Seq(Task)
    BY <2>1, <2>2, TurnShifts
  <2>9. TypeOK'
    BY <2>1, <2>8, TurnType DEF TypeOK
  <2>10. NoTaskTwice'
    BY <2>1, <2>5, <2>6, <2>7, <1>d, <1>p DEF NoTaskTwice
  <2>11. NoTaskLost'
    BY <2>1, <2>7, <1>q DEF NoTaskLost, EveryTaskHasOnePlace, TypeOK
  <2> QED BY <2>3, <2>9, <2>10, <2>11 DEF EveryTaskHasOnePlace
<1> QED BY <1>1, <1>2, <1>3, <1>4 DEF RunTask

\* A pass over the park table moves what woke to the queue and begins a round.
LEMMA WakePreserves ==
  ASSUME IInv, NEW W, W \subseteq DOMAIN parked, Rejoin(W),
         UNCHANGED <<front, envVars, life>>, BeginRound
  PROVE  IInv'
<1>1. /\ back' \in Seq(Task) /\ parked' \in Seq(Parked) /\ Queue' \in Seq(Task)
      /\ NoTaskTwice' /\ Queued' \cup ParkedTasks' = Queued \cup ParkedTasks
  BY RejoinPlaces DEF IInv
<1>2. /\ budget' \in Nat /\ owed' \subseteq Task
      /\ pc' \in {"go"} /\ block' \in BOOLEAN /\ until' \in Int /\ RoundServesAll'
  BY <1>1, RoundBegins
<1>3. TypeOK'
  BY <1>1, <1>2 DEF IInv, TypeOK, envVars
<1>4. NoTaskLost'
  BY <1>1 DEF IInv, EveryTaskHasOnePlace, NoTaskLost
<1> QED BY <1>1, <1>2, <1>3, <1>4 DEF IInv, EveryTaskHasOnePlace

\* A pass that wakes nobody leaves the queue alone and begins a round.
LEMMA QuietPassPreserves ==
  ASSUME IInv, UNCHANGED <<front, back, parked, envVars, life>>, BeginRound
  PROVE  IInv'
<1>1. Queue \in Seq(Task)
  BY QueueReads DEF IInv, TypeOK, Queue, Reads
<1>2. EveryTaskHasOnePlace' /\ Queue' = Queue
  BY StillPlaces DEF IInv
<1>3. /\ budget' \in Nat /\ owed' \subseteq Task
      /\ pc' \in {"go"} /\ block' \in BOOLEAN /\ until' \in Int /\ RoundServesAll'
  BY <1>1, <1>2, RoundBegins
<1>4. TypeOK'
  BY <1>3 DEF IInv, TypeOK, envVars
<1> QED BY <1>2, <1>3, <1>4 DEF IInv

\* Outside of turns the driver moves its pc, its argument block and its
\* deadline; nobody is owed a turn there.
LEMMA DriverMoves ==
  ASSUME IInv, UNCHANGED <<queueVars, envVars, life, owed>>, owed = {},
         pc' \in {"wake", "sleep", "poll", "returned", "noValue", "deadlock",
                  "pollFailed"},
         block' \in BOOLEAN, until' \in Int
  PROVE  IInv'
<1>1. EveryTaskHasOnePlace'
  BY StillPlaces DEF IInv, queueVars
<1>2. RoundServesAll'
  BY DEF RoundServesAll
<1>3. TypeOK'
  BY DEF IInv, TypeOK, queueVars, envVars
<1> QED BY <1>1, <1>2, <1>3 DEF IInv

\* When the budget is used up, or nothing is queued, nobody is owed a turn.
LEMMA NobodyOwed ==
  ASSUME IInv, pc # "go" \/ budget <= 0 \/ ~CanPop
  PROVE  owed = {}
<1>1. CASE pc # "go"
  BY <1>1 DEF IInv, RoundServesAll
<1>2. CASE pc = "go"
  <2>1. owed = {Queue[i] : i \in {j \in DOMAIN Queue : j <= budget}}
    BY <1>2 DEF IInv, RoundServesAll
  <2>2. Reads(Task, Queue, front, back)
    BY QueueReads DEF IInv, TypeOK, Queue
  <2>3. DOMAIN Queue = 1..Len(Queue) /\ Len(Queue) = Len(front) + Len(back)
    BY <2>2, LenProperties DEF Reads
  <2>4. CASE budget <= 0
    BY <2>1, <2>3, <2>4 DEF IInv, TypeOK
  <2>5. CASE ~CanPop
    <3>1. Len(front) = 0 /\ Len(back) = 0
      BY <2>5, EmptySeq DEF CanPop
    <3> QED BY <2>1, <2>3, <3>1
  <2> QED BY <1>2, <2>4, <2>5
<1> QED BY <1>1, <1>2

\* The instants the driver sleeps or polls until are whole ticks.
LEMMA UntilIsInt ==
  ASSUME TypeOK
  PROVE  /\ ParkedDeadlines # {} => clock + MillisUntil(Earliest) * TicksPerMs \in Int
         /\ PollDeadline \in Int
<1>1. clock \in Nat /\ TicksPerMs \in Nat \ {0} /\ CIntMax \in Nat \ {0} /\ MaxTime \in Nat
  BY ClockUnits DEF TypeOK
<1>2. ASSUME NEW t \in Nat PROVE MillisUntil(t) \in Int
  BY <1>1 DEF MillisUntil
<1>3. ParkedDeadlines # {} => MillisUntil(Earliest) \in Int
  BY <1>2, EarliestExists
<1>4. PollTimeout \in Int
  BY <1>3 DEF PollTimeout
<1>5. CInt(PollTimeout) \in Int
  BY <1>1, <1>4 DEF CInt
<1>6. PollDeadline \in Int
  BY <1>1, <1>5 DEF PollDeadline, Forever
<1> QED BY <1>1, <1>3, <1>6

\* The invariant is inductive: one step for each action.
LEMMA NextPreserves ==
  ASSUME IInv, [Next]_vars
  PROVE  IInv'
<1>1. CASE RunTask
  BY <1>1, TurnPreserves
<1>2. CASE EndRound
  <2>1. owed = {}
    BY <1>2, NobodyOwed DEF EndRound
  <2> QED BY <1>2, <2>1, DriverMoves DEF EndRound, IInv, TypeOK
<1>3. CASE GoIdle
  <2>1. owed = {}
    BY <1>3, NobodyOwed DEF GoIdle
  <2> QED BY <1>3, <2>1, DriverMoves DEF GoIdle, IInv, TypeOK
<1>4. CASE Return
  <2>1. owed = {}
    BY <1>4, NobodyOwed DEF Return
  <2> QED BY <1>4, <2>1, DriverMoves DEF Return, IInv, TypeOK
<1>5. CASE WakeReady
  <2>1. ReadyAt \subseteq DOMAIN parked
    BY DEF ReadyAt
  <2> QED BY <1>5, <2>1, WakePreserves DEF WakeReady
<1>6. CASE WakeNone
  BY <1>6, QuietPassPreserves DEF WakeNone
<1>7. CASE WakeSleep
  <2>1. owed = {}
    BY <1>7, NobodyOwed DEF WakeSleep
  <2>2. until' \in Int
    BY <1>7, UntilIsInt DEF WakeSleep, IInv
  <2> QED BY <1>7, <2>1, <2>2, DriverMoves DEF WakeSleep, IInv, TypeOK
<1>8. CASE WakeDeadlock
  <2>1. owed = {}
    BY <1>8, NobodyOwed DEF WakeDeadlock
  <2> QED BY <1>8, <2>1, DriverMoves DEF WakeDeadlock, IInv, TypeOK
<1>9. CASE WakePoll
  <2>1. owed = {}
    BY <1>9, NobodyOwed DEF WakePoll
  <2>2. until' \in Int
    BY <1>9, UntilIsInt DEF WakePoll, IInv
  <2> QED BY <1>9, <2>1, <2>2, DriverMoves DEF WakePoll, IInv, TypeOK
<1>10. CASE SleepReturns
  BY <1>10, QuietPassPreserves DEF SleepReturns
<1>11. CASE PollReturns
  <2>1. SatisfiedAt \subseteq DOMAIN parked
    BY DEF SatisfiedAt
  <2> QED BY <1>11, <2>1, WakePreserves DEF PollReturns
<1>12. CASE PollInterrupted
  BY <1>12, QuietPassPreserves DEF PollInterrupted
<1>13. CASE PollFails
  <2>1. owed = {}
    BY <1>13, NobodyOwed DEF PollFails
  <2> QED BY <1>13, <2>1, DriverMoves DEF PollFails, IInv, TypeOK
<1>14. CASE Tick \/ BecomesReady \/ UNCHANGED vars
  <2>1. UNCHANGED <<queueVars, pc, block, until, flags, life, owed>>
    BY <1>14 DEF Tick, BecomesReady, vars, queueVars
  <2>2. clock' \in 0..MaxTime /\ readable' \subseteq Fd
    BY <1>14, ClockUnits DEF Tick, BecomesReady, vars, IInv, TypeOK
  <2>3. EveryTaskHasOnePlace' /\ Queue' = Queue
    BY <2>1, StillPlaces DEF IInv, queueVars
  <2>4. RoundServesAll'
    BY <2>1, <2>3 DEF IInv, RoundServesAll, queueVars
  <2>5. TypeOK'
    BY <2>1, <2>2 DEF IInv, TypeOK, queueVars
  <2> QED BY <2>3, <2>4, <2>5 DEF IInv
<1>15. CASE Stopped
  BY <1>14, <1>15 DEF Stopped
<1> QED BY <1>1, <1>2, <1>3, <1>4, <1>5, <1>6, <1>7, <1>8, <1>9, <1>10, <1>11,
           <1>12, <1>13, <1>14, <1>15 DEF Next, Driver

-----------------------------------------------------------------------------
(* Theorems *)

\* The inductive invariant holds in every state the scheduler reaches.
THEOREM Invariance == Spec => []IInv
<1>1. Init => IInv
  BY InitEstablishes
<1>2. IInv /\ [Next]_vars => IInv'
  BY NextPreserves
<1> QED BY <1>1, <1>2, PTL DEF Spec

\* Every variable of the driver stays in its range.
THEOREM TypeCorrect == Spec => []TypeOK
<1>1. IInv => TypeOK
  BY DEF IInv
<1> QED BY <1>1, Invariance, PTL

\* No task is lost, and none is queued or parked twice: pops, yields, parks,
\* spawns and passes over the park table keep each live task at one place.
THEOREM OnePlace == Spec => []EveryTaskHasOnePlace
<1>1. IInv => EveryTaskHasOnePlace
  BY DEF IInv
<1> QED BY <1>1, Invariance, PTL

\* Every task queued when a round begins has its turn before the round ends,
\* however many tasks the turns of the round yield, park or spawn.
THEOREM RoundFair == Spec => []RoundServesAll
<1>1. IInv => RoundServesAll
  BY DEF IInv
<1> QED BY <1>1, Invariance, PTL

-----------------------------------------------------------------------------
(* What the driver does when nothing is runnable *)

\* A pass over the park table may wait only when nothing is queued.
PassMayWait == block => ~CanPop /\ pc # "go"

\* The places of IInv, and the outcomes: the root was born when runAsync began.
OutcomeInv ==
  /\ IInv /\ PassMayWait
  /\ life[Root] # "unborn"
  /\ NoWakeupSlept /\ ReturnsWhenAllFinished /\ DeadlockIsReal

\* No task is ever unborn again.
LEMMA RootStaysBorn ==
  ASSUME IInv, life[Root] # "unborn", Next
  PROVE  life'[Root] # "unborn"
<1>1. CASE RunTask
  BY <1>1, RootIsTask
     DEF RunTask, TaskFinishes, TaskYields, TaskParks, TaskSpawns, IInv, TypeOK
<1>2. CASE UNCHANGED life
  BY <1>2
<1> QED BY <1>1, <1>2
     DEF Next, Driver, EndRound, GoIdle, Return, WakeReady, WakeNone, WakeSleep,
         WakeDeadlock, WakePoll, SleepReturns, PollReturns, PollInterrupted,
         PollFails, Tick, BecomesReady, Stopped, vars

\* In a pass where nothing is ready no parked flag is set.
LEMMA NothingReady ==
  ASSUME ReadyAt = {}
  PROVE  \A i \in DOMAIN parked, w \in Wait :
           w \in parked[i].waits /\ IsFlagWait(w) => ~FlagSet(w.flag)
BY DEF ReadyAt, WaitReady

\* A pass without descriptors and without deadlines leaves flag waits only.
LEMMA OnlyFlagsLeft ==
  ASSUME TypeOK, ReadyAt = {}, ~FdIsWatched, ParkedDeadlines = {},
         NEW i \in DOMAIN parked, NEW w \in parked[i].waits
  PROVE  IsFlagWait(w) /\ ~FlagSet(w.flag)
<1>1. w \in Wait
  <2>1. parked[i] \in Parked
    BY LenProperties, ElementOfSeq DEF TypeOK
  <2> QED BY <2>1 DEF Parked
<1>2. ~IsFdWait(w)
  BY DEF FdIsWatched
<1>3. ~IsDeadline(w)
  <2>1. w \in UNION {parked[j].waits : j \in DOMAIN parked}
    OBVIOUS
  <2> QED BY <2>1 DEF ParkedDeadlines
<1>4. IsFlagWait(w)
  BY <1>1, <1>2, <1>3
     DEF Wait, FdWait, FlagWait, IsFdWait, IsDeadline, IsFlagWait
<1> QED BY <1>1, <1>4, NothingReady

\* A live task that is not queued is parked.
LEMMA NotQueuedIsParked ==
  ASSUME IInv, ~CanPop, NEW t \in Task, life[t] = "live"
  PROVE  \E i \in DOMAIN parked : parked[i].task = t
<1>1. Len(Queue) = 0 /\ DOMAIN Queue = 1..Len(Queue)
  <2>1. Reads(Task, Queue, front, back)
    BY QueueReads DEF IInv, TypeOK, Queue
  <2>2. Len(front) = 0 /\ Len(back) = 0
    BY EmptySeq DEF CanPop
  <2> QED BY <2>1, <2>2, LenProperties DEF Reads
<1>2. Queued = {}
  BY <1>1 DEF Queued
<1>3. t \in ParkedTasks
  BY <1>2 DEF IInv, EveryTaskHasOnePlace, NoTaskLost
<1> QED BY <1>3 DEF ParkedTasks

\* Nothing parked and nothing queued: nobody is live, and the root, once born,
\* has finished.
LEMMA EmptyPoolIsDone ==
  ASSUME IInv, ~CanPop, parked = << >>, life[Root] # "unborn"
  PROVE  (\A t \in Task : life[t] # "live") /\ life[Root] = "finished"
<1>1. \A t \in Task : life[t] # "live"
  <2>1. DOMAIN parked = {}
    BY EmptySeq
  <2> QED BY <2>1, NotQueuedIsParked
<1>2. life[Root] \in {"unborn", "live", "finished"}
  BY RootIsTask DEF IInv, TypeOK
<1> QED BY <1>1, <1>2, RootIsTask

\* A step that leaves the table, the flags and the lives alone and does not
\* move the driver keeps what is said of sleeps and outcomes.
LEMMA OutcomeStays ==
  ASSUME OutcomeInv, UNCHANGED <<parked, pc, flags, life>>
  PROVE  NoWakeupSlept' /\ ReturnsWhenAllFinished' /\ DeadlockIsReal'
<1>1. \A x : FlagSet(x)' <=> FlagSet(x)
  BY DEF FlagSet
<1>2. NoWakeupSlept'
  BY <1>1 DEF OutcomeInv, NoWakeupSlept
<1>3. ReturnsWhenAllFinished'
  BY DEF OutcomeInv, ReturnsWhenAllFinished
<1>4. DeadlockIsReal'
  BY <1>1 DEF OutcomeInv, DeadlockIsReal
<1> QED BY <1>2, <1>3, <1>4

\* Going to sleep or to the poll: nothing in the table is ready.
LEMMA WaitBegins ==
  ASSUME OutcomeInv, ReadyAt = {}, pc' \in {"sleep", "poll"},
         UNCHANGED <<parked, flags, life>>
  PROVE  NoWakeupSlept' /\ ReturnsWhenAllFinished' /\ DeadlockIsReal'
<1>1. \A x : FlagSet(x)' <=> FlagSet(x)
  BY DEF FlagSet
<1>2. NoWakeupSlept'
  BY <1>1, NothingReady DEF NoWakeupSlept
<1> QED BY <1>2 DEF ReturnsWhenAllFinished, DeadlockIsReal

\* In the other states of a running driver there is nothing to say.
LEMMA OutcomeIdle ==
  ASSUME pc' \in {"go", "wake", "pollFailed"}
  PROVE  NoWakeupSlept' /\ ReturnsWhenAllFinished' /\ DeadlockIsReal'
BY DEF NoWakeupSlept, ReturnsWhenAllFinished, DeadlockIsReal

\* Only GoIdle lets the pass wait, and a turn needs the driver at "go".
LEMMA MayWaitStays ==
  ASSUME PassMayWait, [Next]_vars
  PROVE  PassMayWait'
<1>1. CASE RunTask
  <2>1. pc = "go" /\ block' = block
    BY <1>1 DEF RunTask, TaskFinishes, TaskYields, TaskParks, TaskSpawns, Turn
  <2> QED BY <2>1, Zenon DEF PassMayWait
<1>2. CASE EndRound \/ WakeReady \/ WakeNone \/ SleepReturns \/ PollReturns
           \/ PollInterrupted
  <2>1. block' = FALSE
    BY <1>2 DEF EndRound, WakeReady, WakeNone, SleepReturns, PollReturns,
                PollInterrupted, BeginRound
  <2> QED BY <2>1, Zenon DEF PassMayWait
<1>3. CASE GoIdle \/ Return \/ WakeSleep \/ WakeDeadlock \/ WakePoll \/ PollFails
  <2>1. CanPop' <=> CanPop
    BY <1>3 DEF GoIdle, Return, WakeSleep, WakeDeadlock, WakePoll, PollFails,
                queueVars, CanPop
  <2>2. pc' # "go"
    BY <1>3 DEF GoIdle, Return, WakeSleep, WakeDeadlock, WakePoll, PollFails
  <2>3. ~CanPop \/ block' = block
    BY <1>3 DEF GoIdle, Return, WakeSleep, WakeDeadlock, WakePoll, PollFails
  <2> QED BY <2>1, <2>2, <2>3, Zenon DEF PassMayWait
<1>4. CASE Tick \/ BecomesReady \/ Stopped \/ UNCHANGED vars
  <2>1. block' = block /\ pc' = pc /\ (CanPop' <=> CanPop)
    BY <1>4 DEF Tick, BecomesReady, Stopped, vars, queueVars, CanPop
  <2> QED BY <2>1, Zenon DEF PassMayWait
<1> QED BY <1>1, <1>2, <1>3, <1>4 DEF Next, Driver

\* The outcomes are preserved by every step.
LEMMA OutcomePreserves ==
  ASSUME OutcomeInv, [Next]_vars
  PROVE  OutcomeInv'
<1>1. IInv'
  BY NextPreserves DEF OutcomeInv
<1>2. life'[Root] # "unborn" /\ PassMayWait'
  BY RootStaysBorn, MayWaitStays DEF OutcomeInv, vars
<1>3. NoWakeupSlept' /\ ReturnsWhenAllFinished' /\ DeadlockIsReal'
  <2>1. CASE RunTask
    <3>1. pc' = "go"
      BY <2>1 DEF RunTask, TaskFinishes, TaskYields, TaskParks, TaskSpawns, Turn
    <3> QED BY <3>1, OutcomeIdle
  <2>2. CASE EndRound \/ GoIdle \/ WakeReady \/ WakeNone \/ SleepReturns
             \/ PollReturns \/ PollInterrupted \/ PollFails
    <3>1. pc' \in {"go", "wake", "pollFailed"}
      BY <2>2 DEF EndRound, GoIdle, WakeReady, WakeNone, SleepReturns,
                  PollReturns, PollInterrupted, PollFails, BeginRound
    <3> QED BY <3>1, OutcomeIdle
  <2>3. CASE Return
    <3>1. (\A t \in Task : life[t] # "live") /\ life[Root] = "finished"
      BY <2>3, EmptyPoolIsDone DEF Return, OutcomeInv
    <3>2. pc' = "returned" /\ life' = life
      BY <2>3, <3>1 DEF Return
    <3> QED BY <3>1, <3>2 DEF NoWakeupSlept, ReturnsWhenAllFinished, DeadlockIsReal
  <2>4. CASE WakeSleep \/ WakePoll
    <3>1. ReadyAt = {} /\ pc' \in {"sleep", "poll"} /\ UNCHANGED <<parked, flags, life>>
      BY <2>4 DEF WakeSleep, WakePoll, queueVars, envVars
    <3> QED BY <3>1, WaitBegins
  <2>5. CASE WakeDeadlock
    <3>1. /\ ReadyAt = {} /\ ~FdIsWatched /\ ParkedDeadlines = {} /\ pc = "wake"
          /\ pc' = "deadlock" /\ UNCHANGED <<parked, front, back, flags, life>> /\ block
      BY <2>5 DEF WakeDeadlock, queueVars, envVars
    <3>2. \A x : FlagSet(x)' <=> FlagSet(x)
      BY <3>1 DEF FlagSet
    <3>3. ASSUME NEW t \in Task, life[t] = "live"
          PROVE  \E i \in DOMAIN parked :
                   /\ parked[i].task = t
                   /\ \A w \in parked[i].waits : IsFlagWait(w) /\ ~FlagSet(w.flag)
      <4>1. \E i \in DOMAIN parked : parked[i].task = t
        <5>1. ~CanPop /\ IInv
          BY <3>1, Zenon DEF OutcomeInv, PassMayWait
        <5> QED BY <5>1, <3>3, NotQueuedIsParked
      <4> QED BY <4>1, <3>1, OnlyFlagsLeft DEF OutcomeInv, IInv
    <3>4. DeadlockIsReal'
      BY <3>1, <3>2, <3>3 DEF DeadlockIsReal
    <3> QED BY <3>1, <3>4 DEF NoWakeupSlept, ReturnsWhenAllFinished
  <2>6. CASE Tick \/ BecomesReady \/ Stopped \/ UNCHANGED vars
    <3>1. UNCHANGED <<parked, pc, flags, life>>
      BY <2>6 DEF Tick, BecomesReady, Stopped, vars, queueVars
    <3> QED BY <3>1, OutcomeStays
  <2> QED BY <2>1, <2>2, <2>3, <2>4, <2>5, <2>6 DEF Next, Driver
<1> QED BY <1>1, <1>2, <1>3 DEF OutcomeInv

\* The outcomes hold in every state the scheduler reaches.
THEOREM Outcomes == Spec => []OutcomeInv
<1>1. Init => OutcomeInv
  <2> SUFFICES ASSUME Init PROVE OutcomeInv
    OBVIOUS
  <2>1. IInv
    BY InitEstablishes
  <2>2. life[Root] # "unborn" /\ pc = "go"
    BY RootIsTask DEF Init
  <2>3. block = FALSE
    BY DEF Init
  <2>4. PassMayWait
    BY <2>3, Zenon DEF PassMayWait
  <2> QED BY <2>1, <2>2, <2>4
       DEF OutcomeInv, NoWakeupSlept, ReturnsWhenAllFinished, DeadlockIsReal
<1>2. OutcomeInv /\ [Next]_vars => OutcomeInv'
  BY OutcomePreserves
<1> QED BY <1>1, <1>2, PTL DEF Spec

\* Structured concurrency: runAsync returns only when the program and every task
\* it spawned have finished, and the program's value is there.
THEOREM AllFinishedOnReturn == Spec => []ReturnsWhenAllFinished
<1>1. OutcomeInv => ReturnsWhenAllFinished
  BY DEF OutcomeInv
<1> QED BY <1>1, Outcomes, PTL

\* The deadlock panic is raised only when every live task waits for flags that
\* no task is left to set.
THEOREM DeadlockPanicIsReal == Spec => []DeadlockIsReal
<1>1. OutcomeInv => DeadlockIsReal
  BY DEF OutcomeInv
<1> QED BY <1>1, Outcomes, PTL

\* The driver never sleeps or polls over a flag that is set.
THEOREM NoFlagSleptThrough == Spec => []NoWakeupSlept
<1>1. OutcomeInv => NoWakeupSlept
  BY DEF OutcomeInv
<1> QED BY <1>1, Outcomes, PTL

-----------------------------------------------------------------------------
(* How long the driver waits *)

\* What poll(2) is told is a C int: no deadline is further away than it can
\* count in milliseconds, a little under 25 days.
DeadlinesFit == \A t \in Deadline : t \div TicksPerMs + 1 <= CIntMax

LEMMA Rounding ==
  ASSUME NEW c \in Nat, NEW t \in Nat, c < t, NEW T \in Nat \ {0}
  PROVE  LET m == (t - c) \div T + 1 IN
         /\ m \in Nat /\ 0 < m /\ m <= t \div T + 1
         /\ t <= c + m * T /\ c + m * T <= t + T
<1> DEFINE q == (t - c) \div T
<1>1. q \in Nat /\ q * T <= t - c /\ t - c < q * T + T
  OBVIOUS
<1>2. q <= t \div T
  OBVIOUS
<1>3. (q + 1) * T = q * T + T
  <2> HIDE DEF q
  <2> QED BY <1>1
<1>4. t \div T \in Nat
  OBVIOUS
<1> DEFINE p == (q + 1) * T
           z == q * T
           w == t \div T
<1>5. z \in Int /\ p = z + T /\ w \in Nat /\ q \in Nat /\ q <= w /\ z <= t - c /\ t - c < z + T
  BY <1>1, <1>2, <1>3, <1>4
<1> HIDE DEF q, p, z, w
<1>6. q + 1 \in Nat /\ 0 < q + 1 /\ q + 1 <= w + 1 /\ t <= c + p /\ c + p <= t + T
  BY <1>5
<1> QED BY <1>6 DEF q, p, w

\* The cast keeps a count the C int can hold.
LEMMA CIntKeeps ==
  ASSUME NEW m \in Nat, m <= CIntMax PROVE CInt(m) = m
<1> DEFINE k == CIntMax + 1
<1>1. k \in Nat /\ m < k /\ m + k \in 0..(2 * k - 1)
  BY ClockUnits
<1>2. (m + k) % (2 * k) = m + k
  <2> HIDE DEF k
  <2> QED BY <1>1
<1>3. CInt(m) = ((m + k) % (2 * k)) - k
  BY ClockUnits DEF CInt
<1> QED BY <1>1, <1>2, <1>3

\* A pass that finds no deadline passed has the nearest one still ahead.
LEMMA EarliestIsAhead ==
  ASSUME TypeOK, ReadyAt = {}, ParkedDeadlines # {}
  PROVE  Earliest \in Deadline /\ Earliest \in Nat /\ clock \in Nat /\ clock < Earliest
<1>1. Earliest \in Deadline /\ Earliest \in Nat /\ Earliest \in ParkedDeadlines /\ clock \in Nat
  BY EarliestExists, ClockUnits DEF TypeOK
<1>2. PICK i \in DOMAIN parked : \E w \in parked[i].waits : IsDeadline(w) /\ Earliest = w.at
  BY <1>1 DEF ParkedDeadlines
<1>2a. PICK w \in parked[i].waits : IsDeadline(w) /\ Earliest = w.at
  BY <1>2
<1>3. ~WaitReady(w)
  BY <1>2a DEF ReadyAt
<1>4. ~(Earliest <= clock)
  BY <1>2a, <1>3 DEF WaitReady
<1> QED BY <1>1, <1>4

\* Where the driver sets out to wait, and for how long.
LEMMA WaitIsExact ==
  ASSUME DeadlinesFit, TypeOK, WakeSleep \/ WakePoll, block, ParkedDeadlines # {}
  PROVE  Earliest <= until' /\ until' <= Earliest + TicksPerMs
<1> DEFINE e == Earliest
           m == MillisUntil(e)
<1>1. e \in Deadline /\ e \in Nat /\ clock \in Nat /\ clock < e
  BY EarliestIsAhead DEF WakeSleep, WakePoll
<1>2. m = (e - clock) \div TicksPerMs + 1
  BY <1>1 DEF MillisUntil
<1>3. e \div TicksPerMs + 1 <= CIntMax
  BY <1>1 DEF DeadlinesFit
<1>4. TicksPerMs \in Nat \ {0} /\ CIntMax \in Nat /\ e \div TicksPerMs \in Nat
  BY <1>1, ClockUnits
<1> HIDE DEF e, m
<1>5. /\ m \in Nat /\ 0 < m /\ m <= e \div TicksPerMs + 1
      /\ e <= clock + m * TicksPerMs /\ clock + m * TicksPerMs <= e + TicksPerMs
  BY <1>1, <1>2, <1>4, Rounding
<1>6. m <= CIntMax
  BY <1>3, <1>4, <1>5
<1>7. CInt(m) = m /\ ~(m < 0)
  BY <1>5, <1>6, CIntKeeps
<1>8. CASE WakeSleep
  BY <1>5, <1>8 DEF WakeSleep, e, m
<1>9. CASE WakePoll
  <2>1. PollTimeout = m
    BY DEF PollTimeout, e, m
  <2>2. PollDeadline = clock + m * TicksPerMs
    BY <1>7, <2>1 DEF PollDeadline
  <2>3. until' = PollDeadline
    BY <1>9 DEF WakePoll
  <2> QED BY <1>5, <2>2, <2>3 DEF e
<1> QED BY <1>8, <1>9

LEMMA WaitPreserves ==
  ASSUME DeadlinesFit, TypeOK, WaitsForNextDeadline, [Next]_vars
  PROVE  WaitsForNextDeadline'
<1>1. CASE pc' \notin {"sleep", "poll"}
  BY <1>1 DEF WaitsForNextDeadline
<1>2. CASE WakeSleep \/ WakePoll
  <2>1. ParkedDeadlines' = ParkedDeadlines /\ Earliest' = Earliest /\ (block' <=> block)
    BY <1>2 DEF WakeSleep, WakePoll, queueVars, ParkedDeadlines, Earliest
  <2>2. block /\ ParkedDeadlines # {} => Earliest <= until' /\ until' <= Earliest + TicksPerMs
    BY <1>2, WaitIsExact
  <2> QED BY <2>1, <2>2 DEF WaitsForNextDeadline
<1>3. CASE UNCHANGED <<parked, pc, block, until>>
  <2>1. ParkedDeadlines' = ParkedDeadlines /\ Earliest' = Earliest /\ (block' <=> block)
    BY <1>3 DEF ParkedDeadlines, Earliest
  <2> QED BY <1>3, <2>1 DEF WaitsForNextDeadline
<1>4. CASE RunTask
  <2>1. pc' = "go"
    BY <1>4 DEF RunTask, TaskFinishes, TaskYields, TaskParks, TaskSpawns, Turn
  <2> QED BY <1>1, <2>1
<1>5. CASE \/ EndRound \/ GoIdle \/ Return \/ WakeReady \/ WakeNone \/ WakeDeadlock
           \/ SleepReturns \/ PollReturns \/ PollInterrupted \/ PollFails
  <2>1. pc' \notin {"sleep", "poll"}
    BY <1>5 DEF EndRound, GoIdle, Return, WakeReady, WakeNone, WakeDeadlock,
                SleepReturns, PollReturns, PollInterrupted, PollFails, BeginRound
  <2> QED BY <1>1, <2>1
<1>6. CASE Tick \/ BecomesReady \/ Stopped \/ UNCHANGED vars
  BY <1>3, <1>6 DEF Tick, BecomesReady, Stopped, vars, queueVars
<1> QED BY <1>2, <1>4, <1>5, <1>6 DEF Next, Driver

\* With nothing runnable the driver waits for the exact next deadline, up to the
\* rounding of a millisecond, and never short of it, as long as the deadlines
\* stay within what a C int counts.
THEOREM NextDeadlineIsMet ==
  ASSUME DeadlinesFit PROVE Spec => []WaitsForNextDeadline
<1>1. Init => WaitsForNextDeadline
  BY DEF Init, WaitsForNextDeadline
<1>2. TypeOK /\ WaitsForNextDeadline /\ [Next]_vars => WaitsForNextDeadline'
  BY WaitPreserves
<1> QED BY <1>1, <1>2, TypeCorrect, PTL DEF Spec

-----------------------------------------------------------------------------
(* The task pool: positions of the park table, read from its other end *)

\* A set of numbers has a least element.
LEMMA LeastNat ==
  ASSUME NEW T, T \subseteq Nat, T # {}
  PROVE  \E d \in T : \A e \in T : d <= e
<1>1. PICK d \in T : \A y \in T : ~ (<<y, d>> \in OpToRel(<, Nat))
  BY NatLessThanWellFounded, WFMin, Zenon
<1>2. \A y \in T : ~ (y < d)
  BY <1>1 DEF OpToRel
<1> QED BY <1>2

\* The park table is newest first, the pool's waiting list oldest first.
Mirror(n, I) == {n + 1 - i : i \in I}
MirrorOrder(n, k, f) == [j \in 1..k |-> n + 1 - f[k + 1 - j]]

LEMMA PoolCount == ASSUME NEW S PROVE Pool!Cardinality(S) = Cardinality(S)
BY Zenon DEF Pool!Cardinality, Cardinality

LEMMA MirrorOfOrder ==
  ASSUME NEW n \in Nat, NEW I, I \subseteq 1..n, NEW f \in InOrder(I)
  PROVE  LET k == Cardinality(I) IN
         /\ k \in Nat /\ Mirror(n, I) \subseteq 1..n
         /\ MirrorOrder(n, k, f) \in Pool!Ascending(Mirror(n, I))
<1> DEFINE k == Cardinality(I)
           V == Mirror(n, I)
           g == MirrorOrder(n, k, f)
<1>1. IsFiniteSet(I) /\ I \subseteq Nat
  <2>1. IsFiniteSet(1..n) /\ I \in SUBSET (1..n)
    BY FS_Interval
  <2>2. IsFiniteSet(I)
    BY <2>1, FS_Subset
  <2> QED BY <2>2
<1>2. /\ k \in Nat /\ f \in [1..k -> I]
      /\ \A p \in I : \E i \in 1..k : f[i] = p
  BY <1>1, InOrderFacts
<1>3. \A i, j \in 1..k : i < j => f[i] < f[j]
  BY <1>2 DEF InOrder
<1> HIDE DEF k
<1>4. V \subseteq 1..n
  BY DEF Mirror
<1>5. \A i \in 1..k : f[i] \in I /\ f[i] \in 1..n
  BY <1>2
<1>6. g \in [1..k -> V]
  <2>1. \A j \in 1..k : k + 1 - j \in 1..k
    BY <1>2
  <2>2. \A j \in 1..k : n + 1 - f[k + 1 - j] \in V
    BY <2>1, <1>5 DEF Mirror
  <2> QED BY <2>2 DEF MirrorOrder
<1>7. \A i, j \in 1..k : i < j => g[i] < g[j]
  <2> SUFFICES ASSUME NEW i \in 1..k, NEW j \in 1..k, i < j
               PROVE  g[i] < g[j]
    OBVIOUS
  <2>1. k + 1 - i \in 1..k /\ k + 1 - j \in 1..k /\ k + 1 - j < k + 1 - i
    BY <1>2
  <2>2. f[k + 1 - j] < f[k + 1 - i] /\ f[k + 1 - j] \in 1..n /\ f[k + 1 - i] \in 1..n
    BY <2>1, <1>3, <1>5
  <2>3. g[i] = n + 1 - f[k + 1 - i] /\ g[j] = n + 1 - f[k + 1 - j]
    BY DEF MirrorOrder
  <2> QED BY <2>2, <2>3
<1>8. \A v \in V : \E j \in 1..k : g[j] = v
  <2> SUFFICES ASSUME NEW v \in V PROVE \E j \in 1..k : g[j] = v
    OBVIOUS
  <2>1. PICK p \in I : v = n + 1 - p
    BY DEF Mirror
  <2>2. PICK i \in 1..k : f[i] = p
    BY <1>2
  <2>3. k + 1 - i \in 1..k /\ k + 1 - (k + 1 - i) = i
    BY <1>2
  <2>4. g[k + 1 - i] = n + 1 - f[k + 1 - (k + 1 - i)]
    BY <2>3 DEF MirrorOrder
  <2> QED BY <2>1, <2>2, <2>3, <2>4
<1>9. Cardinality(V) = k
  <2>1. \A i, j \in 1..k : g[i] = g[j] => i = j
    <3> SUFFICES ASSUME NEW i \in 1..k, NEW j \in 1..k, g[i] = g[j]
                 PROVE  i = j
      OBVIOUS
    <3>1. g[i] \in 1..n /\ g[j] \in 1..n
      BY <1>4, <1>6
    <3>2. ~(i < j) /\ ~(j < i)
      <4> HIDE DEF g
      <4> QED BY <1>7, <3>1
    <3> QED BY <3>2, <1>2
  <2>2. g \in Bijection(1..k, V)
    <3> HIDE DEF g, V
    <3> QED BY <2>1, <1>6, <1>8 DEF Bijection, Injection, Surjection, IsInjective
  <2>3. ExistsBijection(1..k, V)
    BY <2>2 DEF ExistsBijection
  <2>4. IsFiniteSet(1..k) /\ Cardinality(1..k) = k
    BY <1>2, FS_Interval
  <2> QED BY <2>3, <2>4, FS_Bijection
<1>10. g \in Pool!Ascending(V)
  <2> HIDE DEF g, V
  <2>1. DOMAIN g = 1..k /\ g \in [1..Pool!Cardinality(V) -> V]
    BY <1>6, <1>9, PoolCount
  <2>2. /\ \A i, j \in DOMAIN g : i < j => g[i] < g[j]
        /\ \A v \in V : \E i \in DOMAIN g : g[i] = v
    BY <2>1, <1>7, <1>8
  <2> QED BY <2>1, <2>2 DEF Pool!Ascending
<1> QED BY <1>2, <1>4, <1>10 DEF k

LEMMA MirrorOfRest ==
  ASSUME NEW n \in Nat, NEW I, I \subseteq 1..n
  PROVE  Mirror(n, (1..n) \ I) = (1..n) \ Mirror(n, I)
<1>1. ASSUME NEW v \in 1..n
      PROVE  (v \in Mirror(n, (1..n) \ I)) <=> ~(v \in Mirror(n, I))
  <2>1. n + 1 - v \in 1..n /\ v = n + 1 - (n + 1 - v)
    OBVIOUS
  <2>2. \A i \in 1..n : v = n + 1 - i => i = n + 1 - v
    OBVIOUS
  <2>3. v \in Mirror(n, I) <=> n + 1 - v \in I
    BY <2>1, <2>2 DEF Mirror
  <2>4. v \in Mirror(n, (1..n) \ I) <=> n + 1 - v \in (1..n) \ I
    BY <2>1, <2>2 DEF Mirror
  <2> QED BY <2>1, <2>3, <2>4
<1>2. \A v \in Mirror(n, (1..n) \ I) : v \in 1..n
  BY DEF Mirror
<1> QED BY <1>1, <1>2

\* Every position in order is the position itself.
LEMMA AllInOrder ==
  ASSUME NEW n \in Nat, NEW f \in InOrder(1..n)
  PROVE  f \in [1..n -> 1..n] /\ \A i \in 1..n : f[i] = i
<1>1. IsFiniteSet(1..n) /\ Cardinality(1..n) = n
  BY FS_Interval
<1>2. f \in [1..n -> 1..n] /\ \A i, j \in 1..n : i < j => f[i] < f[j]
  BY <1>1 DEF InOrder
<1>3. \A i \in 1..n : f[i] >= i
  <2> DEFINE T == {i \in 1..n : f[i] < i}
  <2>1. ASSUME T # {} PROVE FALSE
    <3>1. PICK d \in T : \A e \in T : d <= e
      <4>1. T \subseteq Nat
        OBVIOUS
      <4> HIDE DEF T
      <4> QED BY <2>1, <4>1, LeastNat
    <3>2. d \in 1..n /\ f[d] < d /\ f[d] \in 1..n
      BY <1>2
    <3>3. d - 1 \in 1..n /\ d - 1 < d
      BY <3>2
    <3>4. f[d - 1] < f[d] /\ f[d - 1] \in 1..n
      BY <3>2, <3>3, <1>2
    <3>5. f[d - 1] < d - 1
      BY <3>2, <3>4
    <3>6. d - 1 \in T
      BY <3>3, <3>5
    <3>7. d <= d - 1
      <4> HIDE DEF T
      <4> QED BY <3>1, <3>6
    <3> QED BY <3>2, <3>7
  <2>2. \A i \in 1..n : f[i] \in Int /\ ~(f[i] < i)
    BY <2>1, <1>2
  <2> QED BY <2>2
<1>4. \A i \in 1..n : f[i] <= i
  <2> DEFINE T == {d \in 0..n : n - d \in 1..n /\ f[n - d] > n - d}
  <2>1. ASSUME T # {} PROVE FALSE
    <3>1. PICK d \in T : \A e \in T : d <= e
      <4>1. T \subseteq Nat
        OBVIOUS
      <4> HIDE DEF T
      <4> QED BY <2>1, <4>1, LeastNat
    <3>2. d \in 0..n /\ n - d \in 1..n /\ f[n - d] > n - d /\ f[n - d] \in 1..n
      BY <1>2
    <3>3. d - 1 \in 0..n /\ n - (d - 1) \in 1..n /\ n - d < n - (d - 1)
      BY <3>2
    <3>4. f[n - d] < f[n - (d - 1)] /\ f[n - (d - 1)] \in 1..n
      BY <3>2, <3>3, <1>2
    <3>5. f[n - (d - 1)] > n - (d - 1)
      BY <3>2, <3>4
    <3>6. d - 1 \in T
      BY <3>3, <3>5
    <3>7. d <= d - 1
      <4> HIDE DEF T
      <4> QED BY <3>1, <3>6
    <3> QED BY <3>2, <3>7
  <2>2. ASSUME NEW i \in 1..n PROVE f[i] <= i
    <3>1. n - i \in 0..n /\ n - (n - i) = i
      OBVIOUS
    <3>2. n - i \notin T
      <4> HIDE DEF T
      <4> QED BY <2>1
    <3>3. ~(f[i] > i)
      BY <3>1, <3>2
    <3>4. f[i] \in 1..n
      BY <1>2
    <3> QED BY <3>3, <3>4
  <2> QED BY <2>2
<1>5. \A i \in 1..n : f[i] = i
  <2> TAKE i \in 1..n
  <2>1. f[i] \in 1..n /\ f[i] >= i /\ f[i] <= i
    BY <1>2, <1>3, <1>4
  <2> QED BY <2>1
<1> QED BY <1>2, <1>5

-----------------------------------------------------------------------------
(* Turns, as the pool sees them *)

\* The places of two sequences in their concatenation.
Glued(p, v, u) == /\ Len(u) = Len(p) + Len(v)
                  /\ \A i \in 1..Len(p) : u[i] = p[i]
                  /\ \A j \in 1..Len(v) : u[Len(p) + j] = v[j]

LEMMA ConcatReads ==
  ASSUME NEW S, NEW p \in Seq(S), NEW v \in Seq(S)
  PROVE  Glued(p, v, p \o v)
BY DEF Glued

\* What runs leaves the head of the queue, and what it pushes joins at the tail,
\* pushed last come last.
LEMMA TurnServes ==
  ASSUME TypeOK, NEW t \in Task, Turn(t), NEW n \in Seq(Task),
         back' = n \o BackAfterPop
  PROVE  /\ Queue # << >> /\ t = Head(Queue)
         /\ Queue' = Tail(Queue) \o Rev(n)
<1>1. Queue \in Seq(Task)
  BY QueueReads DEF TypeOK, Queue, Reads
<1>2. /\ t = Queue[1] /\ Len(Queue) > 0 /\ Queue' \in Seq(Task)
      /\ Len(Queue') = Len(Queue) - 1 + Len(n)
      /\ \A i \in 1..(Len(Queue) - 1) : Queue'[i] = Queue[i + 1]
      /\ \A j \in 1..Len(n) : Queue'[Len(Queue) - 1 + j] = n[Len(n) - j + 1]
  BY TurnShifts
<1> DEFINE q == Queue
           r == Queue'
           v == Rev(n)
<1>3. v \in Seq(Task) /\ Len(v) = Len(n) /\ \A j \in 1..Len(n) : v[j] = n[Len(n) - j + 1]
  BY RevType
<1>4. Len(n) \in Nat
  BY LenProperties
<1>5. /\ q \in Seq(Task) /\ r \in Seq(Task) /\ Len(q) > 0
      /\ Len(r) = Len(q) - 1 + Len(n)
      /\ \A i \in 1..(Len(q) - 1) : r[i] = q[i + 1]
      /\ \A j \in 1..Len(n) : r[Len(q) - 1 + j] = v[j]
  BY <1>1, <1>2, <1>3
<1> HIDE DEF q, r, v
<1>6. q # << >> /\ Tail(q) \in Seq(Task) /\ Len(Tail(q)) = Len(q) - 1
      /\ \A i \in 1..(Len(q) - 1) : Tail(q)[i] = q[i + 1]
  BY <1>5
<1>7. r = Tail(q) \o v
  <2> DEFINE u == Tail(q) \o v
  <2>1. /\ u \in Seq(Task) /\ Len(u) = Len(q) - 1 + Len(n)
        /\ \A i \in 1..(Len(q) - 1) : u[i] = Tail(q)[i]
        /\ \A j \in 1..Len(n) : u[Len(q) - 1 + j] = v[j]
    <3> DEFINE p == Tail(q)
    <3>1. p \in Seq(Task) /\ Len(p) = Len(q) - 1 /\ v \in Seq(Task) /\ Len(v) = Len(n)
      BY <1>3, <1>6
    <3> HIDE DEF p
    <3>2. Glued(p, v, p \o v)
      BY <3>1, ConcatReads
    <3>3. Len(v) = Len(n) /\ Len(p) = Len(q) - 1
      BY <3>1
    <3>4. p \o v \in Seq(Task)
      BY <3>1
    <3> QED BY <3>2, <3>3, <3>4 DEF p, Glued
  <2> HIDE DEF u
  <2>2. \A i \in 1..Len(r) : r[i] = u[i]
    <3> TAKE i \in 1..Len(r)
    <3>1. CASE i <= Len(q) - 1
      <4>1. i \in 1..(Len(q) - 1)
        BY <3>1, <1>5
      <4> QED BY <4>1, <1>5, <1>6, <2>1
    <3>2. CASE ~(i <= Len(q) - 1)
      <4> DEFINE j == i - (Len(q) - 1)
      <4>1. Len(q) \in Nat
        BY <1>5
      <4>2. j \in 1..Len(n) /\ i = Len(q) - 1 + j
        BY <3>2, <4>1, <1>4, <1>5
      <4> HIDE DEF j
      <4> QED BY <4>2, <1>5, <2>1
    <3> QED BY <3>1, <3>2
  <2>3. r = u
    BY <1>5, <2>1, <2>2, SeqEqual
  <2> QED BY <2>3 DEF u
<1>8. Head(q) = q[1]
  BY <1>5
<1> QED BY <1>2, <1>6, <1>7, <1>8 DEF q, r, v

\* A task that starts to wait stands last in the pool's list.
LEMMA RevOfCons ==
  ASSUME NEW S, NEW s \in Seq(S), NEW e \in S
  PROVE  Rev(<<e>> \o s) = Rev(s) \o <<e>>
<1> DEFINE a == <<e>> \o s
           b == Rev(s) \o <<e>>
<1>1. a \in Seq(S) /\ Len(a) = Len(s) + 1 /\ a[1] = e /\ \A i \in 1..Len(s) : a[i + 1] = s[i]
  OBVIOUS
<1>2. Len(s) \in Nat
  BY LenProperties
<1>3. Rev(s) \in Seq(S) /\ Len(Rev(s)) = Len(s) /\ \A i \in 1..Len(s) : Rev(s)[i] = s[Len(s) - i + 1]
  BY RevType
<1>4. /\ b \in Seq(S) /\ Len(b) = Len(s) + 1 /\ b[Len(s) + 1] = e
      /\ \A i \in 1..Len(s) : b[i] = Rev(s)[i]
  BY <1>3
<1> HIDE DEF a, b
<1>5. Rev(a) \in Seq(S) /\ Len(Rev(a)) = Len(s) + 1
      /\ \A i \in 1..(Len(s) + 1) : Rev(a)[i] = a[Len(s) + 1 - i + 1]
  BY <1>1, RevType
<1>6. \A i \in 1..(Len(s) + 1) : Rev(a)[i] = b[i]
  <2> TAKE i \in 1..(Len(s) + 1)
  <2>1. CASE i = Len(s) + 1
    BY <2>1, <1>1, <1>2, <1>4, <1>5
  <2>2. CASE i # Len(s) + 1
    <3>1. i \in 1..Len(s) /\ Len(s) - i + 1 \in 1..Len(s) /\ Len(s) + 1 - i + 1 = (Len(s) - i + 1) + 1
      BY <2>2, <1>2
    <3> QED BY <3>1, <1>1, <1>3, <1>4, <1>5
  <2> QED BY <2>1, <2>2
<1>7. Rev(a) = b
  BY <1>4, <1>5, <1>6, SeqEqual
<1> QED BY <1>7 DEF a, b

LEMMA SmallRevs ==
  ASSUME NEW t \in Task, NEW c \in Task
  PROVE  Rev(<< >>) = << >> /\ Rev(<<t>>) = <<t>> /\ Rev(<<t, c>>) = <<c, t>>
<1>1. Rev(<< >>) = << >>
  BY DEF Rev
<1>2. Rev(<<t>>) = <<t>>
  BY DEF Rev
<1>3. Rev(<<t, c>>) = <<c, t>>
  BY DEF Rev
<1> QED BY <1>1, <1>2, <1>3

\* What is pushed on the back joins the queue, pushed last come last.
Joined(S, r, q, n) == r \in Seq(S) /\ r = q \o Rev(n)

LEMMA PushConcats ==
  ASSUME NEW S, NEW f \in Seq(S), NEW b \in Seq(S), NEW n \in Seq(S),
         NEW m, m = n \o b
  PROVE  m \in Seq(S) /\ Joined(S, QueueOf(f, m), QueueOf(f, b), n)
<1> DEFINE q == QueueOf(f, b)
           r == QueueOf(f, m)
           v == Rev(n)
           u == q \o v
<1>1. r \in Seq(S) /\ IsPushed(S, r, q, n)
  <2>1. IsPushed(S, r, q, n)
    BY PushIsAppend
  <2> QED BY <2>1 DEF IsPushed
<1>2. q \in Seq(S)
  <2>1. Reads(S, q, f, b)
    BY QueueReads
  <2> QED BY <2>1 DEF Reads
<1>3. v \in Seq(S) /\ Len(v) = Len(n) /\ \A j \in 1..Len(n) : v[j] = n[Len(n) - j + 1]
  BY RevType
<1> HIDE DEF q, r, v
<1>4. Glued(q, v, u) /\ u \in Seq(S)
  BY <1>2, <1>3, ConcatReads
<1> HIDE DEF u
<1>5. Len(q) \in Nat /\ Len(n) \in Nat
  BY <1>2, LenProperties
<1>6. /\ Len(r) = Len(q) + Len(n) /\ Len(u) = Len(q) + Len(n)
      /\ \A i \in 1..Len(q) : r[i] = u[i]
      /\ \A j \in 1..Len(n) : r[Len(q) + j] = u[Len(q) + j]
  BY <1>1, <1>3, <1>4 DEF IsPushed, Glued
<1>7. \A i \in 1..Len(r) : r[i] = u[i]
  <2> TAKE i \in 1..Len(r)
  <2>1. CASE i <= Len(q)
    BY <2>1, <1>5, <1>6
  <2>2. CASE ~(i <= Len(q))
    <3>1. i - Len(q) \in 1..Len(n) /\ i = Len(q) + (i - Len(q))
      BY <2>2, <1>5, <1>6
    <3> QED BY <3>1, <1>6
  <2> QED BY <2>1, <2>2
<1>8. r = u
  BY <1>1, <1>4, <1>6, <1>7, SeqEqual
<1>9. m \in Seq(S)
  OBVIOUS
<1> QED BY <1>1, <1>8, <1>9 DEF q, r, v, u, Joined

-----------------------------------------------------------------------------
(* Wake passes, as the pool sees them *)

\* The park table is a sequence of entries, and so is the pool's waiting list.
LEMMA WaitingReads ==
  ASSUME TypeOK
  PROVE  /\ Len(parked) \in Nat /\ DOMAIN parked = 1..Len(parked)
         /\ \A i \in 1..Len(parked) : parked[i] \in Parked
         /\ Rev(parked) \in Seq(Parked)
         /\ DOMAIN Rev(parked) = 1..Len(parked)
         /\ \A i \in 1..Len(parked) : Rev(parked)[i] = parked[Len(parked) + 1 - i]
<1>1. parked \in Seq(Parked)
  BY DEF TypeOK
<1>2. /\ Len(parked) \in Nat /\ DOMAIN parked = 1..Len(parked)
      /\ \A i \in 1..Len(parked) : parked[i] \in Parked
  BY <1>1, LenProperties, ElementOfSeq
<1>3. /\ Rev(parked) \in Seq(Parked) /\ Len(Rev(parked)) = Len(parked)
      /\ \A i \in 1..Len(parked) : Rev(parked)[i] = parked[Len(parked) - i + 1]
  BY <1>1, RevType
<1>4. \A i \in 1..Len(parked) : Len(parked) - i + 1 = Len(parked) + 1 - i
  BY <1>2
<1>5. DOMAIN Rev(parked) = 1..Len(Rev(parked))
  BY <1>3, LenProperties
<1> QED BY <1>2, <1>3, <1>4, <1>5

\* What rejoins stands, in the pool, at the mirrored positions: the entries that
\* waited longest join the queue first, and the others keep their order.
LEMMA RejoinIsWake ==
  ASSUME TypeOK, NEW W, W \subseteq DOMAIN parked, Rejoin(W), front' = front
  PROVE  LET V == Mirror(Len(parked), W) IN
         /\ V \subseteq DOMAIN Rev(parked)
         /\ \E f \in Pool!Ascending(V), g \in Pool!Ascending((DOMAIN Rev(parked)) \ V) :
              /\ Queue' = Queue \o [i \in DOMAIN f |-> Rev(parked)[f[i]].task]
              /\ Rev(parked') = [i \in DOMAIN g |-> Rev(parked)[g[i]]]
<1> DEFINE m == Len(parked)
           R == (1..m) \ W
           V == Mirror(m, W)
           k == Cardinality(W)
           l == Cardinality(R)
<1>1. /\ m \in Nat /\ DOMAIN parked = 1..m /\ \A i \in 1..m : parked[i] \in Parked
      /\ DOMAIN Rev(parked) = 1..m
      /\ \A i \in 1..m : Rev(parked)[i] = parked[m + 1 - i]
  BY WaitingReads
<1>2. W \subseteq 1..m /\ R \subseteq 1..m /\ DOMAIN parked \ W = R
  BY <1>1
<1>3. PICK w \in InOrder(W), s \in InOrder(R) :
        /\ back' = [i \in DOMAIN w |-> parked[w[i]].task] \o back
        /\ parked' = Pick(parked, s)
  BY <1>2 DEF Rejoin
<1> DEFINE f == MirrorOrder(m, k, w)
           g == MirrorOrder(m, l, s)
           n == [i \in DOMAIN w |-> parked[w[i]].task]
<1> HIDE DEF m
<1>4. /\ k \in Nat /\ V \subseteq 1..m /\ f \in Pool!Ascending(V)
  BY <1>1, <1>2, MirrorOfOrder
<1>5. /\ l \in Nat /\ g \in Pool!Ascending(Mirror(m, R))
  BY <1>1, <1>2, MirrorOfOrder
<1>6. Mirror(m, R) = (DOMAIN Rev(parked)) \ V
  BY <1>1, <1>2, MirrorOfRest
<1>7. w \in [1..k -> W] /\ s \in [1..l -> R]
  BY <1>3 DEF InOrder
<1>8. /\ DOMAIN f = 1..k /\ \A j \in 1..k : f[j] = m + 1 - w[k + 1 - j]
      /\ DOMAIN g = 1..l /\ \A j \in 1..l : g[j] = m + 1 - s[l + 1 - j]
  BY DEF MirrorOrder
<1> HIDE DEF k, l, f, g, R
<1>9. \A i \in 1..k : w[i] \in 1..m /\ parked[w[i]] \in Parked
  BY <1>1, <1>2, <1>7
<1>10. \A i \in 1..l : s[i] \in 1..m /\ parked[s[i]] \in Parked
  BY <1>1, <1>2, <1>7
<1>11. n \in Seq(Task) /\ Len(n) = k /\ \A i \in 1..k : n[i] = parked[w[i]].task
  <2>1. \A i \in 1..k : parked[w[i]].task \in Task
    BY <1>9 DEF Parked
  <2>2. n = [i \in 1..k |-> parked[w[i]].task]
    BY <1>7
  <2> QED BY <2>1, <2>2, <1>4
<1>12. Queue' = Queue \o Rev(n)
  <2>1. back' = n \o back
    BY <1>3
  <2> HIDE DEF n
  <2>2. back' = n \o back /\ front \in Seq(Task) /\ back \in Seq(Task) /\ n \in Seq(Task)
    BY <2>1, <1>11 DEF TypeOK
  <2>3. back' \in Seq(Task) /\ Joined(Task, QueueOf(front, back'), QueueOf(front, back), n)
    BY <2>2, PushConcats
  <2> QED BY <2>3, Zenon DEF Queue, Joined
<1>13. Rev(n) = [i \in DOMAIN f |-> Rev(parked)[f[i]].task]
  <2> DEFINE h == [i \in DOMAIN f |-> Rev(parked)[f[i]].task]
  <2>1. Rev(n) = [j \in 1..k |-> n[k - j + 1]]
    BY <1>11 DEF Rev
  <2>2. ASSUME NEW j \in 1..k PROVE n[k - j + 1] = Rev(parked)[f[j]].task
    <3>1. k - j + 1 \in 1..k /\ k - j + 1 = k + 1 - j
      BY <1>4
    <3>2. n[k - j + 1] = parked[w[k + 1 - j]].task
      BY <3>1, <1>11
    <3>3. w[k + 1 - j] \in 1..m
      BY <3>1, <1>9
    <3>4. f[j] \in 1..m /\ m + 1 - f[j] = w[k + 1 - j]
      BY <3>3, <1>1, <1>8
    <3>5. Rev(parked)[f[j]] = parked[m + 1 - f[j]]
      BY <3>4, <1>1
    <3> QED BY <3>2, <3>4, <3>5
  <2>3. h = [j \in 1..k |-> Rev(parked)[f[j]].task]
    BY <1>8
  <2> QED BY <2>1, <2>2, <2>3
<1>14. Rev(parked') = [i \in DOMAIN g |-> Rev(parked)[g[i]]]
  <2>1. parked' = [i \in 1..l |-> parked[s[i]]]
    BY <1>3, <1>7 DEF Pick
  <2>2. Len(parked') = l
    BY <2>1, <1>5
  <2>3. Rev(parked') = [j \in 1..l |-> parked'[l - j + 1]]
    BY <2>2 DEF Rev
  <2>4. ASSUME NEW j \in 1..l PROVE parked'[l - j + 1] = Rev(parked)[g[j]]
    <3>1. l - j + 1 \in 1..l /\ l - j + 1 = l + 1 - j
      BY <1>5
    <3>2. parked'[l - j + 1] = parked[s[l + 1 - j]]
      BY <3>1, <2>1
    <3>3. s[l + 1 - j] \in 1..m
      BY <3>1, <1>10
    <3>4. g[j] \in 1..m /\ m + 1 - g[j] = s[l + 1 - j]
      BY <3>3, <1>1, <1>8
    <3>5. Rev(parked)[g[j]] = parked[m + 1 - g[j]]
      BY <3>4, <1>1
    <3> QED BY <3>2, <3>4, <3>5
  <2>5. [i \in DOMAIN g |-> Rev(parked)[g[i]]] = [j \in 1..l |-> Rev(parked)[g[j]]]
    BY <1>8
  <2> QED BY <2>3, <2>4, <2>5
<1>15. V \subseteq DOMAIN Rev(parked)
  BY <1>1, <1>4
<1>16. g \in Pool!Ascending((DOMAIN Rev(parked)) \ V)
  BY <1>5, <1>6
<1>17. Queue' = Queue \o [i \in DOMAIN f |-> Rev(parked)[f[i]].task]
  BY <1>12, <1>13
<1> HIDE DEF V
<1>18. \E ff \in Pool!Ascending(V), gg \in Pool!Ascending((DOMAIN Rev(parked)) \ V) :
         /\ Queue' = Queue \o [i \in DOMAIN ff |-> Rev(parked)[ff[i]].task]
         /\ Rev(parked') = [i \in DOMAIN gg |-> Rev(parked)[gg[i]]]
  BY <1>4, <1>14, <1>16, <1>17
<1> QED BY <1>15, <1>18 DEF V, m

-----------------------------------------------------------------------------
(* Every step of the driver is a step of the pool or none *)

\* A pass that may wait, and a poll, were begun over a task that waits.
WaitsOverSomething == (block => parked # << >>) /\ (pc = "poll" => parked # << >>)

PoolInv == OutcomeInv /\ WaitsOverSomething

LEMMA PoolInvPreserves ==
  ASSUME PoolInv, [Next]_vars
  PROVE  PoolInv'
<1>1. OutcomeInv'
  BY OutcomePreserves DEF PoolInv
<1>2. WaitsOverSomething'
  <2>1. CASE RunTask
    <3>1. pc = "go" /\ pc' = "go" /\ block' = block
      BY <2>1 DEF RunTask, TaskFinishes, TaskYields, TaskParks, TaskSpawns, Turn
    <3>2. ~block
      BY <3>1, Zenon DEF PoolInv, OutcomeInv, PassMayWait
    <3>3. ~block'
      BY <3>1, <3>2, Zenon
    <3> QED BY <3>1, <3>3, Zenon DEF WaitsOverSomething
  <2>2. CASE GoIdle
    BY <2>2 DEF GoIdle, queueVars, WaitsOverSomething
  <2>3. CASE EndRound
    <3>1. block' = FALSE /\ pc' = "wake"
      BY <2>3 DEF EndRound
    <3> QED BY <3>1, Zenon DEF WaitsOverSomething
  <2>4. CASE WakeReady \/ WakeNone \/ SleepReturns \/ PollReturns \/ PollInterrupted
    <3>1. block' = FALSE /\ pc' = "go"
      BY <2>4 DEF WakeReady, WakeNone, SleepReturns, PollReturns, PollInterrupted, BeginRound
    <3> QED BY <3>1, Zenon DEF WaitsOverSomething
  <2>5. CASE WakePoll
    <3>1. parked # << >> /\ parked' = parked
      BY <2>5, EmptySeq DEF WakePoll, FdIsWatched, queueVars
    <3> QED BY <3>1 DEF WaitsOverSomething
  <2>6. CASE Return \/ WakeSleep \/ WakeDeadlock \/ PollFails
    <3>1. parked' = parked /\ block' = block /\ pc' # "poll"
      BY <2>6 DEF Return, WakeSleep, WakeDeadlock, PollFails, queueVars
    <3> QED BY <3>1, Zenon DEF WaitsOverSomething, PoolInv
  <2>7. CASE Tick \/ BecomesReady \/ Stopped \/ UNCHANGED vars
    <3>1. parked' = parked /\ block' = block /\ pc' = pc
      BY <2>7 DEF Tick, BecomesReady, Stopped, vars, queueVars
    <3> QED BY <3>1, Zenon DEF WaitsOverSomething, PoolInv
  <2> QED BY <2>1, <2>2, <2>3, <2>4, <2>5, <2>6, <2>7 DEF Next, Driver
<1> QED BY <1>1, <1>2 DEF PoolInv

\* Steps within a round, and waits, show nothing to the pool.
LEMMA PoolSeesNothing ==
  ASSUME UNCHANGED <<front, back, parked, life>>, Running, Running'
  PROVE  UNCHANGED Pool!poolVars
<1>1. Queue' = Queue
  BY DEF Queue
<1>2. Rev(parked)' = Rev(parked) /\ life' = life
  OBVIOUS
<1> QED BY <1>1, <1>2 DEF Pool!poolVars

LEMMA RunTaskServes ==
  ASSUME TypeOK, RunTask
  PROVE  Pool!Serve
<1>1. Running /\ Running'
  BY DEF RunTask, TaskFinishes, TaskYields, TaskParks, TaskSpawns, Turn, Running
<1>2. CASE TaskFinishes
  <2>1. PICK t \in Task : /\ Turn(t) /\ back' = BackAfterPop
                          /\ life' = [life EXCEPT ![t] = "finished"]
                          /\ UNCHANGED parked
    BY <1>2 DEF TaskFinishes
  <2>2. << >> \in Seq(Task) /\ back' = << >> \o BackAfterPop
    <3>1. BackAfterPop \in Seq(Task)
      BY <2>1, PopIsHead DEF TypeOK, Turn
    <3> QED BY <3>1, <2>1
  <2>3. /\ Queue # << >> /\ t = Head(Queue)
        /\ Queue' = Tail(Queue) \o Rev(<< >>)
    BY <2>1, <2>2, TurnServes
  <2>4. Queue' = Tail(Queue)
    <3>1. Queue \in Seq(Task)
      BY QueueReads DEF TypeOK, Queue, Reads
    <3>2. Tail(Queue) \in Seq(Task)
      BY <3>1, <2>3
    <3>3. Queue' = Tail(Queue) \o << >>
      BY <2>1, <2>3, SmallRevs
    <3> QED BY <3>2, <3>3
  <2>5. Rev(parked)' = Rev(parked)
    BY <2>1
  <2> QED BY <1>1, <2>1, <2>3, <2>4, <2>5 DEF Pool!Serve
<1>3. CASE TaskYields
  <2>1. PICK t \in Task : /\ Turn(t) /\ back' = <<t>> \o BackAfterPop
                          /\ UNCHANGED <<parked, life>>
    BY <1>3 DEF TaskYields
  <2>2. <<t>> \in Seq(Task)
    OBVIOUS
  <2>3. /\ Queue # << >> /\ t = Head(Queue)
        /\ Queue' = Tail(Queue) \o Rev(<<t>>)
    BY <2>1, <2>2, TurnServes
  <2>4. Queue' = Tail(Queue) \o <<t>>
    BY <2>3, SmallRevs
  <2>5. Rev(parked)' = Rev(parked)
    BY <2>1
  <2> QED BY <1>1, <2>1, <2>3, <2>4, <2>5 DEF Pool!Serve
<1>4. CASE TaskParks
  <2>1. PICK t \in Task, ws \in SUBSET Wait :
          /\ Turn(t) /\ back' = BackAfterPop
          /\ parked' = <<[task |-> t, waits |-> ws]>> \o parked
          /\ UNCHANGED life
    BY <1>4 DEF TaskParks
  <2>2. << >> \in Seq(Task) /\ back' = << >> \o BackAfterPop
    <3>1. BackAfterPop \in Seq(Task)
      BY <2>1, PopIsHead DEF TypeOK, Turn
    <3> QED BY <3>1, <2>1
  <2>3. /\ Queue # << >> /\ t = Head(Queue)
        /\ Queue' = Tail(Queue) \o Rev(<< >>)
    BY <2>1, <2>2, TurnServes
  <2>4. Queue' = Tail(Queue)
    <3>1. Queue \in Seq(Task)
      BY QueueReads DEF TypeOK, Queue, Reads
    <3>2. Tail(Queue) \in Seq(Task)
      BY <3>1, <2>3
    <3>3. Queue' = Tail(Queue) \o << >>
      BY <2>1, <2>3, SmallRevs
    <3> QED BY <3>2, <3>3
  <2>5. Rev(parked)' = Rev(parked) \o <<[task |-> t, waits |-> ws]>>
    <3>1. [task |-> t, waits |-> ws] \in Parked /\ parked \in Seq(Parked)
      BY DEF Parked, TypeOK
    <3>2. PICK e \in Parked : e = [task |-> t, waits |-> ws]
      BY <3>1
    <3>3. Rev(<<e>> \o parked) = Rev(parked) \o <<e>>
      BY <3>1, RevOfCons
    <3> QED BY <2>1, <3>2, <3>3
  <2> QED BY <1>1, <2>1, <2>3, <2>4, <2>5 DEF Pool!Serve
<1>5. CASE TaskSpawns
  <2>1. PICK t \in Task, c \in Task :
          /\ life[c] = "unborn" /\ Turn(t) /\ back' = <<t, c>> \o BackAfterPop
          /\ life' = [life EXCEPT ![c] = "live"]
          /\ UNCHANGED parked
    BY <1>5 DEF TaskSpawns
  <2>2. <<t, c>> \in Seq(Task)
    OBVIOUS
  <2>3. /\ Queue # << >> /\ t = Head(Queue)
        /\ Queue' = Tail(Queue) \o Rev(<<t, c>>)
    BY <2>1, <2>2, TurnServes
  <2>4. Queue' = Tail(Queue) \o <<c, t>>
    BY <2>3, SmallRevs
  <2>5. Rev(parked)' = Rev(parked)
    BY <2>1
  <2> QED BY <1>1, <2>1, <2>3, <2>4, <2>5 DEF Pool!Serve
<1> QED BY <1>2, <1>3, <1>4, <1>5 DEF RunTask

\* A pass that finds something moves it; one that finds nothing moves nothing.
LEMMA PassWakes ==
  ASSUME TypeOK, NEW W, W \subseteq DOMAIN parked, Rejoin(W),
         \A i \in W : \E w \in parked[i].waits : WaitReady(w) \/ WaitSatisfied(w),
         UNCHANGED <<front, life>>, Running, Running'
  PROVE  Pool!Wake \/ UNCHANGED Pool!poolVars
<1>1. CASE W # {}
  <2> DEFINE V == Mirror(Len(parked), W)
  <2>1. /\ Len(parked) \in Nat /\ DOMAIN parked = 1..Len(parked)
        /\ \A i \in 1..Len(parked) : parked[i] \in Parked
        /\ DOMAIN Rev(parked) = 1..Len(parked)
        /\ \A i \in 1..Len(parked) : Rev(parked)[i] = parked[Len(parked) + 1 - i]
    BY WaitingReads
  <2>2. /\ V \subseteq DOMAIN Rev(parked)
        /\ \E f \in Pool!Ascending(V), g \in Pool!Ascending((DOMAIN Rev(parked)) \ V) :
             /\ Queue' = Queue \o [i \in DOMAIN f |-> Rev(parked)[f[i]].task]
             /\ Rev(parked') = [i \in DOMAIN g |-> Rev(parked)[g[i]]]
    BY RejoinIsWake
  <2>3. V # {}
    BY <1>1 DEF Mirror
  <2>4. \A v \in V : \E w \in Rev(parked)[v].waits : w \in Holding
    <3> SUFFICES ASSUME NEW v \in V
                 PROVE  \E w \in Rev(parked)[v].waits : w \in Holding
      OBVIOUS
    <3>1. PICK i \in W : v = Len(parked) + 1 - i
      BY DEF Mirror
    <3>2. i \in 1..Len(parked) /\ v \in 1..Len(parked) /\ Len(parked) + 1 - v = i
      BY <2>1, <3>1
    <3>3. Rev(parked)[v] = parked[i]
      BY <2>1, <3>2
    <3>4. parked[i].waits \subseteq Wait
      BY <2>1, <3>2 DEF Parked
    <3> QED BY <3>3, <3>4 DEF Holding
  <2> HIDE DEF V
  <2>5. V \in SUBSET (DOMAIN Rev(parked))
    BY <2>2
  <2>6. Pool!Wake
    BY <2>2, <2>3, <2>4, <2>5 DEF Pool!Wake
  <2> QED BY <2>6
<1>2. CASE W = {}
  <2>1. /\ Len(parked) \in Nat /\ DOMAIN parked = 1..Len(parked) /\ parked \in Seq(Parked)
        /\ back \in Seq(Task)
    BY WaitingReads DEF TypeOK
  <2>2. PICK w \in InOrder({}), s \in InOrder(1..Len(parked)) :
          /\ back' = [i \in DOMAIN w |-> parked[w[i]].task] \o back
          /\ parked' = Pick(parked, s)
    <3>1. DOMAIN parked \ W = 1..Len(parked)
      BY <1>2, <2>1
    <3> QED BY <1>2, <3>1 DEF Rejoin
  <2>3. DOMAIN w = {}
    <3>1. Cardinality({}) = 0
      BY FS_EmptySet
    <3> QED BY <3>1 DEF InOrder
  <2>4. back' = back
    <3>1. [i \in DOMAIN w |-> parked[w[i]].task] = << >>
      BY <2>3
    <3> QED BY <2>1, <2>2, <3>1
  <2>5. parked' = parked
    <3>1. s \in [1..Len(parked) -> 1..Len(parked)] /\ \A i \in 1..Len(parked) : s[i] = i
      BY <2>1, AllInOrder
    <3>2. parked' = [i \in 1..Len(parked) |-> parked[i]]
      BY <2>2, <3>1 DEF Pick
    <3>3. \A i \in 1..Len(parked) : parked[i] \in Parked
      BY WaitingReads
    <3>4. parked' \in Seq(Parked) /\ Len(parked') = Len(parked)
          /\ \A i \in 1..Len(parked) : parked'[i] = parked[i]
      BY <2>1, <3>2, <3>3
    <3> QED BY <2>1, <3>4, SeqEqual
  <2> QED BY <2>4, <2>5, PoolSeesNothing
<1> QED BY <1>1, <1>2

LEMMA StepMaps ==
  ASSUME PoolInv, [Next]_vars
  PROVE  [Pool!PoolNext]_(Pool!poolVars)
<1>0. IInv /\ TypeOK
  BY DEF PoolInv, OutcomeInv, IInv
<1>1. CASE RunTask
  BY <1>0, <1>1, RunTaskServes DEF Pool!PoolNext
<1>2. CASE EndRound \/ GoIdle \/ WakeNone \/ WakeSleep \/ WakePoll
           \/ SleepReturns \/ PollInterrupted \/ Tick \/ BecomesReady
  <2>1. UNCHANGED <<front, back, parked, life>> /\ Running /\ Running'
    BY <1>2 DEF EndRound, GoIdle, WakeNone, WakeSleep, WakePoll, SleepReturns,
                PollInterrupted, Tick, BecomesReady, BeginRound, queueVars, Running
  <2> QED BY <2>1, PoolSeesNothing
<1>3. CASE WakeReady
  <2>1. /\ Rejoin(ReadyAt) /\ UNCHANGED <<front, life>> /\ Running /\ Running'
        /\ ReadyAt \subseteq DOMAIN parked
    BY <1>3 DEF WakeReady, BeginRound, Running, ReadyAt
  <2>2. \A i \in ReadyAt : \E w \in parked[i].waits : WaitReady(w) \/ WaitSatisfied(w)
    BY DEF ReadyAt
  <2> QED BY <1>0, <2>1, <2>2, PassWakes DEF Pool!PoolNext
<1>4. CASE PollReturns
  <2>1. /\ Rejoin(SatisfiedAt) /\ UNCHANGED <<front, life>> /\ Running /\ Running'
        /\ SatisfiedAt \subseteq DOMAIN parked
    BY <1>4 DEF PollReturns, BeginRound, Running, SatisfiedAt
  <2>2. \A i \in SatisfiedAt : \E w \in parked[i].waits : WaitReady(w) \/ WaitSatisfied(w)
    BY DEF SatisfiedAt
  <2> QED BY <1>0, <2>1, <2>2, PassWakes DEF Pool!PoolNext
<1>5. CASE Return
  <2>1. (\A t \in Task : life[t] # "live") /\ life[Root] = "finished"
    BY <1>0, <1>5, EmptyPoolIsDone DEF Return, PoolInv, OutcomeInv
  <2>2. /\ parked = << >> /\ ~CanPop /\ pc = "go" /\ pc' = "returned"
        /\ UNCHANGED <<front, back, parked, life>>
    BY <1>5, <2>1 DEF Return, queueVars
  <2>3. Queue = << >>
    <3>1. front = << >> /\ back = << >>
      BY <2>2 DEF CanPop
    <3> QED BY <3>1 DEF Queue, QueueOf, Rev
  <2>4. Rev(parked) = << >>
    BY <2>2 DEF Rev
  <2>5. Queue' = Queue /\ Rev(parked)' = Rev(parked)
    BY <2>2 DEF Queue
  <2>6. Pool!Finish
    BY <2>1, <2>2, <2>3, <2>4, <2>5 DEF Pool!Finish, Running
  <2> QED BY <2>6 DEF Pool!PoolNext
<1>6. CASE WakeDeadlock \/ PollFails
  <2>1. parked # << >>
    <3>1. CASE WakeDeadlock
      <4>1. block
        BY <3>1 DEF WakeDeadlock
      <4> QED BY <4>1, Zenon DEF PoolInv, WaitsOverSomething
    <3>2. CASE PollFails
      BY <3>2 DEF PollFails, PoolInv, WaitsOverSomething
    <3> QED BY <1>6, <3>1, <3>2
  <2>2. /\ pc \in {"wake", "poll"} /\ pc' \in {"deadlock", "pollFailed"}
        /\ UNCHANGED <<front, back, parked, life>>
    BY <1>6 DEF WakeDeadlock, PollFails, queueVars
  <2>3. Queue' = Queue /\ Rev(parked)' = Rev(parked)
    BY <2>2 DEF Queue
  <2>4. Rev(parked) # << >>
    <3>1. parked \in Seq(Parked)
      BY <1>0 DEF TypeOK
    <3>2. Len(Rev(parked)) = Len(parked) /\ Len(parked) # 0
      BY <2>1, <3>1, RevType
    <3> QED BY <3>2
  <2>5. Pool!Panic
    BY <2>2, <2>3, <2>4 DEF Pool!Panic, Running
  <2> QED BY <2>5 DEF Pool!PoolNext
<1>7. CASE Stopped \/ UNCHANGED vars
  <2>1. UNCHANGED <<front, back, parked, life, pc>>
    BY <1>7 DEF Stopped, vars
  <2>2. Queue' = Queue /\ Rev(parked)' = Rev(parked) /\ life' = life
    BY <2>1 DEF Queue
  <2> QED BY <2>1, <2>2 DEF Pool!poolVars, Running
<1> QED BY <1>1, <1>2, <1>3, <1>4, <1>5, <1>6, <1>7 DEF Next, Driver

\* The scheduler implements a FIFO pool of tasks: the two lists, the rounds, the
\* mirrored park table and the polls show as turns at the head of one queue,
\* wakes that respect the order of waiting, and the two ways to stop.
THEOREM Refinement == Spec => ImplementsTaskPool
<1>1. Init => Pool!PoolInit
  <2> SUFFICES ASSUME Init PROVE Pool!PoolInit
    OBVIOUS
  <2>1. front = <<Root>> /\ back = << >> /\ parked = << >> /\ pc = "go"
        /\ life = [t \in Task |-> IF t = Root THEN "live" ELSE "unborn"]
    BY DEF Init
  <2>2. Queue = <<Root>>
    <3>1. Rev(back) = << >>
      BY <2>1, RootIsTask, SmallRevs
    <3>2. <<Root>> \in Seq(Task) /\ <<Root>> \o << >> = <<Root>>
      BY RootIsTask
    <3>3. Queue = front \o Rev(back)
      BY DEF Queue, QueueOf
    <3> QED BY <2>1, <3>1, <3>2, <3>3
  <2>3. Rev(parked) = << >>
    BY <2>1, RootIsTask, SmallRevs
  <2> QED BY <2>1, <2>2, <2>3 DEF Pool!PoolInit, Running
<1>2. Init => WaitsOverSomething
  <2> SUFFICES ASSUME Init PROVE WaitsOverSomething
    OBVIOUS
  <2>1. block = FALSE /\ pc = "go"
    BY DEF Init
  <2> QED BY <2>1, Zenon DEF WaitsOverSomething
<1>3. OutcomeInv /\ WaitsOverSomething <=> PoolInv
  BY DEF PoolInv
<1>4. PoolInv /\ [Next]_vars => PoolInv'
  BY PoolInvPreserves
<1>5. PoolInv /\ [Next]_vars => [Pool!PoolNext]_(Pool!poolVars)
  BY StepMaps
<1> QED BY <1>1, <1>2, <1>3, <1>4, <1>5, Outcomes, PTL
     DEF Spec, ImplementsTaskPool, Pool!PoolSpec
=============================================================================
