--------------------------- MODULE DataLockProofs ---------------------------
(***************************************************************************)
(* Safety of the data lock for every set of runs and every constant.       *)
(***************************************************************************)
EXTENDS DataLock, TLAPS

-----------------------------------------------------------------------------
(* The types *)

\* Where a run stands bounds what it counts.
InRange(p) ==
  /\ pc[p] \in {"look", "grade"} => num[p] >= 1
  /\ pc[p] = "grade" => left[p] >= 1
  /\ pc[p] \in {"look", "grade", "claim"} => tries[p] >= 1
  /\ pc[p] \in Owning \cup {"claim"} => num[p] >= 0
  /\ pc[p] = "work" => done[p] < Writes

Types == TypeOK /\ \A p \in Proc : InRange(p)

\* What the types say of one run.
LEMMA RunTypes ==
  ASSUME Types, NEW p \in Proc
  PROVE  /\ num[p] \in Gen \cup {NoGen} /\ num[p] \in Int
         /\ num[p] >= 0 => num[p] \in Gen
         /\ num[p] >= 1 => num[p] - 1 \in Gen
         /\ left[p] \in 0..StalePolls /\ tries[p] \in 0..ClaimAttempts
         /\ done[p] \in 0..Writes /\ age[p] \in 0..StalePolls
         /\ half[p] # NoGen => half[p] \in Gen
         /\ InRange(p)
<1>1. num[p] \in Gen \cup {NoGen} /\ half[p] \in Gen \cup {NoGen}
  BY DEF Types, TypeOK
<1>2. MaxGen \in Nat
  BY LockConstants
<1>3. /\ num[p] \in Int /\ num[p] >= 0 => num[p] \in Gen
      /\ num[p] >= 1 => num[p] - 1 \in Gen
  BY <1>1, <1>2 DEF Gen, NoGen
<1>4. num[p] \in Int
  BY <1>1, <1>2 DEF Gen, NoGen
<1>5. num[p] >= 0 => num[p] \in Gen
  BY <1>1, <1>2 DEF Gen, NoGen
<1> QED BY <1>1, <1>3, <1>4, <1>5 DEF Types, TypeOK

\* What an owner file is read as.
LEMMA OwnerTextType ==
  ASSUME Types, NEW n \in Gen
  PROVE  OwnerText(n) \in Nat
<1>1. owner[n] \in Nat \cup {Missing}
  BY DEF Types, TypeOK
<1> QED BY <1>1 DEF OwnerText, Empty, Missing

\* Time moves no run.
LEMMA TypeTick ==
  ASSUME Types, Tick
  PROVE  Types'
<1> USE LockConstants DEF Tick, Types, disk, clearing
<1>1. age' \in [Proc -> 0..StalePolls]
  BY DEF TypeOK
<1>2. TypeOK'
  BY <1>1 DEF TypeOK
<1> QED BY <1>2 DEF InRange, TypeOK

\* A run that takes the lock keeps the types.
LEMMA TypeTaking ==
  ASSUME Types, NEW p \in Proc, Taking(p)
  PROVE  Types'
<1> USE LockConstants DEF Goto, disk, clearing, history
<1>r. /\ num[p] >= 0 => num[p] \in Gen
      /\ num[p] >= 1 => num[p] - 1 \in Gen
      /\ left[p] \in 0..StalePolls /\ tries[p] \in 0..ClaimAttempts
      /\ num[p] \in Int /\ InRange(p)
  BY RunTypes
<1>t. TypeOK
  BY DEF Types
<1>1. CASE Acquire(p)
  <2>1. force' \in [Proc -> BOOLEAN]
    BY <1>1, <1>t DEF TypeOK, Acquire
  <2>2. pc' \in [Proc -> Label] /\ tries' \in [Proc -> 0..ClaimAttempts]
    BY <1>1, <1>t DEF TypeOK, Acquire, Label
  <2>3. TypeOK'
    BY <1>1, <1>t, <2>1, <2>2 DEF TypeOK, Acquire
  <2>4. ASSUME NEW q \in Proc
        PROVE  InRange(q)'
    BY <1>1, <1>t DEF TypeOK, Types, Acquire, InRange, Owning, Starting
  <2> QED BY <2>3, <2>4 DEF Types
<1>2. CASE Contend(p)
  <2>1. ASSUME NEW held \in gens, held < MaxGen
        PROVE  held + 1 \in Gen /\ held + 1 >= 1
    BY <1>t, <2>1 DEF TypeOK, Gen
  <2>2. 0 \in Gen
    BY DEF Gen
  <2>3. num' \in [Proc -> Gen \cup {NoGen}]
    BY <1>2, <1>t, <2>1, <2>2 DEF TypeOK, Contend
  <2>4. pc' \in [Proc -> Label]
    BY <1>2, <1>t DEF TypeOK, Contend, Label
  <2>5. TypeOK'
    BY <1>2, <1>t, <2>3, <2>4 DEF TypeOK, Contend, grading
  <2>6. ASSUME NEW q \in Proc
        PROVE  InRange(q)'
    <3>1. CASE q # p
      BY <1>2, <1>t, <3>1 DEF TypeOK, Types, Contend, grading, InRange
    <3>2. CASE q = p
      <4>1. /\ pc'[p] \in {"refused", "claim", "look"}
            /\ pc'[p] # "refused" => tries[p] >= 1 /\ num'[p] >= 0
            /\ pc'[p] = "look" => num'[p] >= 1
        <5>1. CASE tries[p] = 0
          BY <1>2, <1>t, <5>1 DEF TypeOK, Contend
        <5>2. CASE tries[p] > 0 /\ gens = {}
          BY <1>2, <1>t, <1>r, <5>2 DEF TypeOK, Contend
        <5>3. CASE tries[p] > 0 /\ gens # {}
          <6>1. PICK held \in gens : held < MaxGen /\ num' = [num EXCEPT ![p] = held + 1]
            BY <1>2, <5>3 DEF Contend
          <6>2. num'[p] = held + 1
            BY <1>t, <6>1 DEF TypeOK
          <6>3. num'[p] >= 1
            BY <6>1, <6>2, <2>1
          <6>4. tries[p] # 0
            BY <1>r, <5>3
          <6>5. pc' = [pc EXCEPT ![p] = IF force[p] THEN "claim" ELSE "look"]
            BY <1>2, <5>3, <6>4 DEF Contend
          <6>6. pc'[p] \in {"claim", "look"}
            <7>1. pc'[p] = IF force[p] THEN "claim" ELSE "look"
              BY <1>t, <6>5 DEF TypeOK
            <7> QED BY <7>1, Zenon
          <6>7. tries[p] >= 1
            <7>1. tries[p] \in Int
              BY <1>r, LockConstants
            <7> QED BY <7>1, <5>3
          <6>8. num'[p] >= 0
            <7>1. held + 1 >= 1 /\ held + 1 \in Int
              BY <6>1, <2>1 DEF Gen
            <7> QED BY <7>1, <6>2
          <6> QED BY <6>3, <6>6, <6>7, <6>8
        <5> QED BY <1>r, <5>1, <5>2, <5>3
      <4>2. tries' = tries
        BY <1>2 DEF Contend, grading
      <4> QED BY <3>2, <4>1, <4>2 DEF InRange, Owning, Starting
    <3> QED BY <3>1, <3>2
  <2> QED BY <2>5, <2>6 DEF Types
<1>3. CASE Look(p)
  <2>1. OwnerText(num[p] - 1) \in Nat
    BY <1>3, <1>r, OwnerTextType DEF InRange, Look
  <2>2. pc' \in [Proc -> Label] /\ seen' \in [Proc -> Nat]
    BY <1>3, <1>t, <2>1 DEF TypeOK, Look, Label
  <2>3. TypeOK'
    BY <1>3, <1>t, <2>2 DEF TypeOK, Look
  <2>4. ASSUME NEW q \in Proc
        PROVE  InRange(q)'
    BY <1>3, <1>t DEF TypeOK, Types, Look, InRange, Owning, Starting
  <2> QED BY <2>3, <2>4 DEF Types
<1>4. CASE BeatMoves(p)
  <2>1. left[p] >= 1 /\ num[p] >= 1 /\ tries[p] >= 1
    BY <1>4, <1>r DEF InRange, BeatMoves
  <2>2. pc' \in [Proc -> Label] /\ seen' \in [Proc -> Nat]
    BY <1>4, <1>t DEF TypeOK, BeatMoves, Label, Empty
  <2>3. left' \in [Proc -> 0..StalePolls]
    BY <1>4, <1>t, <1>r, <2>1 DEF TypeOK, BeatMoves
  <2>4. num' \in [Proc -> Gen \cup {NoGen}]
    BY <1>4, <1>t DEF TypeOK, BeatMoves
  <2>5. TypeOK'
    BY <1>4, <1>t, <2>2, <2>3, <2>4 DEF TypeOK, BeatMoves
  <2>6. ASSUME NEW q \in Proc
        PROVE  InRange(q)'
    <3>1. CASE q # p
      BY <1>4, <1>t, <3>1 DEF TypeOK, Types, BeatMoves, InRange
    <3>2. CASE q = p
      BY <1>4, <1>t, <1>r, <3>2, <2>1
      DEF TypeOK, BeatMoves, InRange, Owning, Starting
    <3> QED BY <3>1, <3>2
  <2> QED BY <2>5, <2>6 DEF Types
<1>5. CASE Claim(p)
  <2>1. tries[p] >= 1 /\ num[p] \in Gen
    BY <1>5, <1>r DEF InRange, Claim
  <2>p. pc' \in [Proc -> Label]
    BY <1>5, <1>t DEF TypeOK, Claim, Label, Owning, Starting
  <2>g. gens' \subseteq Gen
    BY <1>5, <1>t, <2>1 DEF TypeOK, Claim
  <2>2. force' \in [Proc -> BOOLEAN]
    BY <1>5, <1>t DEF TypeOK, Claim
  <2>3. tries' \in [Proc -> 0..ClaimAttempts]
    BY <1>5, <1>t, <1>r, <2>1 DEF TypeOK, Claim
  <2>4. TypeOK'
    BY <1>5, <1>t, <2>p, <2>g, <2>2, <2>3 DEF TypeOK, Claim
  <2>5. ASSUME NEW q \in Proc
        PROVE  InRange(q)'
    BY <1>5, <1>t, <1>r DEF TypeOK, Types, Claim, InRange, Owning, Starting
  <2> QED BY <2>4, <2>5 DEF Types
<1> QED BY <1>1, <1>2, <1>3, <1>4, <1>5 DEF Taking

\* A heartbeat, written or failed, keeps the types of what it touches.
LEMMA TypeBeat ==
  ASSUME Types, NEW p \in Proc, num[p] >= 0, Beat(p) \/ BeatFails(p)
  PROVE  /\ owner' \in [Gen -> Nat \cup {Missing}] /\ errors' \in 0..MaxErrors
         /\ silent' \subseteq Proc /\ age' \in [Proc -> 0..StalePolls]
<1>t. TypeOK /\ num[p] \in Gen
  BY RunTypes DEF Types
<1>1. CASE Beat(p)
  BY <1>1, <1>t, LockConstants DEF TypeOK, Beat
<1>2. CASE BeatFails(p)
  <2>1. owner' \in [Gen -> Nat \cup {Missing}]
    BY <1>2, <1>t DEF TypeOK, BeatFails, DiskFails, Empty
  <2>2. errors' \in 0..MaxErrors
    BY <1>2, <1>t, LockConstants DEF TypeOK, BeatFails, DiskFails
  <2> QED BY <1>2, <1>t, <2>1, <2>2 DEF TypeOK, BeatFails
<1> QED BY <1>1, <1>2

\* A run that clears older generations away keeps the types.
LEMMA TypeClearing ==
  ASSUME Types, NEW p \in Proc, Clearing(p)
  PROVE  Types'
<1> USE DEF Goto, disk, grading, clearing, history
<1>r. /\ num[p] >= 0 => num[p] \in Gen
      /\ num[p] \in Int /\ InRange(p) /\ (half[p] # NoGen => half[p] \in Gen)
  BY RunTypes
<1>t. TypeOK
  BY DEF Types
<1>1. CASE FirstBeat(p)
  <2>1. num[p] >= 0
    BY <1>1, <1>r DEF InRange, FirstBeat, Owning, Starting
  <2>2. /\ owner' \in [Gen -> Nat \cup {Missing}] /\ errors' \in 0..MaxErrors
        /\ silent' \subseteq Proc /\ age' \in [Proc -> 0..StalePolls]
    BY <1>1, <2>1, TypeBeat DEF FirstBeat
  <2>3. pc' \in [Proc -> Label]
    BY <1>1, <1>t DEF TypeOK, FirstBeat, Label, Owning, Starting
  <2>4. TypeOK'
    BY <1>1, <1>t, <2>2, <2>3 DEF TypeOK, FirstBeat
  <2>5. ASSUME NEW q \in Proc
        PROVE  InRange(q)'
    BY <1>1, <1>t, <2>1 DEF TypeOK, Types, FirstBeat, InRange, Owning, Starting
  <2> QED BY <2>4, <2>5 DEF Types
<1>2. CASE DiscardOlder(p)
  <2>1. pc' \in [Proc -> Label]
    BY <1>2, <1>t DEF TypeOK, DiscardOlder, Label, Owning, Starting
  <2>2. todo' \in [Proc -> SUBSET Gen]
    BY <1>2, <1>t DEF TypeOK, DiscardOlder
  <2>3. TypeOK'
    BY <1>2, <1>t, <2>1, <2>2 DEF TypeOK, DiscardOlder
  <2>4. ASSUME NEW q \in Proc
        PROVE  InRange(q)'
    BY <1>2, <1>t DEF TypeOK, Types, DiscardOlder, InRange, Owning, Starting
  <2> QED BY <2>3, <2>4 DEF Types
<1>3. CASE DiscardOwner(p)
  <2>1. owner' \in [Gen -> Nat \cup {Missing}]
    BY <1>3, <1>t DEF TypeOK, DiscardOwner, DiskFails
  <2>2. errors' \in 0..MaxErrors
    BY <1>3, <1>t, LockConstants DEF TypeOK, DiscardOwner, DiskFails
  <2>3. half' \in [Proc -> Gen \cup {NoGen}]
    BY <1>3, <1>t DEF TypeOK, DiscardOwner
  <2>4. TypeOK'
    BY <1>3, <1>t, <2>1, <2>2, <2>3 DEF TypeOK, DiscardOwner
  <2>5. ASSUME NEW q \in Proc
        PROVE  InRange(q)'
    BY <1>3 DEF Types, DiscardOwner, InRange
  <2> QED BY <2>4, <2>5 DEF Types
<1>4. CASE DiscardDir(p)
  <2>1. pc' \in [Proc -> Label]
    BY <1>4, <1>t DEF TypeOK, DiscardDir, Label, Owning, Starting
  <2>2. todo' \in [Proc -> SUBSET Gen] /\ half' \in [Proc -> Gen \cup {NoGen}]
    BY <1>4, <1>t DEF TypeOK, DiscardDir
  <2>3. gens' \subseteq Gen
    BY <1>4, <1>t DEF TypeOK, DiscardDir
  <2>4. TypeOK'
    BY <1>4, <1>t, <2>1, <2>2, <2>3 DEF TypeOK, DiscardDir
  <2>5. ASSUME NEW q \in Proc
        PROVE  InRange(q)'
    BY <1>4, <1>t DEF TypeOK, Types, DiscardDir, InRange, Owning, Starting
  <2> QED BY <2>4, <2>5 DEF Types
<1> QED BY <1>1, <1>2, <1>3, <1>4 DEF Clearing

\* A run that holds a generation, and its end, keep the types.
LEMMA TypeHolding ==
  ASSUME Types, NEW p \in Proc, Holding(p) \/ End(p)
  PROVE  Types'
<1> USE DEF Goto, disk, grading, clearing, history
<1>r. /\ num[p] >= 0 => num[p] \in Gen
      /\ num[p] \in Int /\ InRange(p) /\ done[p] \in 0..Writes
  BY RunTypes
<1>t. TypeOK
  BY DEF Types
<1>1. CASE HoldDataLock(p)
  BY <1>1, <1>t DEF Types, TypeOK, HoldDataLock, InRange, Label, Owning, Starting
<1>2. CASE Confirm(p)
  <2>1. num[p] >= 0
    BY <1>2, <1>r DEF InRange, Confirm, Owning, Starting
  <2>2. /\ owner' \in [Gen -> Nat \cup {Missing}] /\ errors' \in 0..MaxErrors
        /\ silent' \subseteq Proc /\ age' \in [Proc -> 0..StalePolls]
    BY <1>2, <2>1, TypeBeat DEF Confirm
  <2>3. pc' \in [Proc -> Label]
    BY <1>2, <1>t DEF TypeOK, Confirm, Label, Owning, Starting
  <2>4. TypeOK'
    BY <1>2, <1>t, <2>2, <2>3 DEF TypeOK, Confirm
  <2>5. ASSUME NEW q \in Proc
        PROVE  InRange(q)'
    BY <1>2, <1>t, <2>1 DEF TypeOK, Types, Confirm, InRange, Owning, Starting
  <2> QED BY <2>4, <2>5 DEF Types
<1>3. CASE Renew(p)
  <2>1. num[p] >= 0
    BY <1>3, <1>r DEF InRange, Renew, Owning, Starting
  <2>2. /\ owner' \in [Gen -> Nat \cup {Missing}] /\ errors' \in 0..MaxErrors
        /\ silent' \subseteq Proc /\ age' \in [Proc -> 0..StalePolls]
    BY <1>3, <2>1, TypeBeat DEF Renew
  <2>3. pc' \in [Proc -> Label]
    BY <1>3, <1>t DEF TypeOK, Renew, Label, Owning, Starting
  <2>4. TypeOK'
    BY <1>3, <1>t, <2>2, <2>3 DEF TypeOK, Renew
  <2>5. ASSUME NEW q \in Proc
        PROVE  InRange(q)'
    BY <1>3, <1>t, <2>1 DEF TypeOK, Types, Renew, InRange, Owning, Starting
  <2> QED BY <2>4, <2>5 DEF Types
<1>4. CASE ConfigureWrite(p)
  <2>1. done' \in [Proc -> 0..Writes]
    BY <1>4, <1>t, <1>r, LockConstants DEF TypeOK, InRange, ConfigureWrite
  <2>2. TypeOK'
    BY <1>4, <1>t, <2>1
    DEF TypeOK, ConfigureWrite, Write, Label, Owning, Starting
  <2>3. ASSUME NEW q \in Proc
        PROVE  InRange(q)'
    BY <1>4, <1>t DEF TypeOK, Types, ConfigureWrite, InRange, Owning, Starting
  <2> QED BY <2>2, <2>3 DEF Types
<1>5. CASE Request(p)
  BY <1>5 DEF Types, TypeOK, Request, Write, InRange
<1>6. CASE Stop(p)
  BY <1>6, <1>t DEF Types, TypeOK, Stop, InRange, Label, Owning, Starting
<1>7. CASE End(p)
  <2>1. TypeOK'
    BY <1>7, <1>t, LockConstants DEF TypeOK, End, Label, Owning, Starting
  <2>2. ASSUME NEW q \in Proc
        PROVE  InRange(q)'
    BY <1>7, <1>t DEF TypeOK, Types, End, InRange, Owning, Starting
  <2> QED BY <2>1, <2>2 DEF Types
<1> QED BY <1>1, <1>2, <1>3, <1>4, <1>5, <1>6, <1>7 DEF Holding

\* The types hold at the start.
LEMMA TypeInit == Init => Types
<1> SUFFICES ASSUME Init PROVE Types
  OBVIOUS
<1>1. TypeOK
  BY LockConstants
  DEF Init, TypeOK, Gen, NoGen, Missing, Empty, OldBeat, Label, Owning, Starting
<1>2. ASSUME NEW p \in Proc
      PROVE  InRange(p)
  BY DEF Init, InRange, Owning, Starting
<1> QED BY <1>1, <1>2 DEF Types

\* Every step keeps the types.
LEMMA TypeStep == Types /\ [Next]_vars => Types'
<1> SUFFICES ASSUME Types, [Next]_vars PROVE Types'
  OBVIOUS
<1>1. CASE UNCHANGED vars
  BY <1>1 DEF Types, TypeOK, InRange, vars, disk, grading, clearing, history
<1>2. CASE Next
  BY <1>2, TypeTick, TypeTaking, TypeClearing, TypeHolding DEF Next
<1> QED BY <1>1, <1>2

\* Type correctness: the window, the attempts, the age and the writes of a
\* start-up stay within their bounds (dirlock.mdk, serve.mdk).
THEOREM TypeCorrect == Spec => []TypeOK
<1>1. Types => TypeOK
  BY DEF Types
<1> QED BY <1>1, TypeInit, TypeStep, PTL DEF Spec
-----------------------------------------------------------------------------
(* One holder, and a late writer is told *)

\* Some generation of s is n or above it, or above it.
Reached(s, n) == \E m \in s : m >= n
Superseded(s, n) == \E m \in s : m > n
NeverDrops(s, t) == \A m \in s : \E k \in t : k >= m

\* What a run clears away lies below its own generation.
BelowItsOwn(p) ==
  /\ pc[p] = "unlink" => \A m \in todo[p] : m < num[p]
  /\ half[p] # NoGen => pc[p] \in {"unlink", "ended"}
  /\ pc[p] = "unlink" /\ half[p] # NoGen => half[p] \in todo[p]

\* An owner's name may be made again only below a higher generation.
OwnersReached == \A p \in Proc : pc[p] \in Owning => Reached(gens, num[p])
NamesApart ==
  \A p, q \in Proc :
    p # q /\ pc[p] \in Owning /\ pc[q] \in Owning /\ num[p] = num[q]
      => Superseded(gens, num[p])
LateTaken ==
  \A p \in late :
    pc[p] \in {"check", "serve", "drain", "ended"} /\ Superseded(gens, num[p])

Held ==
  /\ Types /\ \A p \in Proc : BelowItsOwn(p)
  /\ OwnersReached /\ NamesApart /\ LateTaken

\* A run that stays where it is keeps its number; one that moves becomes an
\* owner by a claim alone.
LEMMA OwnersByClaim ==
  ASSUME Types, NEW p \in Proc, Taking(p) \/ Clearing(p) \/ Holding(p) \/ End(p)
  PROVE  /\ \A q \in Proc \ {p} :
              /\ pc'[q] = pc[q] /\ num'[q] = num[q]
              /\ todo'[q] = todo[q] /\ half'[q] = half[q]
         /\ pc[p] \in Owning \cup {"ended"} => num'[p] = num[p]
         /\ pc'[p] \in Owning =>
              \/ pc[p] \in Owning
              \/ /\ pc[p] = "claim" /\ num'[p] = num[p]
                 /\ num[p] \notin gens /\ gens' = gens \cup {num[p]}
<1>t. TypeOK
  BY DEF Types
<1> USE DEF Goto, disk, grading, clearing, history, TypeOK, Owning, Starting
<1>1. CASE Taking(p)
  <2>1. CASE Acquire(p)
    BY <1>t, <2>1 DEF Acquire
  <2>2. CASE Contend(p)
    <3>1. /\ \A q \in Proc \ {p} :
               /\ pc'[q] = pc[q] /\ num'[q] = num[q]
               /\ todo'[q] = todo[q] /\ half'[q] = half[q]
          /\ pc[p] = "list"
      BY <1>t, <2>2 DEF Contend
    <3>2. pc'[p] \in {"refused", "claim", "look"}
      BY <1>t, <2>2 DEF Contend
    <3> QED BY <3>1, <3>2
  <2>3. CASE Look(p)
    BY <1>t, <2>3 DEF Look
  <2>4. CASE BeatMoves(p)
    BY <1>t, <2>4 DEF BeatMoves
  <2>5. CASE Claim(p)
    BY <1>t, <2>5 DEF Claim
  <2> QED BY <1>1, <2>1, <2>2, <2>3, <2>4, <2>5 DEF Taking
<1>2. CASE Clearing(p)
  BY <1>t, <1>2
  DEF Clearing, FirstBeat, DiscardOlder, DiscardOwner, DiscardDir, Beat, BeatFails
<1>3. CASE Holding(p)
  BY <1>t, <1>3
  DEF Holding, HoldDataLock, Confirm, Renew, ConfigureWrite, Request, Stop, Beat, BeatFails
<1>4. CASE End(p)
  BY <1>t, <1>4 DEF End
<1> QED BY <1>1, <1>2, <1>3, <1>4

\* A generation is removed only by a run whose own is reached by another.
LEMMA HighestNeverDrops ==
  ASSUME Held, NEW p \in Proc, Taking(p) \/ Clearing(p) \/ Holding(p) \/ End(p)
  PROVE  NeverDrops(gens, gens')
<1>t. gens \subseteq Int
  BY LockConstants DEF Held, Types, TypeOK, Gen
<1>1. gens \subseteq gens' => NeverDrops(gens, gens')
  BY <1>t DEF NeverDrops
<1>2. CASE DiscardDir(p)
  <2>1. num[p] \in Int /\ half[p] \in Int /\ half[p] < num[p]
    BY <1>2, RunTypes, LockConstants DEF Held, BelowItsOwn, DiscardDir, Gen
  <2>2. PICK m \in gens : m >= num[p]
    BY <1>2 DEF Held, OwnersReached, Reached, DiscardDir, Owning, Starting
  <2>3. gens \ {half[p]} \subseteq gens'
    BY <1>2 DEF DiscardDir
  <2>4. m \in gens' /\ m >= half[p]
    BY <1>t, <2>1, <2>2, <2>3
  <2> QED BY <1>t, <2>3, <2>4 DEF NeverDrops
<1>3. CASE ~DiscardDir(p)
  <2>1. gens \subseteq gens'
    BY <1>3
    DEF Taking, Acquire, Contend, Look, BeatMoves, Claim,
        Clearing, FirstBeat, DiscardOlder, DiscardOwner,
        Holding, HoldDataLock, Confirm, Renew, ConfigureWrite, Request, Stop, End, disk
  <2> QED BY <1>1, <2>1
<1> QED BY <1>2, <1>3

\* What was reached or superseded remains so.
LEMMA Rises ==
  ASSUME NEW s \in SUBSET Int, NEW t \in SUBSET Int, NeverDrops(s, t), NEW n \in Int
  PROVE  /\ Reached(s, n) => Reached(t, n)
         /\ Superseded(s, n) => Superseded(t, n)
BY DEF NeverDrops, Reached, Superseded

\* Owners keep a name that is reached, and two share one only below a higher.
LEMMA OwnersStep ==
  ASSUME Held, NEW p \in Proc, Taking(p) \/ Clearing(p) \/ Holding(p) \/ End(p), Types'
  PROVE  OwnersReached' /\ NamesApart'
<1>t. /\ gens \in SUBSET Int /\ gens' \in SUBSET Int
      /\ \A q \in Proc : num[q] \in Int
  <2>1. gens \in SUBSET Int /\ gens' \in SUBSET Int
    BY LockConstants DEF Held, Types, TypeOK, Gen
  <2>2. \A q \in Proc : num[q] \in Int
    BY RunTypes DEF Held
  <2> QED BY <2>1, <2>2
<1>n. NeverDrops(gens, gens')
  BY HighestNeverDrops
<1>o. /\ \A q \in Proc \ {p} : pc'[q] = pc[q] /\ num'[q] = num[q]
      /\ pc[p] \in Owning => num'[p] = num[p]
      /\ pc'[p] \in Owning =>
           \/ pc[p] \in Owning
           \/ /\ num'[p] = num[p] /\ num[p] \notin gens /\ gens' = gens \cup {num[p]}
  BY OwnersByClaim DEF Held
<1>1. ASSUME NEW q \in Proc, pc'[q] \in Owning
      PROVE  /\ num'[q] = num[q]
             /\ \/ pc[q] \in Owning /\ Reached(gens, num[q])
                \/ q = p /\ num[q] \notin gens /\ gens' = gens \cup {num[q]}
  BY <1>1, <1>o DEF Held, OwnersReached
<1>2. ASSUME NEW q \in Proc, pc'[q] \in Owning
      PROVE  Reached(gens', num'[q])
  <2>1. CASE Reached(gens, num[q])
    BY <1>1, <1>2, <1>t, <1>n, <2>1, Rises
  <2>2. CASE gens' = gens \cup {num[q]}
    <3>1. num[q] \in gens' /\ num[q] >= num[q]
      BY <2>2, <1>t
    <3> QED BY <1>1, <1>2, <3>1 DEF Reached
  <2> QED BY <1>1, <1>2, <2>1, <2>2
<1>3. ASSUME NEW q \in Proc, NEW r \in Proc, q # r, pc'[q] \in Owning,
             pc'[r] \in Owning, num'[q] = num'[r]
      PROVE  Superseded(gens', num'[q])
  <2>1. num'[q] = num[q] /\ num'[r] = num[r] /\ num[q] = num[r]
    BY <1>1, <1>3
  <2>2. CASE pc[q] \in Owning /\ pc[r] \in Owning
    <3>1. Superseded(gens, num[q])
      BY <1>3, <2>1, <2>2 DEF Held, NamesApart
    <3> QED BY <3>1, <2>1, <1>t, <1>n, Rises
  <2>3. CASE ~(pc[q] \in Owning /\ pc[r] \in Owning)
    <3>1. /\ Reached(gens, num[q])
          /\ num[q] \notin gens /\ gens' = gens \cup {num[q]}
      <4>1. CASE pc[q] \in Owning
        BY <4>1, <1>1, <1>3, <2>1, <2>3
      <4>2. CASE pc[q] \notin Owning
        BY <4>2, <1>1, <1>3, <2>1, <2>3
      <4> QED BY <4>1, <4>2
    <3>2. PICK m \in gens : m >= num[q]
      BY <3>1 DEF Reached
    <3>3. m \in gens' /\ m > num[q]
      BY <3>1, <3>2, <1>t
    <3> QED BY <3>3, <2>1 DEF Superseded
  <2> QED BY <2>2, <2>3
<1> QED BY <1>2, <1>3 DEF OwnersReached, NamesApart

\* What a run clears away stays below its own generation.
LEMMA BelowStep ==
  ASSUME Held, NEW p \in Proc, Taking(p) \/ Clearing(p) \/ Holding(p) \/ End(p)
  PROVE  \A q \in Proc : BelowItsOwn(q)'
<1>t. TypeOK
  BY DEF Held, Types
<1>o. /\ \A q \in Proc \ {p} :
           /\ pc'[q] = pc[q] /\ num'[q] = num[q]
           /\ todo'[q] = todo[q] /\ half'[q] = half[q]
      /\ pc[p] \in Owning \cup {"ended"} => num'[p] = num[p]
  BY OwnersByClaim DEF Held
<1>1. ASSUME NEW q \in Proc \ {p}
      PROVE  BelowItsOwn(q)'
  BY <1>o DEF Held, BelowItsOwn
<1>b. BelowItsOwn(p)
  BY DEF Held
<1>2. BelowItsOwn(p)'
  <2>1. CASE DiscardOlder(p)
    <3>1. /\ pc[p] = "clean" /\ half'[p] = half[p] /\ num'[p] = num[p]
          /\ todo'[p] = {m \in gens : m < num[p]}
      BY <2>1, <1>t DEF TypeOK, DiscardOlder, clearing, Goto
    <3> QED BY <3>1, <1>b DEF BelowItsOwn
  <2>2. CASE DiscardOwner(p)
    BY <2>2, <1>t, <1>b DEF TypeOK, DiscardOwner, BelowItsOwn
  <2>3. CASE DiscardDir(p)
    <3>1. /\ pc[p] = "unlink" /\ half'[p] = NoGen /\ num'[p] = num[p]
          /\ todo'[p] \subseteq todo[p]
      BY <2>3, <1>t DEF TypeOK, DiscardDir
    <3> QED BY <3>1, <1>b DEF BelowItsOwn
  <2>4. CASE ~(DiscardOlder(p) \/ DiscardOwner(p) \/ DiscardDir(p))
    <3>1. todo' = todo /\ half' = half
      BY <2>4
      DEF Taking, Acquire, Contend, Look, BeatMoves, Claim, Clearing, FirstBeat,
          Holding, HoldDataLock, Confirm, Renew, ConfigureWrite, Request, Stop, End,
          clearing
    <3>2. /\ pc'[p] # "unlink"
          /\ pc[p] \in {"unlink", "ended"} => pc'[p] \in {"unlink", "ended"}
      <4>1. CASE Taking(p)
        <5>1. CASE Contend(p)
          <6>1. pc'[p] \in {"refused", "claim", "look"} /\ pc[p] = "list"
            BY <1>t, <5>1 DEF TypeOK, Contend, Goto
          <6> QED BY <6>1
        <5>2. CASE ~Contend(p)
          BY <1>t, <4>1, <5>2 DEF TypeOK, Taking, Acquire, Look, BeatMoves, Claim, Goto
        <5> QED BY <5>1, <5>2
      <4>2. CASE ~Taking(p)
        BY <1>t, <2>4, <4>2
        DEF TypeOK, Clearing, FirstBeat, Goto,
            Holding, HoldDataLock, Confirm, Renew, ConfigureWrite, Request, Stop, End
      <4> QED BY <4>1, <4>2
    <3> QED BY <3>1, <3>2, <1>b DEF BelowItsOwn
  <2> QED BY <2>1, <2>2, <2>3, <2>4
<1> QED BY <1>1, <1>2

\* A run that has written too late waits for the heartbeat that tells it, or serves.
LEMMA LateStep ==
  ASSUME Held, NEW p \in Proc, Taking(p) \/ Clearing(p) \/ Holding(p) \/ End(p), Types'
  PROVE  LateTaken'
<1>t. TypeOK
  BY DEF Held, Types
<1>g. /\ gens \in SUBSET Int /\ gens' \in SUBSET Int
      /\ \A q \in Proc : num[q] \in Int
  <2>1. gens \in SUBSET Int /\ gens' \in SUBSET Int
    BY LockConstants DEF Held, Types, TypeOK, Gen
  <2>2. \A q \in Proc : num[q] \in Int
    BY RunTypes DEF Held
  <2> QED BY <2>1, <2>2
<1>n. NeverDrops(gens, gens')
  BY HighestNeverDrops
<1>o. /\ \A q \in Proc \ {p} : pc'[q] = pc[q] /\ num'[q] = num[q]
      /\ pc[p] \in Owning \cup {"ended"} => num'[p] = num[p]
  BY OwnersByClaim DEF Held
<1>1. ASSUME NEW q \in late
      PROVE  Superseded(gens', num'[q]) /\ num'[q] = num[q]
  <2>1. pc[q] \in Owning \cup {"ended"} /\ Superseded(gens, num[q]) /\ q \in Proc
    BY <1>t DEF Held, LateTaken, Owning, Starting, TypeOK
  <2>2. num'[q] = num[q]
    BY <1>o, <2>1
  <2> QED BY <2>1, <2>2, <1>g, <1>n, Rises
<1>2. \/ late' = late
      \/ late' = late \ {p}
      \/ (ConfigureWrite(p) \/ Request(p)) /\ Write(p)
  <2>1. Taking(p) \/ Clearing(p) => late' = late
    BY DEF Taking, Acquire, Contend, Look, BeatMoves, Claim, history,
           Clearing, FirstBeat, DiscardOlder, DiscardOwner, DiscardDir
  <2>2. CASE Holding(p)
    BY <2>2 DEF Holding, HoldDataLock, Confirm, Renew, ConfigureWrite, Request, Stop, history
  <2>3. End(p) => late' = late \ {p}
    BY DEF End
  <2> QED BY <2>1, <2>2, <2>3
<1>3. CASE (ConfigureWrite(p) \/ Request(p)) /\ Write(p)
  <2>1. /\ late' \subseteq late \cup {p} /\ pc'[p] \in {"check", "serve", "drain"}
        /\ p \in late' => p \in late \/ ~IsHighest(num[p])
        /\ pc[p] \in Owning /\ num'[p] = num[p] /\ gens' = gens
    BY <1>3, <1>t DEF ConfigureWrite, Request, Write, TypeOK, Goto, Owning, Starting, disk
  <2>2. ASSUME ~IsHighest(num[p])
        PROVE  Superseded(gens, num[p])
    <3>1. PICK m \in gens : m >= num[p]
      BY <2>1 DEF Held, OwnersReached, Reached
    <3> QED BY <3>1, <2>2, <1>g DEF IsHighest, Superseded
  <2>3. ASSUME NEW q \in late'
        PROVE  pc'[q] \in {"check", "serve", "drain", "ended"} /\ Superseded(gens', num'[q])
    <3>1. CASE q = p
      BY <3>1, <2>1, <2>2, <2>3, <1>1
    <3>2. CASE q # p
      BY <3>2, <2>1, <2>3, <1>1, <1>o, <1>t DEF Held, LateTaken, TypeOK
    <3> QED BY <3>1, <3>2
  <2> QED BY <2>3 DEF LateTaken
<1>4. CASE late' = late \ {p}
  <2>1. ASSUME NEW q \in late'
        PROVE  pc'[q] \in {"check", "serve", "drain", "ended"} /\ Superseded(gens', num'[q])
    BY <2>1, <1>4, <1>1, <1>o, <1>t DEF Held, LateTaken, TypeOK
  <2> QED BY <2>1 DEF LateTaken
<1>5. CASE late' = late
  <2>1. ASSUME p \in late
        PROVE  pc'[p] \in {"check", "serve", "drain", "ended"}
    <3>1. pc[p] \in {"check", "serve", "drain", "ended"} /\ ~IsHighest(num[p])
      <4>1. PICK m \in gens : m > num[p]
        BY <2>1 DEF Held, LateTaken, Superseded
      <4> QED BY <2>1, <4>1, <1>g DEF Held, LateTaken, IsHighest
    <3> QED BY <3>1, <1>t
      DEF TypeOK, Taking, Acquire, Contend, Look, BeatMoves, Claim, Goto,
          Clearing, FirstBeat, DiscardOlder, DiscardOwner, DiscardDir,
          Holding, HoldDataLock, Confirm, Renew, ConfigureWrite, Request, Stop, End
  <2>2. ASSUME NEW q \in late'
        PROVE  pc'[q] \in {"check", "serve", "drain", "ended"} /\ Superseded(gens', num'[q])
    BY <2>1, <2>2, <1>5, <1>1, <1>o, <1>t DEF Held, LateTaken, TypeOK
  <2> QED BY <2>2 DEF LateTaken
<1> QED BY <1>2, <1>3, <1>4, <1>5

\* At the start nobody owns anything.
LEMMA HeldInit == Init => Held
<1> SUFFICES ASSUME Init PROVE Held
  OBVIOUS
<1>1. \A p \in Proc : pc[p] = "off" /\ half[p] = NoGen
  BY DEF Init
<1> QED BY <1>1, TypeInit
  DEF Init, Held, BelowItsOwn, OwnersReached, NamesApart, LateTaken, Owning, Starting

\* Every step keeps the owners apart and a late writer superseded.
LEMMA HeldStep == Held /\ [Next]_vars => Held'
<1> SUFFICES ASSUME Held, [Next]_vars PROVE Held'
  OBVIOUS
<1>t. Types'
  BY TypeStep DEF Held
<1>1. CASE UNCHANGED vars
  <2>1. gens' = gens /\ pc' = pc /\ num' = num /\ todo' = todo /\ half' = half /\ late' = late
    BY <1>1 DEF vars, disk, clearing, history
  <2> QED BY <1>t, <2>1 DEF Held, BelowItsOwn, OwnersReached, NamesApart, LateTaken
<1>2. CASE Tick
  <2>1. gens' = gens /\ pc' = pc /\ num' = num /\ todo' = todo /\ half' = half /\ late' = late
    BY <1>2 DEF Tick, disk, clearing
  <2> QED BY <1>t, <2>1 DEF Held, BelowItsOwn, OwnersReached, NamesApart, LateTaken
<1>3. ASSUME NEW p \in Proc, Taking(p) \/ Clearing(p) \/ Holding(p) \/ End(p)
      PROVE  Held'
  <2>1. OwnersReached' /\ NamesApart'
    BY <1>3, <1>t, OwnersStep
  <2>2. \A q \in Proc : BelowItsOwn(q)'
    BY <1>3, BelowStep
  <2>3. LateTaken'
    BY <1>3, <1>t, LateStep
  <2> QED BY <1>t, <2>1, <2>2, <2>3 DEF Held
<1> QED BY <1>1, <1>2, <1>3 DEF Next

\* Two runs that own one name have both lost it to a higher generation.
LEMMA HeldIsSole == Held => OneHolder /\ LateWriterIsTold
<1> SUFFICES ASSUME Held PROVE OneHolder /\ LateWriterIsTold
  OBVIOUS
<1>t. gens \subseteq Int /\ \A q \in Proc : num[q] \in Int
  <2>1. gens \subseteq Int
    BY LockConstants DEF Held, Types, TypeOK, Gen
  <2> QED BY <2>1, RunTypes DEF Held
<1>1. ASSUME NEW p \in Proc, NEW q \in Proc, Holds(p), Holds(q), p # q
      PROVE  FALSE
  <2>1. num[p] = num[q]
    BY <1>1, <1>t DEF Holds, IsHighest
  <2>2. PICK m \in gens : m > num[p]
    BY <1>1, <2>1 DEF Held, NamesApart, Superseded, Holds
  <2> QED BY <1>1, <1>t, <2>2 DEF Holds, IsHighest
<1>2. LateWriterIsTold
  BY DEF Held, LateTaken, LateWriterIsTold
<1> QED BY <1>1, <1>2 DEF OneHolder

\* Whatever races over an abandoned directory, at most one run holds it: a claim
\* of a name made before supersedes nobody (dirlock.mdk: claim, discardOlder).
THEOREM OneHolderAlways == Spec => []OneHolder
<1>1. Held => OneHolder
  BY HeldIsSole
<1> QED BY <1>1, HeldInit, HeldStep, PTL DEF Spec

\* A run that wrote after it lost the directory learns so at its next heartbeat
\* (dirlock.mdk: holdDataLock reads the generations before it writes).
THEOREM LateWriterIsToldAlways == Spec => []LateWriterIsTold
<1>1. Held => LateWriterIsTold
  BY HeldIsSole
<1> QED BY <1>1, HeldInit, HeldStep, PTL DEF Spec

-----------------------------------------------------------------------------
(* A refusal has a holder *)

\* Some run took the directory, and it is still the one to beat.
Taken == \E q \in Proc : pc[q] \in Owning \cup {"ended"} /\ IsHighest(num[q])

\* Nobody has claimed yet: the directory is as it was found, and every run is on
\* its way to a claim that nothing stands against.
OnItsWay(p) ==
  /\ pc[p] \in {"off", "list", "look", "grade", "claim"}
  /\ pc[p] = "list" => tries[p] = ClaimAttempts
  /\ pc[p] \in {"look", "grade"} => gens = {0} /\ num[p] = 1
  /\ pc[p] = "grade" => seen[p] = OldBeat
  /\ pc[p] = "claim" => num[p] \in Gen \ gens /\ \A m \in gens : m < num[p]
Untouched ==
  /\ gens \subseteq {0}
  /\ 0 \in gens => owner[0] = OldBeat
  /\ \A p \in Proc : OnItsWay(p)

\* A directory that was taken stays taken.
LEMMA TakenStays ==
  ASSUME Held, Taken, [Next]_vars
  PROVE  Taken'
<1>t. gens \subseteq Int /\ \A q \in Proc : num[q] \in Int
  <2>1. gens \subseteq Int
    BY LockConstants DEF Held, Types, TypeOK, Gen
  <2> QED BY <2>1, RunTypes DEF Held
<1>p. TypeOK
  BY DEF Held, Types
<1>1. PICK q \in Proc : pc[q] \in Owning \cup {"ended"} /\ IsHighest(num[q])
  BY DEF Taken
<1>2. CASE Tick \/ UNCHANGED vars
  <2>1. gens' = gens /\ pc' = pc /\ num' = num
    BY <1>2 DEF Tick, disk, vars
  <2> QED BY <1>1, <2>1 DEF Taken, IsHighest
<1>3. ASSUME NEW p \in Proc, Taking(p) \/ Clearing(p) \/ Holding(p) \/ End(p)
      PROVE  Taken'
  <2>1. /\ \A r \in Proc \ {p} : pc'[r] = pc[r] /\ num'[r] = num[r]
        /\ pc[p] \in Owning \cup {"ended"} => num'[p] = num[p]
    BY <1>3, OwnersByClaim DEF Held
  <2>2. pc[p] \in Owning \cup {"ended"} => pc'[p] \in Owning \cup {"ended"}
    BY <1>3, <1>p
    DEF TypeOK, Goto, Owning, Starting,
        Taking, Acquire, Contend, Look, BeatMoves, Claim,
        Clearing, FirstBeat, DiscardOlder, DiscardOwner, DiscardDir,
        Holding, HoldDataLock, Confirm, Renew, ConfigureWrite, Request, Stop, End
  <2>3. pc'[q] \in Owning \cup {"ended"} /\ num'[q] = num[q]
    BY <1>1, <2>1, <2>2
  <2>4. CASE gens' = gens
    BY <1>1, <2>3, <2>4 DEF Taken, IsHighest
  <2>5. CASE Claim(p) /\ gens' # gens
    <3>1. /\ gens' = gens \cup {num[p]} /\ num[p] \notin gens
          /\ pc'[p] \in Owning /\ num'[p] = num[p]
      BY <2>5, <1>p DEF Claim, TypeOK, Goto, Owning, Starting
    <3>2. CASE num[p] < num[q]
      BY <1>1, <1>t, <2>3, <3>1, <3>2 DEF Taken, IsHighest
    <3>3. CASE num[p] > num[q]
      BY <1>1, <1>t, <3>1, <3>3 DEF Taken, IsHighest
    <3> QED BY <1>1, <1>t, <3>1, <3>2, <3>3 DEF IsHighest
  <2>6. CASE DiscardDir(p) /\ gens' # gens
    <3>1. gens' = gens \ {half[p]} /\ pc[p] = "unlink" /\ half[p] # NoGen
      BY <2>6 DEF DiscardDir
    <3>2. half[p] \in Int /\ half[p] < num[p]
      BY <3>1, RunTypes, LockConstants DEF Held, BelowItsOwn, Gen
    <3>3. num[q] # half[p]
      <4>1. PICK m \in gens : m >= num[p]
        BY <3>1 DEF Held, OwnersReached, Reached, Owning, Starting
      <4> QED BY <1>1, <1>t, <3>2, <4>1 DEF IsHighest
    <3> QED BY <1>1, <2>3, <3>1, <3>3 DEF Taken, IsHighest
  <2>7. Claim(p) \/ DiscardDir(p) \/ gens' = gens
    BY <1>3
    DEF Taking, Acquire, Contend, Look, BeatMoves,
        Clearing, FirstBeat, DiscardOlder, DiscardOwner,
        Holding, HoldDataLock, Confirm, Renew, ConfigureWrite, Request, Stop, End, disk
  <2> QED BY <2>4, <2>5, <2>6, <2>7
<1> QED BY <1>2, <1>3 DEF Next

\* From an untouched directory the first thing that happens to it is a claim.
LEMMA UntouchedStep ==
  ASSUME Held, Untouched, [Next]_vars
  PROVE  Untouched' \/ Taken'
<1>p. TypeOK
  BY DEF Held, Types
<1>c. ClaimAttempts \in Nat \ {0}
  BY LockConstants
<1>1. CASE Tick \/ UNCHANGED vars
  <2>1. /\ gens' = gens /\ owner' = owner /\ pc' = pc /\ num' = num
        /\ seen' = seen /\ tries' = tries
    BY <1>1 DEF Tick, disk, vars, grading
  <2> QED BY <2>1 DEF Untouched, OnItsWay
<1>2. ASSUME NEW p \in Proc, Taking(p) \/ Clearing(p) \/ Holding(p) \/ End(p)
      PROVE  Untouched' \/ Taken'
  <2>o. OnItsWay(p) /\ pc[p] \notin Owning
    BY DEF Untouched, OnItsWay, Owning, Starting
  <2>0. Taking(p)
    BY <1>2, <2>o
    DEF Owning, Starting, Clearing, FirstBeat, DiscardOlder, DiscardOwner, DiscardDir,
        Holding, HoldDataLock, Confirm, Renew, ConfigureWrite, Request, Stop, End
  <2>f. ASSUME gens' = gens, owner' = owner, OnItsWay(p)',
               \A q \in Proc \ {p} :
                 /\ pc'[q] = pc[q] /\ num'[q] = num[q]
                 /\ seen'[q] = seen[q] /\ tries'[q] = tries[q]
        PROVE  Untouched'
    <3>1. ASSUME NEW q \in Proc \ {p}
          PROVE  OnItsWay(q)'
      <4>1. OnItsWay(q)
        BY DEF Untouched
      <4> QED BY <4>1, <2>f DEF OnItsWay
    <3> QED BY <3>1, <2>f DEF Untouched
  <2>1. CASE Acquire(p)
    <3>1. /\ pc'[p] = "list" /\ tries'[p] = ClaimAttempts
          /\ gens' = gens /\ owner' = owner
      BY <2>1, <1>p DEF Acquire, TypeOK, Goto, disk
    <3>2. OnItsWay(p)'
      BY <3>1 DEF OnItsWay
    <3> QED BY <2>1, <2>f, <3>1, <3>2, <1>p DEF Acquire, TypeOK, Goto
  <2>2. CASE Contend(p)
    <3>1. tries[p] > 0 /\ tries[p] # 0 /\ pc[p] = "list"
      BY <2>2, <2>o, <1>c DEF Contend, OnItsWay
    <3>2. /\ gens' = gens /\ owner' = owner /\ seen' = seen /\ tries' = tries
      BY <2>2 DEF Contend, disk, grading
    <3>3. CASE gens = {}
      <4>1. pc'[p] = "claim" /\ num'[p] = 0
        BY <2>2, <3>1, <3>3, <1>p DEF Contend, TypeOK, Goto
      <4>2. num'[p] \in Gen
        BY <4>1, LockConstants DEF Gen
      <4>3. OnItsWay(p)'
        BY <4>1, <4>2, <3>2, <3>3 DEF OnItsWay, Gen
      <4> QED BY <2>2, <2>f, <3>2, <4>3, <1>p DEF Contend, TypeOK, Goto
    <3>4. CASE gens # {}
      <4>1. gens = {0} /\ MaxGen \in Nat
        BY <3>4, LockConstants DEF Untouched
      <4>2. /\ num' = [num EXCEPT ![p] = 0 + 1] /\ 0 < MaxGen
            /\ pc' = [pc EXCEPT ![p] = IF force[p] THEN "claim" ELSE "look"]
        BY <2>2, <3>1, <4>1 DEF Contend, Goto
      <4>3. num'[p] = 1 /\ num'[p] \in Gen
        BY <4>1, <4>2, <1>p DEF TypeOK, Gen
      <4>4. pc'[p] \in {"claim", "look"}
        <5>1. pc'[p] = IF force[p] THEN "claim" ELSE "look"
          BY <4>2, <1>p DEF TypeOK
        <5> QED BY <5>1, Zenon
      <4>5. OnItsWay(p)'
        BY <4>1, <4>3, <4>4, <3>2 DEF OnItsWay, Gen
      <4> QED BY <2>f, <3>2, <4>2, <4>5, <1>p DEF TypeOK
    <3> QED BY <3>3, <3>4
  <2>3. CASE Look(p)
    <3>1. /\ pc'[p] = "grade" /\ seen'[p] = OwnerText(num[p] - 1)
          /\ gens' = gens /\ owner' = owner /\ num' = num
          /\ gens = {0} /\ num[p] = 1
      BY <2>3, <2>o, <1>p DEF Look, TypeOK, Goto, disk, OnItsWay
    <3>2. seen'[p] = OldBeat
      BY <3>1 DEF OwnerText, Untouched, OldBeat, Missing
    <3>3. OnItsWay(p)'
      BY <3>1, <3>2 DEF OnItsWay
    <3> QED BY <2>3, <2>f, <3>1, <3>3, <1>p DEF Look, TypeOK, Goto
  <2>4. CASE BeatMoves(p)
    <3>1. gens = {0} /\ num[p] = 1 /\ seen[p] = OldBeat /\ pc[p] = "grade"
      BY <2>4, <2>o DEF BeatMoves, OnItsWay
    <3>2. OwnerText(num[p] - 1) = seen[p]
      BY <3>1 DEF OwnerText, Untouched, OldBeat, Missing
    <3>3. /\ gens' = gens /\ owner' = owner /\ num' = num
          /\ pc'[p] = "claim" \/ (pc'[p] = "grade" /\ seen' = seen)
      BY <2>4, <3>2, <1>p DEF BeatMoves, TypeOK, Goto, disk
    <3>4. 1 \in Gen \ gens
      BY <3>1, RunTypes DEF Held
    <3>5. OnItsWay(p)'
      BY <3>1, <3>3, <3>4 DEF OnItsWay
    <3> QED BY <2>4, <2>f, <3>3, <3>5, <1>p DEF BeatMoves, TypeOK, Goto
  <2>5. CASE Claim(p)
    <3>1. num[p] \in Gen \ gens /\ \A m \in gens : m < num[p]
      BY <2>5, <2>o DEF Claim, OnItsWay
    <3>2. /\ pc'[p] \in Owning /\ num'[p] = num[p] /\ gens' = gens \cup {num[p]}
      BY <2>5, <3>1, <1>p DEF Claim, TypeOK, Goto, Owning, Starting
    <3>3. IsHighest(num[p])'
      BY <3>1, <3>2, <1>p, LockConstants DEF IsHighest, TypeOK, Gen
    <3> QED BY <3>2, <3>3 DEF Taken
  <2> QED BY <2>0, <2>1, <2>2, <2>3, <2>4, <2>5 DEF Taking
<1> QED BY <1>1, <1>2 DEF Next

\* A server is refused only for the sake of another that took the directory and
\* has lost it to no one: races never refuse everybody (dirlock.mdk: contend).
THEOREM RefusalHasAHolderAlways == Spec => []RefusalHasAHolder
<1> DEFINE Inv == Held /\ (Untouched \/ Taken)
<1>1. Init => Inv
  <2>1. ASSUME Init PROVE Untouched
    <3>1. 0 \in Gen
      BY LockConstants DEF Gen
    <3>2. gens \subseteq {0} /\ (0 \in gens => owner[0] = OldBeat)
      BY <2>1, <3>1 DEF Init
    <3>3. \A p \in Proc : pc[p] = "off"
      BY <2>1 DEF Init
    <3> QED BY <3>2, <3>3 DEF Untouched, OnItsWay
  <2> QED BY <2>1, HeldInit
<1>2. Inv /\ [Next]_vars => Inv'
  BY HeldStep, UntouchedStep, TakenStays
<1>3. Inv => RefusalHasAHolder
  BY DEF Untouched, OnItsWay, Taken, RefusalHasAHolder
<1> QED BY <1>1, <1>2, <1>3, PTL DEF Spec

-----------------------------------------------------------------------------
(* A holder that beats in time is kept *)

\* The polls a contender's watch has lasted, a sleep that has passed included.
Elapsed(q) == IF rested[q] THEN StalePolls - left[q] + 1 ELSE StalePolls - left[q]

\* p is the holder that q would supersede, and has never been silent.
Facing(p, q) ==
  Holds(p) /\ pc[p] \in Beating /\ p \notin silent /\ num[p] < num[q]

\* A contender's number is at most one above the highest generation.
NearTop(q) ==
  pc[q] \in {"look", "grade", "claim"} /\ num[q] >= 1 => Reached(gens, num[q] - 1)
Unforced(q) == pc[q] \in {"look", "grade"} => ~force[q]
SeenBefore(q) == pc[q] = "grade" => seen[q] + Elapsed(q) <= clock
InTime(p) ==
  /\ pc[p] \in {"off", "list", "look", "grade", "claim", "refused"} => age[p] = 0
  /\ pc[p] \in Beating /\ age[p] = StalePolls => p \in silent

\* As long as the heartbeat stands still the holder is at least as overdue as
\* the watch is long; a contender that may claim faces nobody.
Overdue(p, q) ==
  /\ pc[q] = "grade" /\ Facing(p, q) /\ OwnerText(num[q] - 1) = seen[q]
       => age[p] >= Elapsed(q)
  /\ pc[q] = "claim" /\ ~force[q] => ~Facing(p, q)

Watched ==
  /\ Held
  /\ \A g \in Gen : owner[g] <= clock
  /\ \A q \in Proc : NearTop(q) /\ Unforced(q) /\ SeenBefore(q) /\ InTime(q)
  /\ \A p, q \in Proc : Overdue(p, q)

\* The heartbeat of a holder is touched by nobody else.
LEMMA HoldersBeatIsItsOwn ==
  ASSUME Held, NEW r \in Proc, Taking(r) \/ Clearing(r) \/ Holding(r) \/ End(r),
         NEW p \in Proc, p # r, Holds(p)
  PROVE  owner'[num[p]] = owner[num[p]]
<1>t. TypeOK
  BY DEF Held, Types
<1>g. /\ gens \subseteq Int /\ num[p] \in gens /\ num[p] \in Gen
      /\ num[p] \in Int /\ num[r] \in Int
  <2>1. num[p] \in gens /\ num[p] \in Gen
    BY <1>t DEF TypeOK, Holds, IsHighest
  <2>2. gens \subseteq Int
    BY <1>t, LockConstants DEF TypeOK, Gen
  <2> QED BY <2>1, <2>2, RunTypes DEF Held
<1>m. \A m \in gens : m <= num[p]
  BY DEF Holds, IsHighest
<1>1. CASE pc[r] \in Owning /\ (Beat(r) \/ BeatFails(r))
  <2>1. num[r] # num[p]
    <3>1. ASSUME num[r] = num[p]
          PROVE  FALSE
      <4>1. PICK m \in gens : m > num[p]
        BY <1>1, <3>1 DEF Held, NamesApart, Superseded, Holds
      <4>2. m \in Int /\ m <= num[p]
        BY <1>g, <1>m
      <4> QED BY <4>1, <4>2, <1>g
    <3> QED BY <3>1
  <2>2. owner' = owner \/ \E v : owner' = [owner EXCEPT ![num[r]] = v]
    BY <1>1 DEF Beat, BeatFails
  <2> QED BY <2>1, <2>2, <1>t, <1>g DEF TypeOK
<1>2. CASE DiscardOwner(r)
  <2>1. PICK m \in todo[r] : owner' = owner \/ owner' = [owner EXCEPT ![m] = Missing]
    BY <1>2 DEF DiscardOwner
  <2>2. m # num[p]
    <3>1. m < num[r]
      BY <1>2 DEF Held, BelowItsOwn, DiscardOwner
    <3>2. PICK k \in gens : k >= num[r]
      BY <1>2 DEF Held, OwnersReached, Reached, DiscardOwner, Owning, Starting
    <3>3. k \in Int /\ k <= num[p]
      BY <1>g, <1>m
    <3> QED BY <3>1, <3>2, <3>3, <1>g
  <2> QED BY <2>1, <2>2, <1>t, <1>g DEF TypeOK
<1>3. \/ pc[r] \in Owning /\ (Beat(r) \/ BeatFails(r))
      \/ DiscardOwner(r)
      \/ owner' = owner
  <2>1. CASE Taking(r)
    BY <2>1 DEF Taking, Acquire, Contend, Look, BeatMoves, Claim, disk
  <2>2. CASE Clearing(r)
    BY <2>2 DEF Clearing, FirstBeat, DiscardOlder, DiscardDir, disk, Owning, Starting
  <2>3. CASE Holding(r) \/ End(r)
    BY <2>3 DEF Holding, HoldDataLock, Confirm, Renew, ConfigureWrite, Request, Stop, End,
                disk, Owning, Starting
  <2> QED BY <2>1, <2>2, <2>3
<1> QED BY <1>1, <1>2, <1>3

\* A contender that has listed faces a holder only if it faced it before.
LEMMA FacedBefore ==
  ASSUME Held, NEW r \in Proc, Taking(r) \/ Clearing(r) \/ Holding(r) \/ End(r),
         NEW p \in Proc, NEW q \in Proc, NearTop(q),
         pc[q] \in {"look", "grade", "claim"}, num'[q] = num[q],
         Facing(p, q)'
  PROVE  Facing(p, q) /\ num'[p] = num[p] /\ num[q] = num[p] + 1
<1>t. TypeOK /\ Types
  BY DEF Held, Types
<1>g. /\ gens \subseteq Int /\ gens' \subseteq Int /\ MaxGen \in Nat
      /\ num[p] \in Int /\ num[q] \in Int
  <2>1. gens \subseteq Int /\ MaxGen \in Nat
    BY <1>t, LockConstants DEF TypeOK, Gen
  <2>2. num[p] \in Int /\ num[q] \in Int
    BY <1>t, RunTypes
  <2>3. gens' \subseteq Int
    <3>1. Types'
      BY <1>t, TypeStep DEF Next
    <3> QED BY <3>1, LockConstants DEF Types, TypeOK, Gen
  <2> QED BY <2>1, <2>2, <2>3
<1>n. NeverDrops(gens, gens')
  BY HighestNeverDrops
<1>f. /\ pc'[p] \in Beating /\ pc'[p] \in Owning /\ p \notin silent'
      /\ num'[p] \in gens' /\ (\A m \in gens' : m <= num'[p]) /\ num'[p] < num[q]
  BY DEF Facing, Holds, IsHighest, Beating
<1>o. /\ num'[p] = num[p]
      /\ \/ pc[p] \in Owning /\ Reached(gens, num[p])
         \/ p = r /\ num[p] \notin gens /\ gens' = gens \cup {num[p]}
  <2>1. CASE p = r
    BY <2>1, <1>f, <1>t, OwnersByClaim DEF Held, OwnersReached
  <2>2. CASE p # r
    BY <2>2, <1>f, <1>t, OwnersByClaim DEF Held, OwnersReached
  <2> QED BY <2>1, <2>2
<1>h. PICK h \in gens : h >= num[p]
  <2>1. CASE Reached(gens, num[p])
    BY <2>1 DEF Reached
  <2>2. CASE ~Reached(gens, num[p])
    <3>1. num[p] \in gens' /\ num[p] >= 0
      <4>1. num[p] >= 0
        <5>1. pc[p] = "claim" \/ pc[p] \in Owning
          BY <1>t, <1>f, <1>o, OwnersByClaim
        <5> QED BY <5>1, <1>t, RunTypes DEF InRange
      <4> QED BY <4>1, <1>f, <1>o
    <3>2. PICK k \in gens : k >= num[q] - 1
      BY <3>1, <1>f, <1>o, <1>g DEF NearTop, Reached
    <3> QED BY <3>2, <1>f, <1>o, <1>g
  <2> QED BY <2>1, <2>2
<1>1. num[p] \in gens /\ \A m \in gens : m <= num[p]
  <2>1. \A m \in gens : m <= num[p]
    BY <1>n, <1>f, <1>o, <1>g DEF NeverDrops
  <2> QED BY <2>1, <1>h, <1>g
<1>2. pc[p] \in Owning
  BY <1>1, <1>o
<1>3. pc[p] \in Beating /\ p \notin silent
  <2>1. CASE p # r
    <3>1. pc'[p] = pc[p]
      BY <2>1, <1>t, OwnersByClaim
    <3>2. silent \subseteq silent' \/ silent' = silent \ {r}
      BY DEF Taking, Acquire, Contend, Look, BeatMoves, Claim,
             Clearing, FirstBeat, DiscardOlder, DiscardOwner, DiscardDir,
             Holding, HoldDataLock, Confirm, Renew, ConfigureWrite, Request, Stop, End,
             Beat, BeatFails, history
    <3> QED BY <2>1, <3>1, <3>2, <1>f
  <2>2. CASE p = r
    <3>1. ~Taking(r) /\ ~End(r)
      BY <2>2, <1>2, <1>f, <1>t
      DEF TypeOK, Taking, Acquire, Contend, Look, BeatMoves, Claim, End, Goto,
          Beating, Owning, Starting
    <3>2. silent \subseteq silent'
      BY <3>1
      DEF Clearing, FirstBeat, DiscardOlder, DiscardOwner, DiscardDir,
          Holding, HoldDataLock, Confirm, Renew, ConfigureWrite, Request, Stop,
          Beat, BeatFails, history
    <3>3. pc[r] = "drain" => pc'[r] = "drain"
      BY <3>1
      DEF Clearing, FirstBeat, DiscardOlder, DiscardOwner, DiscardDir,
          Holding, HoldDataLock, Confirm, Renew, ConfigureWrite, Request, Stop
    <3> QED BY <2>2, <3>2, <3>3, <1>2, <1>f DEF Beating
  <2> QED BY <2>1, <2>2
<1>4. num[q] = num[p] + 1
  <2>1. num[p] >= 0
    BY <1>2, <1>t, RunTypes DEF InRange
  <2>2. PICK k \in gens : k >= num[q] - 1
    BY <2>1, <1>f, <1>o, <1>g DEF NearTop, Reached
  <2> QED BY <2>2, <1>1, <1>f, <1>o, <1>g
<1> QED BY <1>1, <1>2, <1>3, <1>4, <1>f, <1>o DEF Facing, Holds, IsHighest

\* A contender's number stays at most one above the highest.
LEMMA NearTopStep ==
  ASSUME Watched, NEW r \in Proc, Taking(r) \/ Clearing(r) \/ Holding(r) \/ End(r),
         NEW q \in Proc
  PROVE  NearTop(q)' /\ Unforced(q)'
<1>t. TypeOK /\ Types /\ NearTop(q) /\ Unforced(q) /\ Held
  BY DEF Watched, Held, Types
<1>n. NeverDrops(gens, gens')
  BY <1>t, HighestNeverDrops
<1>g. /\ gens \in SUBSET Int /\ gens' \in SUBSET Int /\ num[q] \in Int
  <2>1. gens \in SUBSET Int
    BY <1>t, LockConstants DEF TypeOK, Gen
  <2>2. gens' \in SUBSET Int
    <3>1. Types'
      BY <1>t, TypeStep DEF Next
    <3> QED BY <3>1, LockConstants DEF Types, TypeOK, Gen
  <2> QED BY <1>t, <2>1, <2>2, RunTypes
<1>f. /\ pc'[q] = pc[q] /\ num'[q] = num[q] /\ force'[q] = force[q] => NearTop(q)' /\ Unforced(q)'
  <2>1. Reached(gens, num[q] - 1) => Reached(gens', num[q] - 1)
    BY <1>n, <1>g, Rises
  <2> QED BY <1>t, <2>1 DEF NearTop, Unforced
<1>1. CASE q # r
  <2>1. force'[q] = force[q]
    BY <1>t, <1>1
    DEF TypeOK, Taking, Acquire, Contend, Look, BeatMoves, Claim, grading,
        Clearing, FirstBeat, DiscardOlder, DiscardOwner, DiscardDir,
        Holding, HoldDataLock, Confirm, Renew, ConfigureWrite, Request, Stop, End
  <2> QED BY <1>t, <1>1, <1>f, <2>1, OwnersByClaim
<1>2. CASE q = r /\ Contend(r)
  <2>1. gens' = gens /\ force' = force
    BY <1>2 DEF Contend, disk, grading
  <2>2. CASE pc'[q] = "refused"
    BY <2>2 DEF NearTop, Unforced
  <2>3. CASE num'[q] = 0 /\ pc'[q] = "claim"
    BY <2>3 DEF NearTop, Unforced
  <2>4. CASE \E held \in gens :
               /\ num' = [num EXCEPT ![r] = held + 1]
               /\ pc' = [pc EXCEPT ![r] = IF force[r] THEN "claim" ELSE "look"]
    <3>1. PICK held \in gens :
                 /\ num' = [num EXCEPT ![r] = held + 1]
                 /\ pc' = [pc EXCEPT ![r] = IF force[r] THEN "claim" ELSE "look"]
      BY <2>4
    <3>2. num'[q] = held + 1 /\ pc'[q] = IF force[q] THEN "claim" ELSE "look"
      BY <1>2, <1>t, <3>1 DEF TypeOK
    <3>3. pc'[q] = "look" => ~force[q]
      BY <3>2, Zenon
    <3>4. pc'[q] # "grade"
      BY <3>2, Zenon
    <3>5. Reached(gens, held)
      <4>1. held >= held
        BY <1>g
      <4> QED BY <4>1 DEF Reached
    <3>6. num'[q] - 1 = held
      BY <3>2, <1>g
    <3> QED BY <2>1, <3>3, <3>4, <3>5, <3>6 DEF NearTop, Unforced
  <2> QED BY <1>2, <1>t, <2>2, <2>3, <2>4 DEF Contend, TypeOK, Goto
<1>3. CASE q = r /\ ~Contend(r)
  <2>1. /\ pc'[q] \in {"look", "grade", "claim"} =>
             /\ pc[q] \in {"look", "grade", "claim"} /\ num'[q] = num[q]
        /\ pc'[q] \in {"look", "grade"} =>
             /\ pc[q] \in {"look", "grade"} /\ force'[q] = force[q]
    <3>1. CASE Taking(r)
      BY <1>3, <1>t, <3>1
      DEF TypeOK, Taking, Acquire, Look, BeatMoves, Claim, Goto
    <3>2. CASE ~Taking(r)
      BY <1>3, <1>t, <3>2
      DEF TypeOK, Goto, Clearing, FirstBeat, DiscardOlder, DiscardOwner, DiscardDir,
          Holding, HoldDataLock, Confirm, Renew, ConfigureWrite, Request, Stop, End
    <3> QED BY <3>1, <3>2
  <2>2. Reached(gens, num[q] - 1) => Reached(gens', num[q] - 1)
    BY <1>n, <1>g, Rises
  <2> QED BY <1>t, <2>1, <2>2 DEF NearTop, Unforced
<1> QED BY <1>1, <1>2, <1>3

\* Heartbeats and what is seen of them lie in the past; a run whose last
\* heartbeat is a whole window ago is silent.
LEMMA TimesStep ==
  ASSUME Watched, NEW r \in Proc, Taking(r) \/ Clearing(r) \/ Holding(r) \/ End(r)
  PROVE  /\ \A g \in Gen : owner'[g] <= clock'
         /\ \A q \in Proc : SeenBefore(q)' /\ InTime(q)'
<1>t. TypeOK /\ Types /\ Held /\ clock \in Nat /\ StalePolls \in Nat \ {0}
  BY LockConstants DEF Watched, Held, Types, TypeOK
<1>c. clock' = clock
  BY DEF Taking, Acquire, Contend, Look, BeatMoves, Claim,
         Clearing, FirstBeat, DiscardOlder, DiscardOwner, DiscardDir,
         Holding, HoldDataLock, Confirm, Renew, ConfigureWrite, Request, Stop, End
<1>r. ASSUME NEW q \in Proc
      PROVE  /\ num[q] \in Int /\ left[q] \in Int /\ InRange(q)
             /\ age[q] \in 0..StalePolls /\ (num[q] >= 1 => num[q] - 1 \in Gen)
             /\ SeenBefore(q) /\ InTime(q)
             /\ rested[q] \in BOOLEAN
  <2>1. left[q] \in Int
    BY <1>t, RunTypes
  <2>2. rested[q] \in BOOLEAN
    BY <1>t DEF TypeOK
  <2> QED BY <1>t, <2>1, <2>2, RunTypes DEF Watched
<1>1. ASSUME NEW g \in Gen
      PROVE  owner'[g] <= clock
  <2>1. owner[g] <= clock /\ owner[g] \in Nat \cup {Missing}
    BY <1>t DEF Watched, TypeOK
  <2>2. \/ owner'[g] = owner[g]
        \/ owner'[g] \in {clock, Empty, Missing}
    <3>1. owner' = owner \/ \E m \in Gen, v \in {clock, Empty, Missing} : owner' = [owner EXCEPT ![m] = v]
      <4>1. CASE Beat(r) \/ BeatFails(r)
        <5>1. num[r] \in gens => num[r] \in Gen
          BY <1>t DEF TypeOK
        <5> QED BY <4>1, <5>1 DEF Beat, BeatFails
      <4>2. CASE DiscardOwner(r)
        <5>1. todo[r] \subseteq Gen
          BY <1>t DEF TypeOK
        <5> QED BY <4>2, <5>1 DEF DiscardOwner
      <4>3. CASE ~(Beat(r) \/ BeatFails(r) \/ DiscardOwner(r))
        <5>1. CASE Taking(r)
          BY <5>1 DEF Taking, Acquire, Contend, Look, BeatMoves, Claim, disk
        <5>2. CASE Clearing(r)
          BY <5>2, <4>3 DEF Clearing, FirstBeat, DiscardOlder, DiscardDir, disk
        <5>3. CASE Holding(r) \/ End(r)
          BY <5>3, <4>3 DEF Holding, HoldDataLock, Confirm, Renew, ConfigureWrite, Request,
                            Stop, End, disk
        <5> QED BY <5>1, <5>2, <5>3
      <4> QED BY <4>1, <4>2, <4>3
    <3> QED BY <3>1, <1>t DEF TypeOK
  <2> QED BY <2>1, <2>2, <1>t DEF Empty, Missing
<1>2. ASSUME NEW q \in Proc
      PROVE  SeenBefore(q)'
  <2>1. CASE q = r /\ Look(r)
    <3>1. num[q] - 1 \in Gen
      BY <2>1, <1>r DEF Look, InRange
    <3>2. OwnerText(num[q] - 1) <= clock
      BY <3>1, <1>t DEF OwnerText, Watched, Empty
    <3>3. OwnerText(num[q] - 1) \in Nat
      BY <3>1, <1>t, OwnerTextType
    <3>4. seen'[q] = OwnerText(num[q] - 1) /\ left'[q] = StalePolls /\ rested'[q] = FALSE
      BY <2>1, <1>t DEF Look, TypeOK
    <3>5. Elapsed(q)' = 0
      BY <3>4, <1>t DEF Elapsed
    <3> QED BY <3>2, <3>3, <3>4, <3>5, <1>c DEF SeenBefore
  <2>2. CASE q = r /\ BeatMoves(r)
    <3>1. CASE pc'[q] # "grade"
      BY <3>1 DEF SeenBefore
    <3>2. CASE pc'[q] = "grade"
      <4>1. /\ rested[q] = TRUE /\ rested'[q] = FALSE /\ pc[q] = "grade"
            /\ left'[q] = left[q] - 1 /\ seen'[q] = seen[q]
        BY <2>2, <3>2, <1>t DEF BeatMoves, TypeOK, Goto
      <4>2. Elapsed(q)' = Elapsed(q)
        BY <4>1, <1>r, <1>t DEF Elapsed
      <4> QED BY <4>1, <4>2, <1>r, <1>c DEF SeenBefore
    <3> QED BY <3>1, <3>2
  <2>3. CASE ~(q = r /\ (Look(r) \/ BeatMoves(r)))
    <3>1. pc'[q] = "grade" =>
            /\ pc[q] = "grade" /\ seen'[q] = seen[q]
            /\ left'[q] = left[q] /\ rested'[q] = rested[q]
      <4>1. CASE Taking(r)
        <5>1. CASE Contend(r)
          <6>1. pc'[r] \in {"refused", "claim", "look"} /\ \A x \in Proc \ {r} : pc'[x] = pc[x]
            BY <5>1, <1>t DEF TypeOK, Contend, Goto
          <6> QED BY <5>1, <6>1 DEF Contend, grading
        <5>2. CASE ~Contend(r)
          BY <2>3, <4>1, <5>2, <1>t
          DEF TypeOK, Goto, Taking, Acquire, Look, BeatMoves, Claim
        <5> QED BY <5>1, <5>2
      <4>2. CASE ~Taking(r)
        BY <4>2, <1>t
        DEF TypeOK, Goto, grading,
            Clearing, FirstBeat, DiscardOlder, DiscardOwner, DiscardDir,
            Holding, HoldDataLock, Confirm, Renew, ConfigureWrite, Request, Stop, End
      <4> QED BY <4>1, <4>2
    <3> QED BY <3>1, <1>r, <1>c DEF SeenBefore, Elapsed
  <2> QED BY <2>1, <2>2, <2>3
<1>3. ASSUME NEW q \in Proc
      PROVE  InTime(q)'
  <2>1. \/ age'[q] = 0
        \/ /\ age'[q] = age[q] /\ (q \in silent => q \in silent')
           /\ pc'[q] \in Beating => pc[q] \in Beating \/ age[q] = 0
           /\ pc'[q] \in {"off", "list", "look", "grade", "claim", "refused"} =>
                pc[q] \in {"off", "list", "look", "grade", "claim", "refused"}
    <3>1. CASE Taking(r)
      <4>1. age' = age /\ silent' = silent
        BY <3>1 DEF Taking, Acquire, Contend, Look, BeatMoves, Claim, history
      <4>2. pc[r] \in {"off", "list", "look", "grade", "claim"} /\ \A x \in Proc \ {r} : pc'[x] = pc[x]
        BY <3>1, OwnersByClaim, <1>t DEF Taking, Acquire, Contend, Look, BeatMoves, Claim
      <4>3. pc[q] \in {"off", "list", "look", "grade", "claim"} => age[q] = 0
        BY <1>r DEF InTime
      <4> QED BY <4>1, <4>2, <4>3
    <3>2. CASE ~Taking(r)
      <4>1. \A x \in Proc \ {r} : pc'[x] = pc[x]
        BY OwnersByClaim, <1>t
      <4>2. /\ pc'[r] \in Beating => pc[r] \in Beating
            /\ pc'[r] \notin {"off", "list", "look", "grade", "claim", "refused"}
        BY <3>2, <1>t
        DEF TypeOK, Goto, Beating, Owning, Starting,
            Clearing, FirstBeat, DiscardOlder, DiscardOwner, DiscardDir,
            Holding, HoldDataLock, Confirm, Renew, ConfigureWrite, Request, Stop, End
      <4>3. \/ age' = age /\ silent \subseteq silent'
            \/ age' = [age EXCEPT ![r] = 0] /\ silent \ {r} \subseteq silent'
        BY <3>2
        DEF Clearing, FirstBeat, DiscardOlder, DiscardOwner, DiscardDir, history,
            Holding, HoldDataLock, Confirm, Renew, ConfigureWrite, Request, Stop, End,
            Beat, BeatFails
      <4> QED BY <4>1, <4>2, <4>3, <1>t DEF TypeOK
    <3> QED BY <3>1, <3>2
  <2> QED BY <2>1, <1>r, <1>t DEF InTime
<1> QED BY <1>1, <1>2, <1>3, <1>c

\* While the heartbeat stands still the holder stays as overdue as the watch.
LEMMA GradeStep ==
  ASSUME Watched, NEW r \in Proc, Taking(r) \/ Clearing(r) \/ Holding(r) \/ End(r),
         Types', NEW p \in Proc, NEW q \in Proc, pc'[q] = "grade", Facing(p, q)',
         OwnerText(num[q] - 1)' = seen'[q]
  PROVE  age'[p] >= Elapsed(q)'
<1>t. /\ TypeOK /\ Types /\ Held /\ clock \in Nat /\ StalePolls \in Nat \ {0}
      /\ NearTop(q) /\ SeenBefore(q) /\ Overdue(p, q)
  BY LockConstants DEF Watched, Held, Types, TypeOK
<1>a. /\ age'[p] \in 0..StalePolls /\ age[p] \in 0..StalePolls /\ left[q] \in Int
      /\ num[p] \in Int /\ num[q] \in Int /\ seen[q] \in Nat /\ rested[q] \in BOOLEAN
  <2>1. age'[p] \in 0..StalePolls
    BY DEF Types, TypeOK
  <2>2. left[q] \in Int /\ num[p] \in Int /\ num[q] \in Int /\ age[p] \in 0..StalePolls
    BY <1>t, RunTypes
  <2> QED BY <1>t, <2>1, <2>2 DEF TypeOK
<1>1. CASE q = r /\ Look(r)
  <2>1. left'[q] = StalePolls /\ rested'[q] = FALSE
    BY <1>1, <1>t DEF Look, TypeOK
  <2>2. Elapsed(q)' = 0
    BY <2>1, <1>t DEF Elapsed
  <2> QED BY <2>2, <1>a
<1>2. CASE ~(q = r /\ Look(r))
  <2>1. /\ pc[q] = "grade" /\ num'[q] = num[q] /\ seen'[q] = seen[q]
        /\ \/ q = r /\ BeatMoves(r) /\ rested[q] /\ ~rested'[q] /\ left'[q] = left[q] - 1
           \/ left'[q] = left[q] /\ rested'[q] = rested[q]
    <3>1. CASE Contend(r)
      <4>1. pc'[r] \in {"refused", "claim", "look"} /\ pc[r] = "list"
        BY <3>1, <1>t DEF TypeOK, Contend, Goto
      <4>2. \A x \in Proc \ {r} : pc'[x] = pc[x] /\ num'[x] = num[x]
        BY <1>t, OwnersByClaim
      <4> QED BY <3>1, <4>1, <4>2 DEF Contend, grading
    <3>2. CASE BeatMoves(r)
      <4>1. CASE q = r
        <5>1. /\ pc[q] = "grade" /\ rested[q] /\ rested'[q] = FALSE
              /\ OwnerText(num[q] - 1) = seen[q]
          BY <3>2, <4>1, <1>t DEF TypeOK, BeatMoves, Goto
        <5>2. num'[q] = num[q] /\ seen'[q] = seen[q] /\ left'[q] = left[q] - 1
          BY <3>2, <4>1, <5>1, <1>t DEF TypeOK, BeatMoves, Goto
        <5> QED BY <3>2, <4>1, <5>1, <5>2
      <4>2. CASE q # r
        <5>1. pc'[q] = pc[q] /\ num'[q] = num[q]
          BY <4>2, <1>t, OwnersByClaim
        <5>2. seen'[q] = seen[q] /\ left'[q] = left[q] /\ rested'[q] = rested[q]
          BY <3>2, <4>2, <1>t DEF TypeOK, BeatMoves
        <5> QED BY <5>1, <5>2, <4>2
      <4> QED BY <4>1, <4>2
    <3>3. CASE Acquire(r) \/ Look(r) \/ Claim(r)
      BY <1>2, <3>3, <1>t DEF TypeOK, Acquire, Look, Claim, Goto, BeatMoves
    <3>4. CASE ~Taking(r)
      BY <3>4, <1>t
      DEF TypeOK, Goto, grading, Taking,
          Clearing, FirstBeat, DiscardOlder, DiscardOwner, DiscardDir,
          Holding, HoldDataLock, Confirm, Renew, ConfigureWrite, Request, Stop, End
    <3> QED BY <3>1, <3>2, <3>3, <3>4 DEF Taking
  <2>2. Facing(p, q) /\ num[q] - 1 = num[p]
    <3>1. Facing(p, q) /\ num[q] = num[p] + 1
      BY <1>t, <2>1, FacedBefore
    <3> QED BY <3>1, <1>a
  <2>3. Elapsed(q)' = Elapsed(q)
    BY <2>1, <1>a, <1>t DEF Elapsed
  <2>4. num[p] \in Gen /\ Holds(p) /\ pc[p] \in Beating
    BY <2>2, <1>t DEF Facing, Holds, IsHighest, TypeOK
  <2>5. CASE owner'[num[p]] = owner[num[p]] /\ age'[p] = age[p]
    <3>1. OwnerText(num[q] - 1)' = OwnerText(num[q] - 1)
      BY <2>1, <2>2, <2>5 DEF OwnerText
    <3> QED BY <2>1, <2>2, <2>3, <2>5, <3>1, <1>t DEF Overdue
  <2>6. CASE p = r /\ Beat(p)
    <3>1. owner'[num[p]] = clock /\ age'[p] = 0
      BY <2>4, <2>6, <1>t DEF Beat, TypeOK
    <3>2. seen[q] = clock
      BY <2>1, <2>2, <3>1, <1>t DEF OwnerText, Missing
    <3>3. seen[q] + Elapsed(q) <= clock
      BY <2>1, <1>t DEF SeenBefore
    <3>4. Elapsed(q) \in Int
      BY <1>a, <1>t DEF Elapsed
    <3> QED BY <2>3, <3>1, <3>2, <3>3, <3>4, <1>t
  <2>7. CASE p = r /\ BeatFails(p)
    BY <2>7 DEF BeatFails, Facing
  <2>8. CASE p = r /\ ~(Beat(p) \/ BeatFails(p))
    <3>1. age'[p] = age[p]
      <4>1. pc'[p] # "ended"
        BY DEF Facing, Beating, Owning, Starting
      <4>2. CASE Taking(p)
        BY <4>2 DEF Taking, Acquire, Contend, Look, BeatMoves, Claim
      <4>3. CASE ~Taking(p)
        BY <2>8, <4>1, <4>3, <1>t
        DEF TypeOK, Goto, Clearing, FirstBeat, DiscardOlder, DiscardOwner, DiscardDir,
            Holding, HoldDataLock, Confirm, Renew, ConfigureWrite, Request, Stop, End
      <4> QED BY <4>2, <4>3
    <3>2. owner'[num[p]] = owner[num[p]]
      <4>1. CASE DiscardOwner(p)
        <5>1. PICK m \in todo[p] : owner' = owner \/ owner' = [owner EXCEPT ![m] = Missing]
          BY <4>1 DEF DiscardOwner
        <5>2. m < num[p]
          BY <4>1, <1>t DEF Held, BelowItsOwn, DiscardOwner
        <5> QED BY <2>4, <5>1, <5>2, <1>a, <1>t DEF TypeOK
      <4>2. CASE ~DiscardOwner(p)
        <5>1. CASE Taking(p)
          BY <5>1 DEF Taking, Acquire, Contend, Look, BeatMoves, Claim, disk
        <5>2. CASE Clearing(p)
          BY <2>8, <5>2, <4>2 DEF Clearing, FirstBeat, DiscardOlder, DiscardDir, disk
        <5>3. CASE Holding(p) \/ End(p)
          BY <2>8, <5>3 DEF Holding, HoldDataLock, Confirm, Renew, ConfigureWrite, Request,
                            Stop, End, disk
        <5> QED BY <2>8, <5>1, <5>2, <5>3
      <4> QED BY <4>1, <4>2
    <3> QED BY <2>5, <3>1, <3>2
  <2>9. CASE p # r
    <3>1. owner'[num[p]] = owner[num[p]]
      BY <1>t, <2>4, <2>9, HoldersBeatIsItsOwn
    <3>2. age'[p] = age[p]
      BY <2>9, <1>t
      DEF TypeOK, Taking, Acquire, Contend, Look, BeatMoves, Claim,
          Clearing, FirstBeat, DiscardOlder, DiscardOwner, DiscardDir,
          Holding, HoldDataLock, Confirm, Renew, ConfigureWrite, Request, Stop, End,
          Beat, BeatFails
    <3> QED BY <2>5, <3>1, <3>2
  <2> QED BY <2>5, <2>6, <2>7, <2>8, <2>9
<1> QED BY <1>1, <1>2

\* Without --force-lock nobody gets to a claim against a holder in time.
LEMMA ClaimStep ==
  ASSUME Watched, NEW r \in Proc, Taking(r) \/ Clearing(r) \/ Holding(r) \/ End(r),
         Types', NEW p \in Proc, NEW q \in Proc, pc'[q] = "claim", ~force'[q]
  PROVE  ~Facing(p, q)'
<1> SUFFICES ASSUME Facing(p, q)' PROVE FALSE
  OBVIOUS
<1>t. /\ TypeOK /\ Types /\ Held /\ StalePolls \in Nat \ {0}
      /\ NearTop(q) /\ Unforced(q) /\ Overdue(p, q) /\ InTime(p)
  BY LockConstants DEF Watched, Held, Types, TypeOK
<1>1. CASE q = r /\ Contend(r)
  <2>1. force' = force /\ ~force[q]
    BY <1>1 DEF Contend, grading
  <2>2. CASE num'[q] = 0
    <3>1. num'[p] < 0
      BY <2>2 DEF Facing
    <3>2. num'[p] >= 0 /\ num'[p] \in Int
      <4>1. pc'[p] \in Owning
        BY DEF Facing, Holds
      <4>2. InRange(p)' /\ num'[p] \in Gen \cup {NoGen}
        BY DEF Types, TypeOK
      <4> QED BY <4>1, <4>2, LockConstants DEF InRange, Gen, NoGen
    <3> QED BY <3>1, <3>2
  <2>3. CASE num'[q] # 0
    <3>1. pc' = [pc EXCEPT ![r] = IF force[r] THEN "claim" ELSE "look"]
      BY <1>1, <1>t, <2>3 DEF Contend, TypeOK, Goto
    <3>2. pc'[q] = IF force[q] THEN "claim" ELSE "look"
      BY <1>1, <1>t, <3>1 DEF TypeOK
    <3> QED BY <2>1, <3>2, Zenon
  <2> QED BY <2>2, <2>3
<1>2. CASE q = r /\ BeatMoves(r)
  <2>1. /\ pc[q] = "grade" /\ num'[q] = num[q] /\ left[q] = 1 /\ rested[q]
        /\ OwnerText(num[q] - 1) = seen[q]
    BY <1>2, <1>t DEF BeatMoves, TypeOK, Goto
  <2>2. Facing(p, q)
    BY <1>t, <2>1, FacedBefore
  <2>3. Elapsed(q) = StalePolls
    BY <2>1, <1>t DEF Elapsed
  <2>4. age[p] = StalePolls
    <3>1. age[p] \in 0..StalePolls
      BY <1>t, RunTypes
    <3>2. age[p] >= StalePolls
      BY <1>t, <2>1, <2>2, <2>3 DEF Overdue
    <3> QED BY <3>1, <3>2, <1>t
  <2> QED BY <2>2, <2>4, <1>t DEF Facing, InTime
<1>3. CASE ~(q = r /\ (Contend(r) \/ BeatMoves(r)))
  <2>1. pc[q] = "claim" /\ num'[q] = num[q] /\ force'[q] = force[q]
    <3>1. CASE q # r
      <4>1. pc'[q] = pc[q] /\ num'[q] = num[q]
        BY <3>1, <1>t, OwnersByClaim
      <4>2. force'[q] = force[q]
        BY <3>1, <1>t
        DEF TypeOK, Taking, Acquire, Contend, Look, BeatMoves, Claim, grading,
            Clearing, FirstBeat, DiscardOlder, DiscardOwner, DiscardDir,
            Holding, HoldDataLock, Confirm, Renew, ConfigureWrite, Request, Stop, End
      <4> QED BY <4>1, <4>2
    <3>2. CASE q = r
      BY <1>3, <3>2, <1>t
      DEF TypeOK, Goto, grading, Taking, Acquire, Look, Claim,
          Clearing, FirstBeat, DiscardOlder, DiscardOwner, DiscardDir,
          Holding, HoldDataLock, Confirm, Renew, ConfigureWrite, Request, Stop, End
    <3> QED BY <3>1, <3>2
  <2>2. Facing(p, q)
    BY <1>t, <2>1, FacedBefore
  <2> QED BY <2>1, <2>2, <1>t DEF Overdue
<1> QED BY <1>1, <1>2, <1>3

\* A tick makes the holder as much more overdue as it makes the watch longer.
LEMMA WatchedTick ==
  ASSUME Watched, Tick, Held'
  PROVE  Watched'
<1>t. /\ TypeOK /\ Types /\ Held /\ clock \in Nat /\ StalePolls \in Nat \ {0}
  BY LockConstants DEF Watched, Held, Types, TypeOK
<1>u. /\ gens' = gens /\ owner' = owner /\ pc' = pc /\ num' = num /\ seen' = seen
      /\ left' = left /\ force' = force /\ clock' = clock + 1
      /\ silent \subseteq silent'
  BY DEF Tick, disk
<1>r. ASSUME NEW q \in Proc
      PROVE  /\ left[q] \in Int /\ age[q] \in 0..StalePolls /\ rested[q] \in BOOLEAN
             /\ seen[q] \in Nat
             /\ rested'[q] = (pc[q] = "grade")
             /\ age'[q] = IF pc[q] \in Beating /\ age[q] < StalePolls
                          THEN age[q] + 1 ELSE age[q]
             /\ pc[q] \in Beating /\ age'[q] = StalePolls => q \in silent'
  <2>1. left[q] \in Int /\ age[q] \in 0..StalePolls
    BY <1>t, RunTypes
  <2>2. rested[q] \in BOOLEAN /\ seen[q] \in Nat
    BY <1>t DEF TypeOK
  <2> QED BY <2>1, <2>2 DEF Tick
<1>1. \A g \in Gen : owner'[g] <= clock'
  <2>1. ASSUME NEW g \in Gen
        PROVE  owner[g] <= clock + 1
    <3>1. owner[g] <= clock /\ owner[g] \in Nat \cup {Missing}
      BY <1>t DEF Watched, TypeOK
    <3> QED BY <3>1, <1>t DEF Missing
  <2> QED BY <1>u, <2>1
<1>e. ASSUME NEW q \in Proc, pc[q] = "grade"
      PROVE  Elapsed(q)' <= Elapsed(q) + 1 /\ Elapsed(q) \in Int /\ Elapsed(q)' \in Int
  <2>1. rested'[q] = TRUE /\ left'[q] = left[q]
    BY <1>e, <1>r, <1>u
  <2>2. Elapsed(q)' = StalePolls - left[q] + 1
    BY <2>1 DEF Elapsed
  <2>3. Elapsed(q) \in {StalePolls - left[q], StalePolls - left[q] + 1}
    BY DEF Elapsed
  <2> QED BY <2>2, <2>3, <1>r, <1>t
<1>2. ASSUME NEW q \in Proc
      PROVE  NearTop(q)' /\ Unforced(q)' /\ SeenBefore(q)' /\ InTime(q)'
  <2>1. NearTop(q)' /\ Unforced(q)'
    BY <1>u DEF Watched, NearTop, Unforced
  <2>2. SeenBefore(q)'
    <3>1. SeenBefore(q)
      BY DEF Watched
    <3> QED BY <3>1, <1>e, <1>r, <1>u, <1>t DEF SeenBefore
  <2>3. InTime(q)'
    <3>1. InTime(q)
      BY DEF Watched
    <3>2. pc[q] \in {"off", "list", "look", "grade", "claim", "refused"} => pc[q] \notin Beating
      BY DEF Beating, Owning, Starting
    <3> QED BY <3>1, <3>2, <1>r, <1>u DEF InTime
  <2> QED BY <2>1, <2>2, <2>3
<1>3. ASSUME NEW p \in Proc, NEW q \in Proc
      PROVE  Overdue(p, q)'
  <2>o. Overdue(p, q)
    BY DEF Watched
  <2>f. Facing(p, q)' => Facing(p, q) /\ pc[p] \in Beating /\ p \notin silent'
    BY <1>u DEF Facing, Holds, IsHighest
  <2>1. ASSUME pc[q] = "grade", Facing(p, q)', OwnerText(num[q] - 1) = seen[q]
        PROVE  age'[p] >= Elapsed(q)'
    <3>1. age[p] >= Elapsed(q)
      BY <2>1, <2>f, <2>o DEF Overdue
    <3>2. age'[p] = age[p] + 1
      <4>1. age'[p] # StalePolls /\ pc[p] \in Beating
        BY <2>1, <2>f, <1>r
      <4> QED BY <4>1, <1>r, <1>t
    <3> QED BY <3>1, <3>2, <2>1, <1>e, <1>r, <1>t
  <2>2. OwnerText(num[q] - 1)' = OwnerText(num[q] - 1)
    BY <1>u DEF OwnerText
  <2>3. pc[q] = "claim" /\ ~force[q] => ~Facing(p, q)'
    BY <2>o, <2>f DEF Overdue
  <2> QED BY <2>1, <2>2, <2>3, <1>u DEF Overdue
<1> QED BY <1>1, <1>2, <1>3 DEF Watched

\* Every step keeps the watch honest.
LEMMA WatchedStep == Watched /\ [Next]_vars => Watched'
<1> SUFFICES ASSUME Watched, [Next]_vars PROVE Watched'
  OBVIOUS
<1>h. Held' /\ Types'
  BY HeldStep DEF Watched, Held
<1>1. CASE UNCHANGED vars
  <2>1. /\ gens' = gens /\ owner' = owner /\ pc' = pc /\ num' = num /\ seen' = seen
        /\ left' = left /\ rested' = rested /\ force' = force /\ clock' = clock
        /\ silent' = silent /\ age' = age
    BY <1>1 DEF vars, disk, grading, history
  <2> QED BY <1>h, <2>1
    DEF Watched, NearTop, Unforced, SeenBefore, InTime, Overdue, Facing, Holds, IsHighest,
        Elapsed, OwnerText
<1>2. CASE Tick
  BY <1>2, <1>h, WatchedTick
<1>3. ASSUME NEW r \in Proc, Taking(r) \/ Clearing(r) \/ Holding(r) \/ End(r)
      PROVE  Watched'
  <2>1. \A q \in Proc : NearTop(q)' /\ Unforced(q)'
    BY <1>3, NearTopStep
  <2>2. /\ \A g \in Gen : owner'[g] <= clock'
        /\ \A q \in Proc : SeenBefore(q)' /\ InTime(q)'
    BY <1>3, TimesStep
  <2>3. ASSUME NEW p \in Proc, NEW q \in Proc
        PROVE  Overdue(p, q)'
    <3>1. pc'[q] = "grade" /\ Facing(p, q)' /\ OwnerText(num[q] - 1)' = seen'[q]
            => age'[p] >= Elapsed(q)'
      BY <1>3, <1>h, GradeStep
    <3>2. pc'[q] = "claim" /\ ~force'[q] => ~Facing(p, q)'
      BY <1>3, <1>h, ClaimStep
    <3> QED BY <3>1, <3>2 DEF Overdue
  <2> QED BY <1>h, <2>1, <2>2, <2>3 DEF Watched
<1> QED BY <1>1, <1>2, <1>3 DEF Next

\* A holder that beats in time loses the directory to --force-lock alone
\* (dirlock.mdk: beatMoves watches a whole window before a claim).
THEOREM LiveHolderIsKeptAlways == Spec => LiveHolderIsKept
<1> DEFINE Kept ==
      \A p \in Proc :
        (Holds(p) /\ pc[p] \in Beating /\ p \notin silent /\ pc'[p] \in Owning)
          => \/ Holds(p)'
             \/ \E q \in Proc : pc[q] = "claim" /\ force[q] /\ num[q] \in gens' \ gens
<1>1. Init => Watched
  <2> SUFFICES ASSUME Init PROVE Watched
    OBVIOUS
  <2>1. /\ \A p \in Proc : pc[p] = "off" /\ age[p] = 0
        /\ \A g \in Gen : owner[g] \in {OldBeat, Missing}
        /\ clock = OldBeat + 1
    BY DEF Init
  <2> QED BY <2>1, HeldInit
    DEF Watched, NearTop, Unforced, SeenBefore, InTime, Overdue, Facing, Holds,
        Beating, Owning, Starting, OldBeat, Missing
<1>2. Watched /\ [Next]_vars => [Kept]_vars
  <2> SUFFICES ASSUME Watched, Next, NEW p \in Proc, Holds(p), pc[p] \in Beating,
                      p \notin silent, pc'[p] \in Owning, ~Holds(p)'
               PROVE  \E q \in Proc : pc[q] = "claim" /\ force[q] /\ num[q] \in gens' \ gens
    BY DEF Kept
  <2>t. TypeOK /\ Types /\ Held /\ gens \subseteq Int /\ num[p] \in Int
    <3>1. TypeOK /\ Types /\ Held
      BY DEF Watched, Held, Types
    <3>2. gens \subseteq Int
      BY <3>1, LockConstants DEF TypeOK, Gen
    <3> QED BY <3>1, <3>2, RunTypes
  <2>1. CASE Tick
    BY <2>1 DEF Tick, disk, Holds, IsHighest
  <2>2. ASSUME NEW r \in Proc, Taking(r) \/ Clearing(r) \/ Holding(r) \/ End(r)
        PROVE  \E q \in Proc : pc[q] = "claim" /\ force[q] /\ num[q] \in gens' \ gens
    <3>1. num'[p] = num[p]
      BY <2>2, <2>t, OwnersByClaim DEF Holds
    <3>2. ~IsHighest(num[p])' /\ IsHighest(num[p])
      BY <3>1 DEF Holds, IsHighest
    <3>3. CASE Claim(r)
      <4>1. /\ pc[r] = "claim" /\ num[r] \notin gens /\ gens' = gens \cup {num[r]}
        BY <3>1, <3>2, <3>3 DEF Claim, IsHighest
      <4>2. num[p] < num[r]
        <5>1. num[r] \in Int
          BY <2>t, RunTypes
        <5> QED BY <3>1, <3>2, <4>1, <5>1, <2>t DEF IsHighest
      <4>3. force[r]
        BY <4>1, <4>2 DEF Watched, Overdue, Facing
      <4> QED BY <4>1, <4>3
    <3>4. CASE ~Claim(r)
      <4>1. NeverDrops(gens, gens') /\ gens' \subseteq gens
        <5>1. gens' \subseteq gens
          BY <2>2, <3>4
          DEF Taking, Acquire, Contend, Look, BeatMoves,
              Clearing, FirstBeat, DiscardOlder, DiscardOwner, DiscardDir,
              Holding, HoldDataLock, Confirm, Renew, ConfigureWrite, Request, Stop, End,
              disk
        <5> QED BY <2>2, <2>t, <5>1, HighestNeverDrops
      <4>2. PICK k \in gens' : k >= num[p]
        BY <3>2, <4>1 DEF NeverDrops, IsHighest
      <4>3. k = num[p]
        BY <3>2, <4>1, <4>2, <2>t DEF IsHighest
      <4> QED BY <3>1, <3>2, <4>1, <4>2, <4>3 DEF IsHighest
    <3> QED BY <3>3, <3>4
  <2> QED BY <2>1, <2>2 DEF Next
<1> HIDE DEF Kept
<1>3. Spec => [][Kept]_vars
  BY <1>1, <1>2, WatchedStep, PTL DEF Spec
<1> QED BY <1>3 DEF LiveHolderIsKept, Kept

=============================================================================
