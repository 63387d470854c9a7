------------------------ MODULE LayoutScannerProofs ------------------------
(***************************************************************************)
(* Safety of the layout scanner for every document, every depth of the     *)
(* stack and every width of the byte that counts the queue.                *)
(***************************************************************************)
EXTENDS LayoutScanner, FiniteSetTheorems, SequenceTheorems, WellFoundedInduction, TLAPS

-----------------------------------------------------------------------------
(* The inductive invariant *)

\* A stack the scanner may hold: it starts at column 0 and rises.
IsStack(s) ==
  /\ s \in Seq(Nat) /\ 1 <= Len(s) /\ Len(s) <= StackMax
  /\ \A i, j \in 1..Len(s) : i < j => s[i] < s[j]

\* A queue of closing tokens counts back from its last NEWLINE.
IsClosing(q) == \A i \in 1..Len(q) : q[i] = IF (Len(q) - i) % 2 = 0 THEN "NEWLINE" ELSE "DEDENT"

IsState(s) == /\ s = [stack |-> s.stack, queue |-> s.queue]
              /\ IsStack(s.stack) /\ s.queue \in Seq(Structural)

-----------------------------------------------------------------------------
(* Numbers *)

LEMMA Greatest ==
  ASSUME NEW n \in Nat, NEW T, T \subseteq 1..n, T # {}
  PROVE  \E d \in T : \A e \in T : e <= d
<1> DEFINE R == OpToRel(<, Nat)
           U == {n - x : x \in T}
<1>1. U \subseteq Nat /\ U # {}
  <2>1. \A x \in T : n - x \in Nat
    OBVIOUS
  <2>2. PICK x \in T : TRUE
    OBVIOUS
  <2>3. n - x \in U
    BY <2>2
  <2> QED BY <2>1, <2>3
<1>2. PICK u \in U : \A y \in U : ~ (<<y, u>> \in R)
  BY <1>1, NatLessThanWellFounded, WFMin, Zenon
<1>3. \A y \in U : ~ (y < u)
  BY <1>1, <1>2 DEF OpToRel
<1>4. PICK d \in T : u = n - d
  BY <1>2
<1>5. \A e \in T : e <= d
  <2> TAKE e \in T
  <2>1. n - e \in U
    OBVIOUS
  <2>2. ~ (n - e < n - d)
    BY <2>1, <1>3, <1>4
  <2>3. e \in Int /\ d \in Int
    OBVIOUS
  <2> HIDE DEF U
  <2> QED BY <2>2, <2>3
<1> QED BY <1>4, <1>5

LEMMA Bounds ==
  /\ StackMax \in Nat /\ Byte \in Nat /\ BufMax \in Nat /\ PendingMax \in Nat
  /\ 1 < StackMax /\ StackMax <= Byte /\ Byte <= 2 * (StackMax - 1)
  /\ PendingMax >= 2 * StackMax - 1 /\ BufMax >= 4 * Byte /\ Lines \in Nat /\ Lines >= 1
BY ScannerAssumption

\* What a byte keeps of a number that is at most its width.
LEMMA OfByte ==
  ASSUME NEW w \in Nat, w > 0, NEW x \in Nat
  PROVE  x % w \in Nat /\ x % w < w /\ (x < w => x % w = x) /\ (x = w => x % w = 0)
<1>1. x % w \in Nat /\ x % w < w
  BY SMT
<1>2. x < w => x % w = x
  BY SMT
<1>3. x = w => x % w = 0
  BY SMT
<1> QED BY <1>1, <1>2, <1>3

\* What is read back from a saved state: the state, or the initial one.
LEMMA RoundTrip ==
  ASSUME NEW s, IsState(s)
  PROVE  /\ IsState(Restored(Saved(s)))
         /\ Restored(Saved(s)).stack \in {s.stack, <<0>>}
         /\ Len(s.stack) < Byte /\ Len(s.queue) < Byte /\ Len(s.queue) <= BufMax - 2 - 4 * Len(s.stack)
              => Restored(Saved(s)) = s
<1> DEFINE n == Len(s.stack)
           q == Len(s.queue)
           levels == Smaller(n, (BufMax - 1) \div 4)
           room == BufMax - (2 + 4 * levels)
           kept == Smaller(q, room)
           b == Saved(s)
<1>1. n \in Nat /\ n >= 1 /\ n <= Byte /\ s.stack \in Seq(Nat) /\ q \in Nat /\ s.queue \in Seq(Structural)
  BY Bounds, LenProperties DEF IsState, IsStack
<1>2. levels \in Nat /\ levels <= n /\ (n < Byte => levels = n)
  <2>1. (BufMax - 1) \div 4 \in Int /\ (BufMax - 1) \div 4 >= Byte - 1
    BY Bounds
  <2> QED BY <2>1, <1>1, Bounds DEF Smaller
<1>3. kept \in Int /\ kept <= q /\ (n < Byte /\ q <= BufMax - 2 - 4 * n => kept = q)
  <2> HIDE DEF levels, n, q
  <2> QED BY <1>1, <1>2, Bounds DEF Smaller
<1>4. b = [depth |-> n % Byte, stack |-> SubSeq(s.stack, 1, levels), count |-> q % Byte,
           queue |-> SubSeq(s.queue, 1, kept)]
  BY DEF Saved
<1> HIDE DEF b, kept, levels
<1>5. n % Byte = IF n < Byte THEN n ELSE 0
  <2> HIDE DEF n
  <2> QED BY <1>1, Bounds, OfByte
<1>6. Restored(b) = IF b.depth = 0 THEN Ground
                    ELSE [stack |-> SubSeq(b.stack, 1, b.depth),
                          queue |-> SubSeq(b.queue, 1, Smaller(b.count, Len(b.queue)))]
  BY DEF Restored
<1>7. IsState(Ground) /\ Ground.stack = <<0>>
  <2>1. <<0>> \in Seq(Nat) /\ Len(<<0>>) = 1 /\ << >> \in Seq(Structural)
    OBVIOUS
  <2> QED BY <2>1, Bounds DEF IsState, IsStack, Ground
<1>8. CASE n < Byte
  <2>1. b.depth = n /\ b.stack = s.stack
    BY <1>1, <1>2, <1>4, <1>5, <1>8, SubSeqFull, SMT
  <2>2. SubSeq(b.stack, 1, b.depth) = s.stack
    BY <1>1, <2>1, SubSeqFull
  <2>3. \A i \in 1..kept : s.queue[i] \in Structural
    BY <1>1, <1>3, ElementOfSeq
  <2>4. b.queue \in Seq(Structural) /\ Len(b.queue) \in Nat
    BY <1>3, <1>4, <2>3, SubSeqProperties, LenProperties
  <2> DEFINE m == Smaller(b.count, Len(b.queue))
             r == SubSeq(b.queue, 1, m)
  <2>5. b.count \in Nat /\ (q < Byte => b.count = q)
    <3>1. b.count = q % Byte
      BY <1>4
    <3>2. q \in Nat /\ Byte \in Nat /\ Byte > 0
      BY <1>1, Bounds
    <3> HIDE DEF q, n, m, r
    <3>3. q % Byte \in Nat /\ (q < Byte => q % Byte = q)
      BY <3>2, OfByte
    <3> QED BY <3>1, <3>3
  <2>6. m \in Nat /\ m <= Len(b.queue)
    BY <2>4, <2>5 DEF Smaller
  <2>7. \A i \in 1..m : b.queue[i] \in Structural
    BY <2>4, <2>6, ElementOfSeq
  <2>8. r \in Seq(Structural)
    BY <2>6, <2>7, SubSeqProperties
  <2>9. Restored(b) = [stack |-> s.stack, queue |-> r]
    <3>1. b.depth # 0
      BY <1>1, <2>1
    <3> HIDE DEF n
    <3> QED BY <1>6, <2>2, <3>1
  <2>10. IsState(Restored(b))
    BY <2>8, <2>9 DEF IsState
  <2>11. ASSUME q < Byte, q <= BufMax - 2 - 4 * n
         PROVE  r = s.queue
    <3>1. b.queue = s.queue
      BY <1>1, <1>3, <1>4, <1>8, <2>11, SubSeqFull, SMT
    <3>2. m = Len(s.queue)
      BY <1>1, <2>5, <2>11, <3>1 DEF Smaller
    <3> QED BY <1>1, <3>1, <3>2, SubSeqFull
  <2>12. s = [stack |-> s.stack, queue |-> s.queue]
    BY DEF IsState
  <2> HIDE DEF r
  <2> QED BY <2>9, <2>10, <2>11, <2>12 DEF b
<1>9. CASE ~ (n < Byte)
  <2>1. b.depth = 0
    BY <1>4, <1>5, <1>9
  <2> QED BY <1>6, <1>7, <1>9, <2>1 DEF b
<1> QED BY <1>8, <1>9
-----------------------------------------------------------------------------
(* Stacks and queues *)

\* A prefix of a stack is a stack.
LEMMA Prefix ==
  ASSUME NEW s, IsStack(s), NEW d \in 1..Len(s)
  PROVE  /\ IsStack(SubSeq(s, 1, d)) /\ Len(SubSeq(s, 1, d)) = d
         /\ \A i \in 1..d : SubSeq(s, 1, d)[i] = s[i]
<1>1. s \in Seq(Nat) /\ Len(s) \in Nat /\ d \in Nat /\ 1 <= d /\ d <= Len(s)
  BY LenProperties DEF IsStack
<1>2. \A i \in 1..d : s[i] \in Nat
  BY <1>1, ElementOfSeq
<1> DEFINE p == SubSeq(s, 1, d)
<1>3. p \in Seq(Nat) /\ Len(p) = d /\ \A i \in 1..d : p[i] = s[i]
  <2>1. p \in Seq(Nat) /\ Len(p) = IF 1 <= d THEN d - 1 + 1 ELSE 0
    BY <1>1, <1>2, SubSeqProperties
  <2>2. \A i \in 1..(d - 1 + 1) : p[i] = s[1 + i - 1]
    BY <1>1, <1>2, SubSeqProperties
  <2> HIDE DEF p
  <2> QED BY <1>1, <2>1, <2>2
<1> HIDE DEF p
<1>4. \A i, j \in 1..d : i < j => p[i] < p[j]
  <2>1. \A i \in 1..d : i \in 1..Len(s)
    BY <1>1
  <2>2. \A i, j \in 1..Len(s) : i < j => s[i] < s[j]
    BY DEF IsStack
  <2> QED BY <1>3, <2>1, <2>2
<1>5. Len(s) <= StackMax
  BY DEF IsStack
<1>6. IsStack(p)
  BY <1>1, <1>3, <1>4, <1>5, Bounds DEF IsStack
<1> QED BY <1>3, <1>6 DEF p

\* The dedents in a closing queue are every other token, from the last but one.
Dedents(q) == {i \in 1..Len(q) : q[i] = "DEDENT"}

LEMMA ClosingCount ==
  ASSUME NEW q \in Seq(Structural), IsClosing(q)
  PROVE  IsFiniteSet(Dedents(q)) /\ Cardinality(Dedents(q)) = Len(q) \div 2
<1> DEFINE n == Len(q)
           h == n \div 2
           f == [x \in 1..h |-> n + 1 - 2 * x]
<1>1. n \in Nat /\ h \in Nat /\ 2 * h <= n /\ n <= 2 * h + 1
  BY LenProperties
<1>2. \A i \in 1..n : q[i] = "DEDENT" <=> (n - i) % 2 = 1
  BY <1>1 DEF IsClosing
<1> HIDE DEF n
<1>3. \A x \in 1..h : n + 1 - 2 * x \in 1..n /\ (n - (n + 1 - 2 * x)) % 2 = 1
  BY <1>1
<1>4. f \in [1..h -> Dedents(q)]
  <2>1. \A x \in 1..h : n + 1 - 2 * x \in Dedents(q)
    BY <1>2, <1>3 DEF Dedents, n
  <2> QED BY <2>1
<1>5. \A x, y \in 1..h : f[x] = f[y] => x = y
  BY <1>1
<1>6. \A i \in Dedents(q) : \E x \in 1..h : f[x] = i
  <2> TAKE i \in Dedents(q)
  <2>1. i \in 1..n /\ (n - i) % 2 = 1
    BY <1>2 DEF Dedents, n
  <2> DEFINE x == (n + 1 - i) \div 2
  <2>2. x \in 1..h /\ n + 1 - 2 * x = i
    BY <1>1, <2>1
  <2> QED BY <2>2
<1>7. f \in Bijection(1..h, Dedents(q))
  BY <1>4, <1>5, <1>6 DEF Bijection, Injection, Surjection, IsInjective
<1>8. ExistsBijection(1..h, Dedents(q))
  BY <1>7 DEF ExistsBijection
<1>9. IsFiniteSet(1..h) /\ Cardinality(1..h) = h
  BY <1>1, FS_Interval
<1> QED BY <1>8, <1>9, FS_Bijection DEF n

\* A closing queue stays one, and starts with a dedent when its length is even.
LEMMA ClosingTail ==
  ASSUME NEW q \in Seq(Structural), q # << >>
  PROVE  /\ Tail(q) \in Seq(Structural) /\ Len(Tail(q)) = Len(q) - 1 /\ Len(q) \in Nat \ {0}
         /\ IsClosing(q) => /\ IsClosing(Tail(q))
                            /\ Head(q) = IF Len(q) % 2 = 0 THEN "DEDENT" ELSE "NEWLINE"
<1>1. /\ Tail(q) \in Seq(Structural) /\ Len(Tail(q)) = Len(q) - 1
      /\ \A i \in 1..Len(Tail(q)) : Tail(q)[i] = q[i + 1]
  BY HeadTailProperties
<1>2. Len(q) \in Nat \ {0} /\ Head(q) = q[1]
  BY EmptySeq
<1>3. ASSUME IsClosing(q)
      PROVE  IsClosing(Tail(q)) /\ Head(q) = IF Len(q) % 2 = 0 THEN "DEDENT" ELSE "NEWLINE"
  <2> DEFINE n == Len(q)
  <2>1. \A i \in 1..(n - 1) : Tail(q)[i] = q[i + 1]
    BY <1>1
  <2>2. \A i \in 1..n : q[i] = IF (n - i) % 2 = 0 THEN "NEWLINE" ELSE "DEDENT"
    BY <1>3 DEF IsClosing
  <2>3. \A i \in 1..(n - 1) : Tail(q)[i] = IF ((n - 1) - i) % 2 = 0 THEN "NEWLINE" ELSE "DEDENT"
    <3> HIDE DEF n
    <3> TAKE i \in 1..(n - 1)
    <3>1. i + 1 \in 1..n /\ n - (i + 1) = (n - 1) - i
      BY <1>2 DEF n
    <3>2. q[i + 1] = IF (n - (i + 1)) % 2 = 0 THEN "NEWLINE" ELSE "DEDENT"
      BY <2>2, <3>1
    <3> QED BY <2>1, <3>1, <3>2
  <2>4. IsClosing(Tail(q))
    BY <1>1, <2>3 DEF IsClosing
  <2>5. q[1] = IF (n - 1) % 2 = 0 THEN "NEWLINE" ELSE "DEDENT"
    BY <1>2, <2>2
  <2>6. (n - 1) % 2 = 0 <=> ~ (n % 2 = 0)
    BY <1>2
  <2> QED BY <1>2, <2>4, <2>5, <2>6
<1> QED BY <1>1, <1>2, <1>3

\* A queue of closing tokens and the levels left below it, within what a byte counts.
LEMMA ClosingShape ==
  ASSUME NEW d \in 1..Depth, IsStack(Stack)
  PROVE  /\ IsState(Closing(d)) /\ Closing(d).stack = SubSeq(Stack, 1, d)
         /\ Len(Closing(d).queue) = 2 * (Depth - d) + 1
         /\ IsClosing(Closing(d).queue)
<1> DEFINE k == 2 * (Depth - d) + 1
           q == [i \in 1..k |-> IF i % 2 = 1 THEN "NEWLINE" ELSE "DEDENT"]
<1>1. Depth \in Nat /\ d \in Nat /\ 1 <= d /\ d <= Depth /\ Depth <= StackMax
  BY LenProperties DEF IsStack, Depth
<1>2. k \in Nat /\ k >= 1 /\ k <= PendingMax
  BY <1>1, Bounds
<1> HIDE DEF k
<1>3. Smaller(k, PendingMax) = k
  BY <1>2, Bounds DEF Smaller
<1>4. Closing(d) = [stack |-> SubSeq(Stack, 1, d), queue |-> q]
  BY <1>3 DEF Closing, Close, Alternating, k
<1>5. q \in Seq(Structural) /\ Len(q) = k
  BY <1>2 DEF Structural
<1>6. \A i \in 1..k : q[i] = IF (k - i) % 2 = 0 THEN "NEWLINE" ELSE "DEDENT"
  <2> TAKE i \in 1..k
  <2>1. (k - i) % 2 = 0 <=> i % 2 = 1
    BY <1>1 DEF k
  <2> QED BY <2>1
<1>7. IsClosing(q)
  BY <1>5, <1>6 DEF IsClosing
<1> HIDE DEF q
<1>8. IsStack(SubSeq(Stack, 1, d))
  BY Prefix DEF Depth
<1>9. IsState(Closing(d))
  BY <1>4, <1>5, <1>8 DEF IsState
<1> QED BY <1>4, <1>5, <1>7, <1>9 DEF k

\* The levels a line leaves open: the innermost starts no further right, if any is.
LEMMA LevelsLeft ==
  ASSUME NEW c \in Nat, IsStack(Stack)
  PROVE  LevelsFor(c) \in 1..Depth /\ (LevelsFor(c) = 1 \/ Stack[LevelsFor(c)] <= c)
<1>1. Depth \in Nat /\ 1 <= Depth /\ \A d \in 1..Depth : Stack[d] \in Nat
  BY ElementOfSeq, LenProperties DEF IsStack, Depth
<1> DEFINE T == {d \in 1..Depth : d = 1 \/ Stack[d] <= c}
<1>2. 1 \in T
  BY <1>1
<1>3. PICK d \in T : \A e \in T : e <= d
  BY <1>1, <1>2, Greatest
<1>4. d \in 1..Depth /\ (d = 1 \/ Stack[d] <= c)
  OBVIOUS
<1>5. \A e \in (d + 1)..Depth : Stack[e] > c
  <2> TAKE e \in (d + 1)..Depth
  <2>1. e \in 1..Depth /\ ~ (e <= d)
    BY <1>1, <1>4
  <2>2. e \notin T
    BY <1>3, <2>1
  <2>3. ~ (Stack[e] <= c)
    BY <2>1, <2>2
  <2> QED BY <1>1, <2>1, <2>3
<1>6. \E x \in 1..Depth : /\ x = 1 \/ Stack[x] <= c
                          /\ \A e \in (x + 1)..Depth : Stack[e] > c
  BY <1>4, <1>5
<1> QED BY <1>6 DEF LevelsFor

-----------------------------------------------------------------------------
(* The invariant *)

\* The bytes of the buffer.
Bytes ==
  /\ buf.depth \in 0..(Byte - 1) /\ buf.count \in 0..(Byte - 1)
  /\ buf.stack \in Seq(Nat) /\ buf.queue \in Seq(Structural)

LEMMA SavedBytes ==
  ASSUME NEW s, IsState(s), buf' = Saved(s)
  PROVE  Bytes'
<1> DEFINE n == Len(s.stack)
           q == Len(s.queue)
           levels == Smaller(n, (BufMax - 1) \div 4)
           kept == Smaller(q, BufMax - (2 + 4 * levels))
           saved == [depth |-> n % Byte, stack |-> SubSeq(s.stack, 1, levels), count |-> q % Byte,
                     queue |-> SubSeq(s.queue, 1, kept)]
<1>1. n \in Nat /\ q \in Nat /\ s.stack \in Seq(Nat) /\ s.queue \in Seq(Structural)
  BY LenProperties DEF IsState, IsStack
<1>2. buf' = saved
  BY DEF Saved
<1> HIDE DEF n, q
<1>3. n % Byte \in 0..(Byte - 1) /\ q % Byte \in 0..(Byte - 1)
  BY <1>1, Bounds, OfByte
<1>4. levels \in Nat /\ levels <= n
  <2>1. (BufMax - 1) \div 4 \in Int /\ (BufMax - 1) \div 4 >= 0
    BY Bounds
  <2> QED BY <1>1, <2>1 DEF Smaller
<1> HIDE DEF levels
<1>5. kept \in Int /\ kept <= q
  BY <1>1, <1>4, Bounds DEF Smaller
<1> HIDE DEF kept
<1>6. \A i \in 1..levels : s.stack[i] \in Nat
  BY <1>1, <1>4, ElementOfSeq DEF n
<1>7. \A i \in 1..kept : s.queue[i] \in Structural
  BY <1>1, <1>5, ElementOfSeq DEF q
<1>8. SubSeq(s.stack, 1, levels) \in Seq(Nat)
  BY <1>4, <1>6, SubSeqProperties
<1>9. SubSeq(s.queue, 1, kept) \in Seq(Structural)
  BY <1>5, <1>7, SubSeqProperties
<1> QED BY <1>2, <1>3, <1>8, <1>9 DEF Bytes

\* Every level but the ground was opened by a line heard in that column, and no
\* line heard since starts left of it.
Encloses(s, H, C) ==
  \A i \in 2..Len(s) : \E j \in H : /\ C[j] = s[i]
                                    /\ \A m \in H : j < m => s[i] <= C[m]
\* The innermost level starts no further right than the line, if that was heard.
Inner(s, H, C, l) == l \in H => Len(s) = 1 \/ s[Len(s)] <= C[l]

Sound ==
  /\ cols \in [1..Lines -> Nat] /\ cols \in Documents
  /\ at \in {"text", "gap", "break", "end", "done"} /\ line \in 1..Lines
  /\ heard \subseteq 1..line /\ eager \in BOOLEAN
  /\ opened \in Nat /\ closed \in Nat
  /\ Bytes /\ IsState(Restored(buf))
  /\ deepest \in Nat /\ Depth - 1 <= deepest

Placed == Encloses(Stack, heard, cols) /\ Inner(Stack, heard, cols, line)

\* What the queue owes, and the room it finds in the buffer.
Owes(s, d) == IsClosing(s.queue) /\ Len(s.queue) + 2 * Len(s.stack) <= 2 * d + 2
Balance(s) == (Len(s.stack) - 1) + Len(s.queue) \div 2
Accounted == Countable => /\ Owes(Restored(buf), deepest)
                          /\ opened - closed = Balance(Restored(buf))

IInv == Sound /\ Placed /\ Accounted /\ EndCloses

LEMMA Ranges ==
  ASSUME Sound
  PROVE  /\ Depth \in Nat /\ 1 <= Depth /\ Depth <= StackMax
         /\ IsStack(Stack) /\ Queue \in Seq(Structural) /\ Len(Queue) \in Nat
         /\ Restored(buf) = [stack |-> Stack, queue |-> Queue]
         /\ \A i \in 1..Depth : Stack[i] \in Nat
         /\ line \in Nat /\ line >= 1 /\ line <= Lines
<1>1. IsStack(Stack) /\ Queue \in Seq(Structural) /\ Restored(buf) = [stack |-> Stack, queue |-> Queue]
  BY DEF Sound, IsState, Stack, Queue
<1>2. Depth \in Nat /\ 1 <= Depth /\ Depth <= StackMax /\ Len(Queue) \in Nat
  BY <1>1, LenProperties DEF IsStack, Depth
<1>3. \A i \in 1..Depth : Stack[i] \in Nat
  BY <1>1, ElementOfSeq DEF IsStack, Depth
<1>4. line \in Nat /\ line >= 1 /\ line <= Lines
  BY Bounds DEF Sound
<1> QED BY <1>1, <1>2, <1>3, <1>4

\* A prefix, and so the ground, encloses what the stack does.
LEMMA PrefixEncloses ==
  ASSUME NEW s, IsStack(s), NEW d \in 1..Len(s), NEW H, NEW C, Encloses(s, H, C)
  PROVE  Encloses(SubSeq(s, 1, d), H, C)
<1>1. Len(s) \in Nat /\ d \in Nat /\ 1 <= d /\ d <= Len(s)
  BY LenProperties DEF IsStack
<1> DEFINE p == SubSeq(s, 1, d)
<1>2. Len(p) = d /\ \A i \in 1..d : p[i] = s[i]
  BY Prefix
<1> HIDE DEF p
<1>3. \A i \in 2..d : i \in 1..d /\ i \in 2..Len(s)
  BY <1>1
<1> QED BY <1>2, <1>3 DEF Encloses, p

LEMMA GroundPlaced ==
  ASSUME NEW H, NEW C, NEW l
  PROVE  Encloses(<<0>>, H, C) /\ Inner(<<0>>, H, C, l)
<1>1. Len(<<0>>) = 1 /\ 2..1 = {}
  OBVIOUS
<1> QED BY <1>1 DEF Encloses, Inner

\* What a given token leaves: the state it was given with, unless a byte could not
\* count it, and nothing but the ground level then.
LEMMA Given ==
  ASSUME Sound, NEW t, NEW s, IsState(s), Give(t, s)
  PROVE  /\ IsState(Restored(buf)') /\ Stack' \in {s.stack, <<0>>}
         /\ opened' \in Nat /\ closed' \in Nat
         /\ deepest' \in Nat /\ deepest <= deepest' /\ Len(s.stack) - 1 <= deepest'
         /\ Depth' - 1 <= deepest'
         /\ (Countable' => Countable)
         /\ (Countable' /\ Len(s.queue) + 2 * Len(s.stack) <= 2 * deepest' + 2
               => Restored(buf)' = s)
<1>1. buf' = Saved(s) /\ Restored(buf)' = Restored(Saved(s))
  BY DEF Give, Restored
<1>2. IsState(Restored(buf)') /\ Stack' \in {s.stack, <<0>>}
  BY <1>1, RoundTrip DEF Stack
<1>3. opened' \in Nat /\ closed' \in Nat
  BY DEF Give, Sound
<1> DEFINE n == Len(s.stack)
           q == Len(s.queue)
<1>4. n \in Nat /\ 1 <= n /\ q \in Nat
  BY LenProperties DEF IsState, IsStack
<1> HIDE DEF n, q
<1>5. deepest \in Nat /\ deepest' = IF n - 1 > deepest THEN n - 1 ELSE deepest
  BY DEF Give, Sound, n
<1>6. deepest' \in Nat /\ deepest <= deepest' /\ n - 1 <= deepest'
  BY <1>4, <1>5
<1>7. Depth' = n \/ Depth' = 1
  <2>1. Depth' = Len(Stack')
    BY DEF Depth
  <2>2. Len(<<0>>) = 1
    OBVIOUS
  <2> QED BY <1>2, <2>1, <2>2 DEF n
<1>8. Depth' - 1 <= deepest'
  <2>1. CASE Depth' = n
    BY <1>6, <2>1
  <2>2. CASE Depth' = 1
    BY <1>6, <2>2
  <2> QED BY <1>7, <2>1, <2>2
<1>9. Countable' => 2 * deepest' < Byte
  BY DEF Countable
<1>10. Countable' => Countable
  BY <1>5, <1>6, <1>9, Bounds DEF Countable
<1>11. ASSUME Countable', q + 2 * n <= 2 * deepest' + 2
       PROVE  Restored(buf)' = s
  <2> DEFINE D == deepest'
  <2>0. D \in Nat /\ n - 1 <= D /\ 2 * D < Byte /\ q + 2 * n <= 2 * D + 2
    BY <1>6, <1>9, <1>11
  <2> HIDE DEF D
  <2>1. n < Byte /\ q < Byte /\ q <= BufMax - 2 - 4 * n
    BY <1>4, <2>0, Bounds
  <2> QED BY <1>1, <2>1, RoundTrip DEF n, q
<1> QED BY <1>2, <1>3, <1>6, <1>8, <1>10, <1>11 DEF n, q

-----------------------------------------------------------------------------
(* The steps *)

Core == Sound /\ Placed /\ Accounted

\* What has to be shown of the state a token is given with.
LEMMA Kept ==
  ASSUME Sound, NEW t, NEW s, IsState(s), Give(t, s),
         cols' = cols, at' \in {"text", "gap", "break", "end"}, line' \in 1..Lines,
         heard' \subseteq 1..line', eager' \in BOOLEAN,
         Encloses(s.stack, heard', cols), Inner(s.stack, heard', cols, line'),
         Countable' => Owes(s, deepest') /\ opened' - closed' = Balance(s)
  PROVE  Core'
<1>1. Sound'
  <2>1. Bytes'
    BY SavedBytes DEF Give
  <2> QED BY <2>1, Given DEF Sound
<1>2. Placed'
  <2>1. Encloses(Stack', heard', cols) /\ Inner(Stack', heard', cols, line')
    BY Given, GroundPlaced
  <2> QED BY <2>1 DEF Placed
<1>3. Accounted'
  <2> SUFFICES ASSUME Countable'
               PROVE  Owes(Restored(buf)', deepest') /\ opened' - closed' = Balance(Restored(buf)')
    BY DEF Accounted
  <2>1. Restored(buf)' = s
    BY Given DEF Owes
  <2> QED BY <2>1
<1> QED BY <1>1, <1>2, <1>3 DEF Core

LEMMA StringKeeps ==
  ASSUME Core, NEW V \in ValidSets \cup {{}}, NEW ahead \in Ahead, GiveString(V, ahead),
         at # "done", eager' \in BOOLEAN
  PROVE  Core'
<1> DEFINE t == InterpToken(ahead)
           s == Restored(buf)
<1>1. t # "INDENT" /\ t # "DEDENT"
  BY DEF InterpToken
<1>2. Sound /\ Placed /\ Accounted
  BY DEF Core
<1>3. Give(t, s) /\ UNCHANGED <<cols, at, line, heard>>
  BY DEF GiveString
<1>4. IsState(s) /\ s.stack = Stack /\ Len(s.stack) = Depth
  BY <1>2 DEF Sound, Stack, Depth
<1>5. opened' = opened /\ closed' = closed /\ deepest' = deepest
  BY <1>1, <1>2, <1>3, <1>4, Ranges DEF Give, Sound
<1>6. Countable' => Owes(s, deepest') /\ opened' - closed' = Balance(s)
  BY <1>2, <1>5 DEF Accounted, Countable
<1>7. at' \in {"text", "gap", "break", "end"} /\ line' \in 1..Lines /\ heard' \subseteq 1..line'
  BY <1>2, <1>3 DEF Sound
<1>8. Encloses(s.stack, heard', cols) /\ Inner(s.stack, heard', cols, line')
  BY <1>2, <1>3, <1>4 DEF Placed
<1> HIDE DEF t, s
<1> QED BY <1>2, <1>3, <1>4, <1>6, <1>7, <1>8, Kept

LEMMA QueuedKeeps ==
  ASSUME Core, NEW V \in ValidSets \cup {{}}, NEW ahead \in Ahead, GiveQueued(V, ahead),
         at # "done", eager' \in BOOLEAN
  PROVE  Core'
<1> DEFINE t == Head(Queue)
           s == [stack |-> Stack, queue |-> Tail(Queue)]
           n == Len(Queue)
<1>1. Sound /\ Placed /\ Accounted /\ Queue # << >>
  BY DEF Core, GiveQueued, QueuedGiven
<1>2. Restored(buf) = [stack |-> Stack, queue |-> Queue] /\ Queue \in Seq(Structural) /\ IsStack(Stack)
  BY <1>1, Ranges
<1>3. Give(t, s) /\ UNCHANGED <<cols, at, line, heard>>
  <2>1. Dequeued(Restored(buf)) = s
    BY <1>2 DEF Dequeued
  <2> HIDE DEF s
  <2> QED BY <2>1 DEF GiveQueued
<1>4. Tail(Queue) \in Seq(Structural) /\ Len(Tail(Queue)) = n - 1 /\ n \in Nat \ {0}
  BY <1>1, <1>2, ClosingTail
<1>5. IsState(s) /\ s.stack = Stack /\ s.queue = Tail(Queue)
  BY <1>2, <1>4 DEF IsState
<1>6. deepest' = deepest
  BY <1>1, <1>3, <1>5, Ranges DEF Give, Sound, Depth
<1>7. ASSUME Countable'
      PROVE  Owes(s, deepest') /\ opened' - closed' = Balance(s)
  <2>1. Countable
    BY <1>6, <1>7 DEF Countable
  <2>2. Owes(Restored(buf), deepest) /\ opened - closed = Balance(Restored(buf))
    BY <1>1, <2>1 DEF Accounted
  <2>3. IsClosing(Queue) /\ n + 2 * Depth <= 2 * deepest + 2 /\ opened - closed = (Depth - 1) + n \div 2
    BY <1>2, <2>2 DEF Owes, Balance, Depth
  <2>4. IsClosing(Tail(Queue)) /\ t = IF n % 2 = 0 THEN "DEDENT" ELSE "NEWLINE"
    BY <1>1, <1>2, <2>3, ClosingTail
  <2>5. opened' = opened /\ closed' = closed + (IF n % 2 = 0 THEN 1 ELSE 0)
    <3>1. t # "INDENT" /\ (t = "DEDENT" <=> n % 2 = 0)
      BY <2>4
    <3>2. opened \in Nat /\ closed \in Nat
      BY <1>1 DEF Sound
    <3> HIDE DEF t, n
    <3> QED BY <1>3, <3>1, <3>2 DEF Give
  <2>6. (n - 1) \div 2 = n \div 2 - (IF n % 2 = 0 THEN 1 ELSE 0)
    BY <1>4
  <2>7. opened \in Nat /\ closed \in Nat /\ Depth \in Nat /\ deepest \in Nat
    BY <1>1, Ranges DEF Sound
  <2>8. Owes(s, deepest')
    <3>1. Len(s.stack) = Depth /\ Len(s.queue) = n - 1
      BY <1>4, <1>5 DEF Depth
    <3>2. (n - 1) + 2 * Depth <= 2 * deepest' + 2
      BY <1>4, <1>6, <2>3, <2>7
    <3> QED BY <1>5, <2>4, <3>1, <3>2 DEF Owes
  <2>9. opened' - closed' = (Depth - 1) + (n - 1) \div 2
    <3> HIDE DEF n
    <3> QED BY <1>4, <2>3, <2>5, <2>6, <2>7
  <2> QED BY <1>4, <1>5, <2>8, <2>9 DEF Balance, Depth
<1>8. at' \in {"text", "gap", "break", "end"} /\ line' \in 1..Lines /\ heard' \subseteq 1..line'
  BY <1>1, <1>3 DEF Sound
<1>9. Encloses(s.stack, heard', cols) /\ Inner(s.stack, heard', cols, line')
  BY <1>1, <1>3, <1>5 DEF Placed
<1> HIDE DEF t, s
<1> QED BY <1>1, <1>3, <1>5, <1>7, <1>8, <1>9, Kept

LEMMA EndKeeps ==
  ASSUME Core, NEW V \in ValidSets \cup {{}}, NEW ahead \in Ahead, GiveAtEnd(V, ahead),
         at # "done", eager' \in BOOLEAN
  PROVE  Core'
<1> DEFINE p == SubSeq(Stack, 1, Depth - 1)
           s == [stack |-> p, queue |-> << >>]
<1>1. Sound /\ Placed /\ Accounted /\ Queue = << >> /\ Depth > 1
  BY DEF Core, GiveAtEnd, EndGiven
<1>2. /\ Restored(buf) = [stack |-> Stack, queue |-> Queue] /\ IsStack(Stack)
      /\ Depth \in Nat /\ Depth - 1 \in 1..Depth
  BY <1>1, Ranges
<1>3. Give("DEDENT", s) /\ UNCHANGED <<cols, at, line, heard>>
  BY DEF GiveAtEnd, Close
<1>4. IsStack(p) /\ Len(p) = Depth - 1 /\ \A i \in 1..(Depth - 1) : p[i] = Stack[i]
  BY <1>2, Prefix DEF Depth
<1>5. IsState(s) /\ s.stack = p /\ s.queue = << >> /\ Len(<< >>) = 0
  <2>1. << >> \in Seq(Structural) /\ Len(<< >>) = 0
    BY EmptySeq
  <2> HIDE DEF p
  <2> QED BY <1>4, <2>1 DEF IsState
<1>6. deepest' = deepest
  <2>1. deepest \in Nat /\ Depth - 1 <= deepest
    BY <1>1 DEF Sound
  <2> QED BY <1>2, <1>3, <1>4, <2>1 DEF Give
<1>7. ASSUME Countable'
      PROVE  Owes(s, deepest') /\ opened' - closed' = Balance(s)
  <2>1. Countable
    BY <1>6, <1>7 DEF Countable
  <2>2. opened - closed = Balance(Restored(buf))
    BY <1>1, <2>1 DEF Accounted
  <2>3. opened - closed = Depth - 1
    BY <1>1, <1>2, <2>2 DEF Balance, Depth
  <2>4. opened' = opened /\ closed' = closed + 1
    BY <1>1, <1>3 DEF Give, Sound
  <2>5. opened \in Nat /\ closed \in Nat /\ deepest \in Nat /\ Depth - 1 <= deepest
    BY <1>1 DEF Sound
  <2>6. Owes(s, deepest')
    BY <1>2, <1>4, <1>5, <1>6, <2>5 DEF Owes, IsClosing
  <2>7. opened' - closed' = (Depth - 1) - 1
    BY <1>2, <2>3, <2>4, <2>5
  <2>8. Balance(s) = Depth - 1 - 1
    <3> HIDE DEF p, s
    <3> QED BY <1>2, <1>4, <1>5 DEF Balance
  <2> QED BY <2>6, <2>7, <2>8
<1>8. at' \in {"text", "gap", "break", "end"} /\ line' \in 1..Lines /\ heard' \subseteq 1..line'
  BY <1>1, <1>3 DEF Sound
<1>9. Encloses(p, heard', cols)
  BY <1>1, <1>2, <1>3, PrefixEncloses DEF Placed, Depth
<1>10. Inner(p, heard', cols, line')
  <2> SUFFICES ASSUME line \in heard, Depth - 1 # 1
               PROVE  p[Depth - 1] <= cols[line]
    BY <1>3, <1>4 DEF Inner
  <2>1. Stack[Depth] <= cols[line]
    BY <1>1 DEF Placed, Inner, Depth
  <2>2. Stack[Depth - 1] < Stack[Depth]
    BY <1>1, <1>2 DEF IsStack, Depth
  <2>3. Stack[Depth - 1] \in Nat /\ Stack[Depth] \in Nat /\ cols[line] \in Nat
    BY <1>1, <1>2, Ranges DEF Sound
  <2> QED BY <1>2, <1>4, <2>1, <2>2, <2>3
<1> HIDE DEF p, s
<1> QED BY <1>1, <1>3, <1>5, <1>7, <1>8, <1>9, <1>10, Kept

LEMMA LexOnKeeps ==
  ASSUME Core, NEW V \in ValidSets \cup {{}}, NEW ahead \in Ahead, LexOn(V, ahead),
         at # "done", eager' \in BOOLEAN
  PROVE  Core'
<1>1. Sound /\ Placed /\ Accounted
  BY DEF Core
<1>2. UNCHANGED <<cols, buf, opened, closed, heard, deepest>>
  BY DEF LexOn
<1>3. /\ Restored(buf)' = Restored(buf) /\ Stack' = Stack /\ Depth' = Depth
      /\ (Countable' <=> Countable)
  BY <1>2 DEF Restored, Stack, Depth, Countable
<1>4. at' \in {"text", "gap", "break", "end", "done"} /\ line' \in {line, line + 1} /\ line' \in 1..Lines
  <2>1. CASE at \in {"text", "gap"}
    BY <1>1, <2>1 DEF LexOn, Sound
  <2>2. CASE at = "break" /\ line < Lines
    <3>1. at' = "text" /\ line' = line + 1
      BY <2>2 DEF LexOn
    <3> QED BY <1>1, <2>2, <3>1, Ranges, Bounds
  <2>3. CASE ~ (at \in {"text", "gap"}) /\ ~ (at = "break" /\ line < Lines)
    <3>1. at' = "done" /\ line' = line
      BY <2>3 DEF LexOn
    <3> QED BY <1>1, <3>1 DEF Sound
  <2> QED BY <2>1, <2>2, <2>3
<1>5. heard' \subseteq 1..line'
  BY <1>1, <1>2, <1>4, Ranges DEF Sound
<1>6. Sound'
  <2>1. Bytes'
    BY <1>1, <1>2 DEF Sound, Bytes
  <2> QED BY <1>1, <1>2, <1>3, <1>4, <1>5, <2>1 DEF Sound
<1>7. line' \in heard => line' = line
  BY <1>1, <1>4, Ranges DEF Sound
<1>8. Placed'
  BY <1>1, <1>2, <1>3, <1>7 DEF Placed, Inner
<1>9. Accounted'
  BY <1>1, <1>2, <1>3 DEF Accounted
<1> QED BY <1>6, <1>8, <1>9 DEF Core

\* A line that starts no further left than any level does not end what it enclosed.
LEMMA HeardEncloses ==
  ASSUME NEW s, NEW H, NEW C, NEW b, Encloses(s, H, C), \A i \in 2..Len(s) : s[i] <= C[b]
  PROVE  Encloses(s, H \cup {b}, C)
BY DEF Encloses

\* The levels above d closed: one NEWLINE given, the other tokens queued.
LEMMA ClosingGiven ==
  ASSUME Sound, Accounted, Queue = << >>, NEW d \in 1..Depth,
         Give(Head(Closing(d).queue), Dequeued(Closing(d)))
  PROVE  LET s == Dequeued(Closing(d))
         IN  /\ IsState(s) /\ s.stack = SubSeq(Stack, 1, d)
             /\ Countable' => Owes(s, deepest') /\ opened' - closed' = Balance(s)
<1> DEFINE q == Closing(d).queue
           s == Dequeued(Closing(d))
<1>1. /\ Depth \in Nat /\ d \in Nat /\ 1 <= d /\ d <= Depth /\ IsStack(Stack)
      /\ Restored(buf) = [stack |-> Stack, queue |-> Queue]
  BY Ranges
<1>2. /\ IsState(Closing(d)) /\ Closing(d).stack = SubSeq(Stack, 1, d)
      /\ Len(q) = 2 * (Depth - d) + 1 /\ IsClosing(q) /\ q \in Seq(Structural)
  BY <1>1, ClosingShape DEF IsState
<1> HIDE DEF q
<1>3. q # << >>
  BY <1>1, <1>2, EmptySeq
<1>4. /\ Tail(q) \in Seq(Structural) /\ Len(Tail(q)) = Len(q) - 1
      /\ IsClosing(Tail(q)) /\ Head(q) = IF Len(q) % 2 = 0 THEN "DEDENT" ELSE "NEWLINE"
  BY <1>2, <1>3, ClosingTail
<1>5. Head(q) = "NEWLINE" /\ Len(Tail(q)) = 2 * (Depth - d)
  BY <1>1, <1>2, <1>4
<1>6. s = [stack |-> SubSeq(Stack, 1, d), queue |-> Tail(q)]
  BY <1>2 DEF Dequeued, q
<1>7. IsStack(SubSeq(Stack, 1, d)) /\ Len(SubSeq(Stack, 1, d)) = d
  BY <1>1, Prefix DEF Depth
<1> HIDE DEF s
<1>8. s.stack = SubSeq(Stack, 1, d) /\ s.queue = Tail(q)
  BY <1>6
<1>9. IsState(s)
  BY <1>4, <1>6, <1>7, <1>8 DEF IsState
<1>10. opened \in Nat /\ closed \in Nat /\ deepest \in Nat /\ Depth - 1 <= deepest
  BY DEF Sound
<1>11. Give("NEWLINE", s)
  BY <1>5 DEF q, s
<1>12. deepest' = deepest /\ opened' = opened /\ closed' = closed
  BY <1>1, <1>7, <1>8, <1>10, <1>11 DEF Give
<1>13. ASSUME Countable'
       PROVE  Owes(s, deepest') /\ opened' - closed' = Balance(s)
  <2>1. Countable
    BY <1>12, <1>13 DEF Countable
  <2>2. opened - closed = Balance(Restored(buf))
    BY <2>1 DEF Accounted
  <2>3. Len(<< >>) = 0
    BY EmptySeq
  <2>4. Balance(Restored(buf)) = Depth - 1
    BY <1>1, <2>3 DEF Balance, Depth
  <2>5. Owes(s, deepest')
    <3>1. 2 * (Depth - d) + 2 * d <= 2 * deepest + 2
      BY <1>1, <1>10
    <3> QED BY <1>4, <1>5, <1>7, <1>8, <1>12, <3>1 DEF Owes
  <2>6. (2 * (Depth - d)) \div 2 = Depth - d
    BY <1>1
  <2>7. Balance(s) = (d - 1) + (2 * (Depth - d)) \div 2
    BY <1>5, <1>7, <1>8 DEF Balance
  <2>8. Balance(s) = Depth - 1
    BY <1>1, <2>6, <2>7
  <2> QED BY <1>12, <2>2, <2>4, <2>5, <2>8
<1> QED BY <1>8, <1>9, <1>13 DEF s

\* A level pushed, or one too many.
LEMMA IndentGiven ==
  ASSUME Sound, Accounted, Queue = << >>, NEW c \in Nat, c > Last(Stack),
         Give(Head(Indented(c).queue), Dequeued(Indented(c)))
  PROVE  LET s == Dequeued(Indented(c))
         IN  /\ IsState(s) /\ s.stack = IF Depth < StackMax THEN Append(Stack, c) ELSE Stack
             /\ Countable' => Owes(s, deepest') /\ opened' - closed' = Balance(s)
<1> DEFINE p == IF Depth < StackMax THEN Append(Stack, c) ELSE Stack
           s == Dequeued(Indented(c))
<1>1. /\ Depth \in Nat /\ 1 <= Depth /\ Depth <= StackMax /\ IsStack(Stack) /\ Stack \in Seq(Nat)
      /\ Restored(buf) = [stack |-> Stack, queue |-> Queue]
      /\ \A i \in 1..Depth : Stack[i] \in Nat
  BY Ranges DEF IsStack
<1>2. Head(<<"INDENT">>) = "INDENT" /\ Tail(<<"INDENT">>) = << >>
  OBVIOUS
<1>3. s = [stack |-> p, queue |-> << >>] /\ Give("INDENT", s)
  <2> HIDE DEF p
  <2>1. Indented(c) = [stack |-> p, queue |-> <<"INDENT">>]
    BY DEF Indented, p
  <2>2. Indented(c).stack = p /\ Indented(c).queue = <<"INDENT">>
    BY <2>1
  <2> QED BY <1>2, <2>2 DEF Dequeued
<1>4. IsStack(p) /\ Len(p) = IF Depth < StackMax THEN Depth + 1 ELSE Depth
  <2>1. CASE ~ (Depth < StackMax)
    BY <1>1, <2>1 DEF Depth
  <2>2. CASE Depth < StackMax
    <3> DEFINE a == Append(Stack, c)
    <3>1. /\ a \in Seq(Nat) /\ Len(a) = Depth + 1 /\ a[Depth + 1] = c
          /\ \A i \in 1..Depth : a[i] = Stack[i]
      BY <1>1, AppendProperties DEF Depth
    <3> HIDE DEF a
    <3>2. \A i, j \in 1..Depth : i < j => Stack[i] < Stack[j]
      BY <1>1 DEF IsStack, Depth
    <3>3. \A i \in 1..Depth : Stack[i] <= Stack[Depth]
      BY <1>1, <3>2
    <3>4. Stack[Depth] < c
      BY <1>1 DEF Last, Depth
    <3>5. \A i, j \in 1..(Depth + 1) : i < j => a[i] < a[j]
      <4> TAKE i, j \in 1..(Depth + 1)
      <4> HAVE i < j
      <4>1. i \in 1..Depth /\ (j \in 1..Depth \/ j = Depth + 1)
        BY <1>1
      <4>2. CASE j \in 1..Depth
        BY <3>1, <3>2, <4>1, <4>2
      <4>3. CASE j = Depth + 1
        <5>1. a[i] = Stack[i] /\ a[j] = c /\ Stack[i] <= Stack[Depth]
          BY <3>1, <3>3, <4>1, <4>3
        <5>2. Stack[i] \in Nat /\ Stack[Depth] \in Nat
          BY <1>1, <4>1
        <5> QED BY <3>4, <5>1, <5>2
      <4> QED BY <4>1, <4>2, <4>3
    <3>6. IsStack(a)
      BY <1>1, <2>2, <3>1, <3>5, Bounds DEF IsStack
    <3> QED BY <2>2, <3>1, <3>6 DEF a
  <2> QED BY <2>1, <2>2
<1> HIDE DEF p, s
<1>5. s.stack = p /\ s.queue = << >>
  BY <1>3
<1>6. IsState(s)
  <2>1. << >> \in Seq(Structural)
    BY EmptySeq
  <2> QED BY <1>3, <1>4, <1>5, <2>1 DEF IsState
<1>7. opened \in Nat /\ closed \in Nat /\ deepest \in Nat /\ Depth - 1 <= deepest
  BY DEF Sound
<1>8. opened' = opened + 1 /\ closed' = closed
  BY <1>3, <1>7 DEF Give
<1>9. deepest' = IF Len(p) - 1 > deepest THEN Len(p) - 1 ELSE deepest
  BY <1>3, <1>5 DEF Give
<1>10. deepest' \in Nat /\ Len(p) \in Nat /\ Len(p) - 1 <= deepest' /\ deepest <= deepest'
  BY <1>1, <1>4, <1>7, <1>9
<1>11. ASSUME Countable'
       PROVE  Owes(s, deepest') /\ opened' - closed' = Balance(s)
  <2>1. 2 * deepest' < Byte
    BY <1>11 DEF Countable
  <2>2. 2 * deepest < Byte
    <3> DEFINE D == deepest'
    <3>1. D \in Nat /\ deepest <= D /\ 2 * D < Byte
      BY <1>10, <2>1
    <3> HIDE DEF D
    <3> QED BY <1>7, <3>1, Bounds
  <2>3. Depth < StackMax /\ Len(p) = Depth + 1
    BY <1>1, <1>4, <1>7, <2>2, Bounds
  <2>4. Len(<< >>) = 0 /\ IsClosing(<< >>)
    BY EmptySeq DEF IsClosing
  <2>5. opened - closed = Balance(Restored(buf))
    BY <2>2 DEF Accounted, Countable
  <2>6. Balance(Restored(buf)) = Depth - 1
    BY <1>1, <2>4 DEF Balance, Depth
  <2>7. Balance(s) = Depth
    BY <1>1, <1>5, <2>3, <2>4 DEF Balance
  <2>8. opened' - closed' = Depth
    BY <1>1, <1>7, <1>8, <2>5, <2>6
  <2>9. Owes(s, deepest')
    BY <1>5, <1>10, <2>4 DEF Owes
  <2> QED BY <2>7, <2>8, <2>9
<1> QED BY <1>5, <1>6, <1>11 DEF s, p

LEMMA NewlineKeeps ==
  ASSUME Core, NEW V \in ValidSets \cup {{}}, NEW ahead \in Ahead, GiveAtNewline(V, ahead),
         at # "done", eager' \in BOOLEAN
  PROVE  Core'
<1>1. Sound /\ Placed /\ Accounted /\ Queue = << >> /\ at \in {"break", "gap"}
  BY DEF Core, GiveAtNewline, NewlineGiven
<1>2. Give(Head(Decided.queue), Dequeued(Decided)) /\ cols' = cols
  BY DEF GiveAtNewline
<1>3. /\ Depth \in Nat /\ 1 <= Depth /\ IsStack(Stack) /\ line \in Nat /\ line >= 1 /\ line <= Lines
      /\ \A i \in 1..Depth : Stack[i] \in Nat
  BY <1>1, Ranges
<1>4. Behind \in {line, line + 1} /\ Behind \in Nat /\ Behind >= line
  BY <1>1, <1>3 DEF Behind
<1>5. /\ Encloses(Stack, heard, cols) /\ Inner(Stack, heard, cols, line)
      /\ heard \subseteq 1..line /\ cols \in [1..Lines -> Nat]
  BY <1>1 DEF Placed, Sound
<1>6. CASE Behind > Lines
  <2>1. at' = "end" /\ line' = line /\ heard' = heard
    BY <1>6 DEF GiveAtNewline
  <2>2. 1 \in 1..Depth /\ Decided = Closing(1)
    BY <1>3, <1>6 DEF Decided
  <2> DEFINE s == Dequeued(Closing(1))
  <2>3. /\ IsState(s) /\ s.stack = SubSeq(Stack, 1, 1)
        /\ Countable' => Owes(s, deepest') /\ opened' - closed' = Balance(s)
    BY <1>1, <1>2, <2>2, ClosingGiven
  <2>4. Give(Head(Closing(1).queue), s)
    BY <1>2, <2>2
  <2> HIDE DEF s
  <2>5. Encloses(s.stack, heard', cols) /\ Inner(s.stack, heard', cols, line')
    <3>1. Encloses(SubSeq(Stack, 1, 1), heard, cols)
      BY <1>3, <1>5, <2>2, PrefixEncloses DEF Depth
    <3>2. Len(SubSeq(Stack, 1, 1)) = 1
      BY <1>3, <2>2, Prefix DEF Depth
    <3> QED BY <2>1, <2>3, <3>1, <3>2 DEF Inner
  <2>6. line' \in 1..Lines /\ heard' \subseteq 1..line'
    BY <1>3, <1>5, <2>1, Bounds
  <2> QED BY <1>1, <1>2, <2>1, <2>3, <2>4, <2>5, <2>6, Kept
<1>7. CASE Behind <= Lines
  <2> DEFINE c == cols[Behind]
             H == heard \cup {Behind}
  <2>1. at' \in {"text", "gap"} /\ line' = Behind /\ heard' = H
    BY <1>3, <1>4, <1>7, Bounds DEF GiveAtNewline
  <2>2. Behind \in 1..Lines /\ c \in Nat
    BY <1>3, <1>4, <1>5, <1>7, Bounds
  <2>3. line' \in 1..Lines /\ heard' \subseteq 1..line'
    <3>1. \A x \in heard : x \in 1..Behind
      BY <1>3, <1>4, <1>5
    <3>2. Behind \in 1..Behind
      BY <2>2
    <3> QED BY <2>1, <2>2, <3>1, <3>2
  <2>4. at' \in {"text", "gap", "break", "end"}
    BY <2>1
  <2>5. Last(Stack) = Stack[Depth] /\ Stack[Depth] \in Nat
    BY <1>3 DEF Last, Depth
  <2> HIDE DEF c
  <2>6. CASE c > Last(Stack)
    <3>1. Decided = Indented(c)
      BY <1>3, <1>4, <1>7, <2>6, Bounds DEF Decided, c
    <3> DEFINE s == Dequeued(Indented(c))
               p == IF Depth < StackMax THEN Append(Stack, c) ELSE Stack
    <3>2. /\ IsState(s) /\ s.stack = p
          /\ Countable' => Owes(s, deepest') /\ opened' - closed' = Balance(s)
      BY <1>1, <1>2, <2>2, <2>6, <3>1, IndentGiven
    <3>3. Give(Head(Indented(c).queue), s)
      BY <1>2, <3>1
    <3> HIDE DEF s
    <3>4. \A i \in 1..Depth : Stack[i] <= c
      <4>1. \A i \in 1..Depth : Stack[i] <= Stack[Depth]
        <5> TAKE i \in 1..Depth
        <5>1. i < Depth => Stack[i] < Stack[Depth]
          BY <1>3 DEF IsStack, Depth
        <5>2. Stack[i] \in Nat
          BY <1>3
        <5> QED BY <1>3, <2>5, <5>1, <5>2
      <4> QED BY <1>3, <2>2, <2>5, <2>6, <4>1
    <3>5. Encloses(Stack, H, cols)
      <4>1. \A i \in 2..Len(Stack) : Stack[i] <= cols[Behind]
        BY <1>3, <3>4 DEF Depth, c
      <4> QED BY <1>5, <4>1, HeardEncloses
    <3>6. Encloses(p, H, cols) /\ Inner(p, H, cols, Behind)
      <4>1. CASE ~ (Depth < StackMax)
        <5>1. p = Stack
          BY <4>1
        <5>2. Stack[Len(Stack)] <= cols[Behind]
          BY <1>3, <3>4 DEF Depth, c
        <5> QED BY <3>5, <5>1, <5>2 DEF Inner
      <4>2. CASE Depth < StackMax
        <5>1. /\ Len(p) = Depth + 1 /\ p[Depth + 1] = c
              /\ \A i \in 1..Depth : p[i] = Stack[i]
          BY <1>3, <2>2, <4>2, AppendProperties DEF Depth, IsStack
        <5> HIDE DEF p
        <5>2. \A m \in H : ~ (Behind < m)
          BY <2>1, <2>2, <2>3
        <5>3. ASSUME NEW i \in 2..(Depth + 1)
              PROVE  \E j \in H : cols[j] = p[i] /\ \A m \in H : j < m => p[i] <= cols[m]
          <6>1. CASE i = Depth + 1
            <7>1. Behind \in H /\ cols[Behind] = p[i]
              BY <5>1, <6>1 DEF c
            <7> QED BY <5>2, <7>1
          <6>2. CASE i # Depth + 1
            <7>1. i \in 1..Depth /\ i \in 2..Len(Stack)
              BY <1>3, <6>2 DEF Depth
            <7> QED BY <3>5, <5>1, <7>1 DEF Encloses
          <6> QED BY <6>1, <6>2
        <5>4. Encloses(p, H, cols)
          BY <5>1, <5>3 DEF Encloses
        <5>5. c <= cols[Behind]
          BY <2>2 DEF c
        <5> QED BY <5>1, <5>4, <5>5 DEF Inner
      <4> QED BY <4>1, <4>2
    <3> HIDE DEF p
    <3> QED BY <1>1, <1>2, <2>1, <2>3, <2>4, <3>2, <3>3, <3>6, Kept
  <2>7. CASE ~ (c > Last(Stack))
    <3> DEFINE d == LevelsFor(c)
               s == Dequeued(Closing(d))
               p == SubSeq(Stack, 1, d)
    <3>1. Decided = Closing(d)
      BY <1>3, <1>4, <1>7, <2>7, Bounds DEF Decided, c
    <3>2. d \in 1..Depth /\ (d = 1 \/ Stack[d] <= c)
      BY <1>3, <2>2, LevelsLeft
    <3> HIDE DEF d
    <3>3. /\ IsState(s) /\ s.stack = p
          /\ Countable' => Owes(s, deepest') /\ opened' - closed' = Balance(s)
      BY <1>1, <1>2, <3>1, <3>2, ClosingGiven
    <3>4. Give(Head(Closing(d).queue), s)
      BY <1>2, <3>1
    <3> HIDE DEF s
    <3>5. Len(p) = d /\ \A i \in 1..d : p[i] = Stack[i]
      BY <1>3, <3>2, Prefix DEF Depth
    <3>6. Encloses(p, heard, cols)
      BY <1>3, <1>5, <3>2, PrefixEncloses DEF Depth
    <3> HIDE DEF p
    <3>7. \A i \in 2..d : p[i] <= c
      <4> TAKE i \in 2..d
      <4>1. d # 1 /\ Stack[d] <= c /\ i \in 1..Depth /\ i <= d
        BY <1>3, <3>2
      <4>2. i < d => Stack[i] < Stack[d]
        BY <1>3, <3>2, <4>1 DEF IsStack, Depth
      <4>3. Stack[i] \in Nat /\ Stack[d] \in Nat /\ p[i] = Stack[i]
        BY <1>3, <3>2, <3>5, <4>1
      <4> QED BY <1>3, <2>2, <3>2, <4>1, <4>2, <4>3
    <3>8. Encloses(p, H, cols)
      BY <3>5, <3>6, <3>7, HeardEncloses DEF c
    <3>9. Inner(p, H, cols, Behind)
      <4>1. d = 1 \/ d \in 2..d
        BY <1>3, <3>2
      <4> QED BY <3>5, <3>7, <4>1 DEF Inner, c
    <3> QED BY <1>1, <1>2, <2>1, <2>3, <2>4, <3>3, <3>4, <3>8, <3>9, Kept
  <2> QED BY <2>6, <2>7
<1> QED BY <1>3, <1>4, <1>6, <1>7, Bounds

\* A parser that asks for either token at the end of a file was given every DEDENT.
LEMMA LastCall ==
  ASSUME Core, NEW V \in ValidSets \cup {{}}, NEW ahead \in Ahead, LexOn(V, ahead),
         at # "done", at' = "done", {"NEWLINE", "DEDENT"} \subseteq V
  PROVE  Queue = << >> /\ Depth = 1
<1>1. V = Structural \cup {"INTERP_OPEN", "INTERP_MID", "INTERP_END"}
  BY DEF ValidSets, Structural
<1>2. (at = "break" /\ line >= Lines) \/ at = "end"
  <2>1. Sound
    BY DEF Core
  <2>2. at \notin {"text", "gap"}
    BY DEF LexOn
  <2>3. ~ (at = "break" /\ line < Lines)
    BY <2>2 DEF LexOn
  <2> QED BY <2>1, <2>2, <2>3, Ranges, Bounds DEF Sound
<1>3. ahead \in {"word", "blank"}
  BY <1>2 DEF Ahead
<1>4. ForLayout(V, ahead) /\ ~ Hidden(V, ahead)
  BY <1>1, <1>3 DEF ForLayout, ForStrings, Hidden, Structural
<1>5. ~ QueuedGiven(V, ahead) /\ ~ EndGiven(V, ahead) /\ ~ NewlineGiven(V, ahead)
  BY DEF LexOn
<1>6. /\ Queue \in Seq(Structural) /\ Depth \in Nat /\ 1 <= Depth /\ line \in Nat
      /\ IsStack(Stack)
  BY Ranges DEF Core
<1>7. Queue = << >>
  <2> SUFFICES ASSUME Queue # << >> PROVE FALSE
    OBVIOUS
  <2>1. Head(Queue) \in Structural
    BY <1>6, HeadTailProperties
  <2> QED BY <1>1, <1>4, <1>5, <2>1 DEF QueuedGiven
<1>8. CASE at = "break" /\ line >= Lines
  <2>1. Decided = Closing(1)
    BY <1>6, <1>8, Bounds DEF Decided, Behind
  <2>2. 1 \in 1..Depth
    BY <1>6
  <2>3. Closing(1).queue \in Seq(Structural) /\ Len(Closing(1).queue) = 2 * (Depth - 1) + 1
    BY <1>6, <2>2, ClosingShape DEF IsState
  <2>4. Closing(1).queue # << >>
    BY <1>6, <2>3, EmptySeq
  <2>5. Head(Decided.queue) \in Structural
    BY <2>1, <2>3, <2>4, HeadTailProperties
  <2> QED BY <1>1, <1>4, <1>5, <1>7, <1>8, <2>5 DEF NewlineGiven
<1>9. CASE at = "end"
  <2>1. ~ (Depth > 1)
    BY <1>1, <1>4, <1>5, <1>7, <1>9 DEF EndGiven
  <2> QED BY <1>6, <1>7, <2>1
<1> QED BY <1>2, <1>8, <1>9

\* Every step keeps the invariant's parts, and says what the last call found.
LEMMA ScanKeeps ==
  ASSUME Core, EndCloses, Scan
  PROVE  Core' /\ EndCloses'
<1>1. PICK V \in ValidSets \cup {{}}, ahead \in Ahead :
        /\ \/ GiveString(V, ahead) \/ GiveQueued(V, ahead) \/ GiveAtEnd(V, ahead)
           \/ GiveAtNewline(V, ahead) \/ LexOn(V, ahead)
        /\ eager' = (at' = "done" /\ {"NEWLINE", "DEDENT"} \subseteq V)
  BY DEF Scan
<1>2. at # "done" /\ eager' \in BOOLEAN
  BY <1>1 DEF Scan
<1>3. ASSUME at' # "done"
      PROVE  EndCloses'
  BY <1>3 DEF EndCloses
<1>4. CASE GiveString(V, ahead)
  <2>1. at' = at
    BY <1>4 DEF GiveString
  <2> QED BY <1>2, <1>3, <1>4, <2>1, StringKeeps
<1>5. CASE GiveQueued(V, ahead)
  <2>1. at' = at
    BY <1>5 DEF GiveQueued
  <2> QED BY <1>2, <1>3, <1>5, <2>1, QueuedKeeps
<1>6. CASE GiveAtEnd(V, ahead)
  <2>1. at' = at
    BY <1>6 DEF GiveAtEnd
  <2> QED BY <1>2, <1>3, <1>6, <2>1, EndKeeps
<1>7. CASE GiveAtNewline(V, ahead)
  <2>1. at' # "done"
    BY <1>7 DEF GiveAtNewline
  <2> QED BY <1>2, <1>3, <1>7, <2>1, NewlineKeeps
<1>8. CASE LexOn(V, ahead)
  <2>1. Core'
    BY <1>2, <1>8, LexOnKeeps
  <2>2. ASSUME at' = "done", eager', Countable'
        PROVE  opened' = closed'
    <3>1. {"NEWLINE", "DEDENT"} \subseteq V
      BY <1>1, <2>2
    <3>2. Queue = << >> /\ Depth = 1
      BY <1>2, <1>8, <2>2, <3>1, LastCall
    <3>3. UNCHANGED <<buf, opened, closed, deepest>>
      BY <1>8 DEF LexOn
    <3>4. Countable
      BY <2>2, <3>3 DEF Countable
    <3>5. opened - closed = Balance(Restored(buf)) /\ Sound
      BY <3>4 DEF Core, Accounted
    <3>6. Restored(buf) = [stack |-> Stack, queue |-> Queue] /\ Len(<< >>) = 0
      BY <3>5, Ranges, EmptySeq
    <3>7. Balance(Restored(buf)) = 0
      BY <3>2, <3>6 DEF Balance, Depth
    <3>8. opened \in Nat /\ closed \in Nat
      BY <3>5 DEF Sound
    <3> QED BY <3>3, <3>5, <3>7, <3>8
  <2> QED BY <2>1, <2>2 DEF EndCloses
<1> QED BY <1>1, <1>4, <1>5, <1>6, <1>7, <1>8

-----------------------------------------------------------------------------
(* The theorems *)

LEMMA InitHolds == Init => IInv
<1> SUFFICES ASSUME Init PROVE IInv
  OBVIOUS
<1>1. buf = Empty /\ cols \in Documents /\ at = "text" /\ line = 1 /\ heard = {1}
      /\ opened = 0 /\ closed = 0 /\ deepest = 0 /\ eager = FALSE
  BY DEF Init
<1>2. Restored(buf) = Ground
  BY <1>1 DEF Restored, Empty
<1>3. Stack = <<0>> /\ Queue = << >> /\ Len(<<0>>) = 1 /\ Len(<< >>) = 0 /\ Depth = 1
  BY <1>2 DEF Stack, Queue, Depth, Ground
<1>4. IsState(Ground)
  <2>1. <<0>> \in Seq(Nat) /\ Len(<<0>>) = 1 /\ << >> \in Seq(Structural)
    OBVIOUS
  <2> QED BY <2>1, Bounds DEF IsState, IsStack, Ground
<1>5. Bytes
  BY <1>1, Bounds DEF Bytes, Empty
<1>6. cols \in [1..Lines -> Nat]
  BY <1>1, ScannerAssumption
<1>7. 1 \in 1..Lines /\ {1} \subseteq 1..1
  BY Bounds
<1>8. Sound
  <2>1. IsState(Restored(buf))
    BY <1>2, <1>4
  <2>2. deepest \in Nat /\ Depth - 1 <= deepest
    BY <1>1, <1>3
  <2>3. opened \in Nat /\ closed \in Nat /\ eager \in BOOLEAN
    BY <1>1
  <2>4. /\ cols \in Documents /\ at \in {"text", "gap", "break", "end", "done"}
        /\ line \in 1..Lines /\ heard \subseteq 1..line
    BY <1>1, <1>7
  <2> QED BY <1>5, <1>6, <2>1, <2>2, <2>3, <2>4 DEF Sound
<1>9. Placed
  BY <1>3, GroundPlaced DEF Placed
<1>10. Accounted
  <2>1. Owes(Ground, 0) /\ Balance(Ground) = 0
    BY <1>3 DEF Owes, Balance, Ground, IsClosing
  <2> QED BY <1>1, <1>2, <2>1 DEF Accounted
<1>11. EndCloses
  BY <1>1 DEF EndCloses
<1> QED BY <1>8, <1>9, <1>10, <1>11 DEF IInv

LEMMA NextHolds == IInv /\ [Next]_vars => IInv'
<1> SUFFICES ASSUME IInv, [Next]_vars PROVE IInv'
  OBVIOUS
<1>1. Core /\ EndCloses
  BY DEF IInv, Core
<1>2. CASE Scan
  BY <1>1, <1>2, ScanKeeps DEF IInv, Core
<1>3. CASE UNCHANGED vars
  <2>1. UNCHANGED <<cols, at, line, buf, opened, closed, heard, eager, deepest>>
    BY <1>3 DEF vars
  <2>2. /\ Restored(buf)' = Restored(buf) /\ Stack' = Stack /\ Depth' = Depth
        /\ (Countable' <=> Countable)
    BY <2>1 DEF Restored, Stack, Depth, Countable
  <2>3. Bytes' <=> Bytes
    BY <2>1 DEF Bytes
  <2>4. Sound' /\ Placed' /\ Accounted'
    BY <2>1, <2>2, <2>3 DEF IInv, Sound, Placed, Accounted
  <2>5. EndCloses'
    BY <2>1, <2>2 DEF IInv, EndCloses
  <2> QED BY <2>4, <2>5 DEF IInv
<1> QED BY <1>2, <1>3 DEF Next, Done

(* The invariant the others follow from (deserialize, scan): what is read back
   is a rising stack on column 0 and a queue that its byte counts. *)
THEOREM Invariance == Spec => []IInv
BY InitHolds, NextHolds, PTL DEF Spec

(* The types of the scanner's state and of the parse around it
   (serialize, deserialize). *)
THEOREM TypeCorrect == Spec => []TypeOK
<1>1. IInv => TypeOK
  <2> SUFFICES ASSUME IInv PROVE TypeOK
    OBVIOUS
  <2>1. Sound /\ Bytes
    BY DEF IInv, Sound
  <2>2. 1..line \subseteq 1..Lines
    BY <2>1, Ranges, Bounds
  <2> QED BY <2>1, <2>2 DEF Sound, Bytes, TypeOK
<1> QED BY <1>1, Invariance, PTL

(* No level is lost or closed twice between the buffer, the queue and calls that
   gave nothing, at every depth whose dedents a byte counts (enqueue, dequeue). *)
THEOREM BalancedAlways == Spec => []Balanced
<1>1. IInv => Balanced
  <2> SUFFICES ASSUME IInv, Countable PROVE opened - closed = (Depth - 1) + QueuedDedents
    BY DEF Balanced
  <2>1. /\ Restored(buf) = [stack |-> Stack, queue |-> Queue] /\ Queue \in Seq(Structural)
    BY Ranges DEF IInv
  <2>2. Owes(Restored(buf), deepest) /\ opened - closed = Balance(Restored(buf))
    BY DEF IInv, Accounted
  <2>3. IsClosing(Queue) /\ opened - closed = (Depth - 1) + Len(Queue) \div 2
    BY <2>1, <2>2 DEF Owes, Balance, Depth
  <2>4. DOMAIN Queue = 1..Len(Queue)
    BY <2>1, LenProperties
  <2>5. QueuedDedents = Cardinality(Dedents(Queue))
    BY <2>4 DEF QueuedDedents, Dedents
  <2> QED BY <2>1, <2>3, <2>5, ClosingCount
<1> QED BY <1>1, Invariance, PTL

(* The open levels are the blocks the current line is in, at every depth
   (scan, stack_depth). *)
THEOREM LevelsEncloseAlways == Spec => []LevelsEnclose
<1>1. IInv => LevelsEnclose
  <2> SUFFICES ASSUME IInv PROVE LevelsEnclose
    OBVIOUS
  <2>1. /\ IsStack(Stack) /\ Depth \in Nat /\ Depth = Len(Stack)
        /\ Encloses(Stack, heard, cols) /\ Inner(Stack, heard, cols, line)
    BY Ranges DEF IInv, Placed, Depth
  <2>2. \A i \in 2..Depth : Stack[i - 1] < Stack[i]
    BY <2>1 DEF IsStack
  <2>3. \A i \in 2..Depth : \E j \in heard : /\ cols[j] = Stack[i]
                                             /\ \A m \in heard : j < m => Stack[i] <= cols[m]
    BY <2>1 DEF Encloses
  <2>4. line \in heard => Depth = 1 \/ Last(Stack) <= cols[line]
    BY <2>1 DEF Inner, Last
  <2> QED BY <2>2, <2>3, <2>4 DEF LevelsEnclose
<1> QED BY <1>1, Invariance, PTL

(* A parser that ends on asking for either token at the end of the file was given
   a DEDENT for every INDENT (eof, "no newline at end of file"). *)
THEOREM EndClosesAlways == Spec => []EndCloses
<1>1. IInv => EndCloses
  BY DEF IInv
<1> QED BY <1>1, Invariance, PTL
=============================================================================
